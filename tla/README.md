# A TLA+ model of aixecutor

`aixecutor` drives external coding agents through one pipeline: a planner writes
four documents, one of them a DAG of subtasks; an execution engine runs the
subtasks in batches, each one through an executor and a review loop; a senior
reviewer judges the whole change. The state of a run lives in
`.aixecutor/runs/<id>/run.yaml`; `review`, `stop`, `resume` and `amend` act on a
run from other processes. This directory holds TLA+ modules of that program, the
TLC configurations that check them, and proofs checked by TLAPS.

References to code are relative to the repository root.

## The system

| Component | State it keeps | Operations | Talks to | Hard part |
|---|---|---|---|---|
| Run record (`internal/run/state.go`, `run.go`) | status, subtasks (status, loops, unresolved), senior review (status, rounds, unresolved) | enumerations and predicates | everything | which statuses restart on resume |
| Run store (`internal/run/store.go`, `id.go`, `layout.go`) | `run.yaml`, `latest`, run directories | Create, Save (temp file + rename), Load, List | orchestrator, owner, CLI | atomicity, failing saves, two runs in a second |
| Control channel (`internal/run/control.go`) | a `pause` and a `stop` marker file | Request*, *Requested, Clear* | `review`, `stop` write; engine and orchestrator read and clear | a request crossing a state change |
| Execution engine (`internal/pipeline/scheduler.go`, `state_actor.go`, `overlap.go`) | the record in memory, the running batch, the semaphore, the stop watcher | Run, batches, pause boundary, finalize, deadlock | executor, review hook, store, markers | workers, watcher, saves, crashes in any order |
| Executor (`executor.go`, `undeclared.go`) | snapshots, the worktree, `diff.patch` | executeSubtask, runExecutor | gateway, harness, owner | a pass cut in the middle; a shared tree |
| Review loop (`review_subtask.go`, `loop.go`) | round files; Loops, Unresolved in the record | Hook | harness, executor, owner | the budget across crashes |
| Orchestrator (`orchestrator.go`) | the phase of the run | Start, Resume, Amend, drive, classify | planner, engine, senior phase, store | resume into every phase; abort against failure |
| Planner (`planning.go`, `subtasks.go`) | the four documents, the subtasks | Plan, one re-prompt, ParseSubtasks, ValidateDAG | harness, store | an interrupted plan; cycles |
| Senior review (`senior_review.go`) | rounds, unresolved, round and remediation files | Run, remediate | harness, store | re-entry at any point |
| Verdicts (`findings.go`) | none | lastYAMLBlock, ParseVerdict, the re-ask | both reviews | an answer understood as something it does not say |
| Globs (`globs.go`, `overlap.go`, `git/baseline.go`) | none | match, overlap, expand, declared | engine, executor, gateway | four readings of one pattern must agree |
| Read-only git (`internal/git`) | none | baseline, snapshot, diff, restore, worktree, manifest | executor, orchestrator | restore half way; worktree clean-up |
| Workspace (`internal/workspace`) | none | the gateway over several repositories | as git | |
| Harness (`internal/harness`) | one agent process | Run, retry with backoff, timeout, process group kill | all phases | timeout, cancellation and exit racing |
| Backlog (`internal/backlog`) | `backlog-state.yaml` | Runner.Run, gates, NextReady | orchestrator | a ticket's outcome recorded late |
| Log and live display (`internal/log`) | the live region, the log of the calls | Begin, End, SetPhase, Emit, Stop; progress; harness decorators | all | one terminal, many writers, a region that stops first |
| Configuration, prompts, CLI shell, self-update | none | pure wiring and text | | |

What makes each of them correct is listed as a hazard, at its line, in
`PROJECT.json`, with the properties that guard it.

## Modules

| Module | Models | Extends |
|---|---|---|
| `RunState` | the record of `run.yaml`, the status predicates, Create's and ParseSubtasks' records, `resetInterrupted` | |
| `TaskGraph` | abstract: what the engine promises about a plan | |
| `Scheduler` | the execution engine with review loop, control markers, crashes and resumes; implements `TaskGraph` | `RunState` |
| `RunLifecycle` | one run over all its processes: orchestrator, planner, senior review, `run`, `plan`, `resume`, `amend` around the engine | `Scheduler` |
| `Invocation` | one agent call: retry loop, adapter, the runner's race of process and context, process group, os/exec | |
| `RunStore` | the runs directory: `run.yaml` and `latest` as several processes create, save, load, crash | |
| `Backlog` | the backlog runner over several invocations, a ticket's run being an outcome | |
| `WorkingTree` | the files: a pass of the executor with snapshots, diff, undeclared edits and worktree; the revert of `amend` | |
| `Ownership` | what a `files` pattern means: matcher, overlap test, expansion, snapshot, declared test; reference definitions | |
| `Planning` | the planner step by step over several processes: answer, documents, subtask list, validation, re-prompt | `Ownership` |
| `Review` | both reviews' answers, verdicts, findings and files over several processes | `RunState` |
| `LiveRegion` | the goroutine of the live region, its callers, the command that closes it, the log of the calls | |
| `RunLifecycleProofs`, `InvocationProofs`, `RunStoreProofs`, `BacklogProofs`, `WorkingTreeProofs`, `LiveRegionProofs`, `PlanningProofs`, `ReviewProofs` | the theorems about the module each is named after, in `RunLifecycleProofs` also those about `Scheduler` | that module |
| `MCScheduler`, `MCRunLifecycle`, `MCInvocation`, `MCRunStore`, `MCBacklog`, `MCWorkingTree`, `MCPlanning`, `MCReview`, `MCLiveRegion` | the instances TLC checks | |

The modules meet where the code does: what `RunLifecycle` takes for a `Save` that
works or fails is what `RunStore` takes apart; what `Scheduler` takes for an agent
that returns is `Invocation`, whose `CallReturns` is the fairness assumed there;
what `Backlog` takes for the outcome of a ticket is the verdict of
`RunLifecycle`; what `Scheduler` takes for the time between two places of a worker,
and `RunLifecycle` for a revert that may stop half way, is `WorkingTree`; what
`Scheduler` takes for a symmetric relation `Overlap`, and `WorkingTree` for sets of
paths, is `Ownership`; the planner, one phase of `RunLifecycle`, is `Planning`, which
records only the plans `Scheduler` assumes (`RecordedPlansAreRunnable`); the verdicts of which both
know only whether they approve are `Review`. `Scheduler` and `RunLifecycle` are
composed in one module, and so are `Planning` and `Ownership`.

### How `Scheduler` corresponds to the code

* `mem` is the `*run.Run` the owner goroutine holds, `disk` is `run.yaml`. Every
  message to the owner (`state_actor.go`) mutates and then saves under one
  receive, so a commit is one action: `Saved`, or `SaveFails`, which leaves the
  change in memory only, as `apply` does when `store.Save` returns an error.
* `pc` is the position of `Scheduler.Run`. `LoopTop` (the context check),
  `decide` (counts, finalize, pause, batch or deadlock) and `join` (`wg.Wait`)
  are separate, so signals and the watcher act between them. `pauseAtBoundary`
  saves `paused` first and clears the marker afterwards: `PauseAtBoundary`, then
  `AckPause`.
* `wpc[s]` is the goroutine of subtask `s` in `runBatch`: waiting for a semaphore
  slot, executing, at the head of the review loop, waiting for the reviewer,
  remediating, in the error branch of `executeSubtask`, or ended in one of three
  ways (`finished`; `canceled`, fatal and re-runnable; `broken`, a failed save).
  An agent call (and the git reads around it) is the time between two of these.
* `watcher` is the goroutine of `watchStop`: it clears the marker
  (`WatcherClears`) and then cancels (`WatcherCancels`).
* `interrupted` is the caller's context cancelled by SIGINT or SIGTERM,
  `stopFired` the cancellation of `runCtx` by the watcher.
* `IsPicked` says what the greedy loop of `pickConcurrent` computes without
  running it: a ready subtask is chosen iff fewer than the cap, and none it
  conflicts with, were chosen before it in declaration order.
* `Crash` kills the process at any point; `Invoke` starts a new `Run` from
  `run.yaml`, whatever its state, except on a completed or failed run.

Abstracted: contents of prompts, diffs, findings and files; which harness error
occurred (only the cancelled context and any other error are told apart, as the
code does); `Overlap`, the relation the globs induce, is a constant.

### How `RunLifecycle` corresponds to the code

`op` is the position of the driving process in `drive`, `driveFrom`, `Plan`,
`seniorReviewPhase.Run` or `Amend`; `cmd` is the command it was started as,
because `plan` returns an error as it is (and installs no signal handler) while
`run`, `resume` and `amend` pass through `classify`, and because only a first
`run` stops at the autostart gate. While `op` is `running`, the steps of
`Scheduler` apply unchanged (`EngineStep`). `work` is which subtasks' edits the
working tree holds: an executor pass adds one, `RestoreTree` removes them, and an
error leaves some of them.

`dry` is the `--dry-run` flag of the driving process (`internal/cli/root.go:66`),
which each process is given anew; `DryModes` says what it may be.

One process drives a run at a time. The code takes no lock; that two `resume`s
of one run overwrite each other is recorded as a hazard and not modelled.

### How `Invocation` corresponds to the code

`at` is where a call is, through `retryHarness.Run`, `cliHarness.Run` and
`execRunner`. The runner's `select` is a place of its own: it may find both of
its channels ready and take either (`EnterSelect`), or block and be woken by the
first (`CommitTo`). `child`, `cause`, `helper`, `watch` and `waitVal` are the
agent process, how it ended, a process it started (inside or outside its process
group, with or without the output pipe), and the two goroutines os/exec runs;
those are external and modelled from what `exec_runner.go` relies on: `Wait`
returns when the agent is reaped and the pipe has no writer, and the goroutine of
`CommandContext` kills the agent alone. `outcome` is the failure kind of
`errors.go`. Left out: how arguments, environment and prompt files are built, and
how a preset reads its output, of which the three outcomes remain.

### How `RunStore` corresponds to the code

`file` maps `run.yaml` of each id, and `latest`, to the content of the file and of
its temporary file; `fd` follows a descriptor through renames. `Save` and
`WriteLatest` are the same steps (`OpenTmp`, `WriteTmp`, `Rename` or
`RenameFails`); `goal` says which of them runs and what `Create` does next.
`born` stands for `createdAt`, `version` for the transitions of a run. Power loss
is left out: the code does not sync and does not claim to.

### How `Backlog` corresponds to the code

`saved` is the state file, `state` the copy of the running invocation. `StartTicket`
must save, as `Runner.Run` returns the error; `Leave` must save only `done`, every
other status is saved as far as that works. `After` is the decision over the
context, the error, the run's status and the gate, in that order. Left out: parsing of tickets and the rejection of cycles (a
cycle makes `NextReady` find nothing).

### How `WorkingTree` corresponds to the code

A tree maps each path to a file, a file is the set of the edits it carries (the
user's uncommitted one, and a number for each pass), `NoFile` is its absence. `main`
is the user's tree, `worktree[s]` the directory `<repo>-wt-<s>`. `stage[s]` is the
position in `runExecutor`: `provision`, `before`, `manifest`, `agent`, `record`,
`after`, `diff`, `reconcile`, then `review` once the hook is entered and `judge` while
the reviewer is asked, and `cut` for a subtask left as it is because the context is
cancelled. `reviewing` says whether the hook has anything to review: subtask reviews are
enabled and this is no dry run, which each process is given anew (`Reviewings`). If it has
not, the hook settles the subtask without a look at the context. `pass[s]` holds the local
variables: they go with the process. A git call fails under a cancelled context
(`GitFails`), which for the deferred `RemoveAll` means that the worktree stays
(`RemoveWorktree`): with a subtask cut short, or with one that a hook without a review
then settles, which are the exceptions `WorktreesGoWithPass` names. `Listed` is
`git ls-files` with the untracked files that are not ignored: `IgnoredIn` makes what is ignored depend on `.gitignore` as it is then.
`Amend` computes both lists and `RemoveAdded` and `CopyBack` work through them one
file at a time, each of which an error or a crash may follow. An agent's edits to the
main tree are steps of their own, so those of two subtasks mix.

`touched`, `strayed`, `owed` and `rulesChanged` are history variables. `strayed`
holds what agents of other subtasks changed outside their declared files meanwhile:
no diff can tell these apart, and the properties except them. A batch is not
modelled: a subtask may begin while any disjoint one is in flight, which allows more
interleavings than the code. `Plans` gives the sets of paths the patterns expand to
(see `Ownership`). Left out: symlinks, a `git worktree
remove` that fails for a reason other than the context (logged, the worktree stays),
and commits by the user between passes.

### How `Ownership` corresponds to the code

A path is a sequence of segments, a segment a sequence of characters; the operators
have the names of the functions they stand for. `matchSegment` is the two-pointer
loop, as a recursive function of the tuple of its four variables (all recursive
functions here take one argument, as the provers want it). `Snapshotted` is what a pass
reads: `expandFiles` of the executor, then `resolvePatterns` and the copy of the
gateway. `Clean` and `ClassMatch` are `path.Clean` and `filepath.Match` on what
reaches them. `Denotes` is the reference: a name fits a pattern if it can be cut into
one piece for each symbol, each of which takes its piece (`Denoted`), with no pointers
and no backtracking. Left out: symlinks, case folding of a file system, escapes (`\`)
in a pattern.

### How `Planning` corresponds to the code

`at` is the position in `Planner.Plan` (`mark`, `summarize`, `invoke`, `parse`,
`write`, `persist`), `classify` the error path of the orchestrator; `plan` (`viaPlan`)
returns an error as it is. An answer is a sequence of lines, which are markers, prose,
blank, or entries of the subtask list; `parseBundle`, `requireAllDocs`, `ParseSubtasks`,
`ValidateDAG` and `detectCycle` (with its stack and colours) work on these. `docs` is
the directory `docs/`, written file by file; `Rejected` is the one re-prompt, from each
of the three places that lead to it. A new process starts from what `run.yaml` says.
Left out: the prompt, the summary's contents, the raw answer kept for inspection, which
of several validation errors is named.

### How `Review` corresponds to the code

An answer is again a sequence of lines: prose, opening and bare fences, and a line
that stands for the text of one verdict. `lastYAMLBlock` scans them as the code does,
`ParseVerdict` decodes the block and checks severities and messages (`Decodes`). What a
reviewer says is bound by `Contract`, the contract of the prompts as far as the theorems
need it: nothing before the block of a verdict leaves a block open, a verdict is worded
as it should be, and an answer that keeps no contract has no block at its end that
decodes. `pc[r]` is where
the loop of a change under review is, `asked` counts the questions of one round,
`rounds`, `fixes` and `report` are the files of the reviews, which a failing write may
leave cut off (`Torn`). A crash or abort takes the process through `Resume`, which
rewinds subtasks as the engine does and re-enters the senior review. `meant` and
`shown` are history variables: what the last answer was meant to say, and what the
senior reviewer was told. Batches, control markers, dry runs and disabled reviews
are `Scheduler`'s and `RunLifecycle`'s and left out here.

### How `LiveRegion` corresponds to the code

`owner` is the goroutine `run`: in its `select`, handling a command, or closing its
`done` channel. The channel is unbuffered, so a send is a state of the sender
(`want`) that ends in a rendezvous (`Receive`) or, once `done` is closed, in
`Abandon`; the reply channel of `Begin` has a buffer of one (`reply`). `order`, `phase`
and `nextID` are the goroutine's own. `bar` is what the cursor's line holds and
`screen` the lines finished, by writer, each with whether its line was `clean` or held
the `bar` when it was written: a thread's own lines are in the order of its writes, and
the order between threads matters to no property. `seq`, `outs` and `records` are the
call log of `invocation.go`. `due` is a history variable.

The console handler of the log writes to stderr (`internal/cli/observability.go:28-36`),
past the owner. `console` says which of its records this screen shows: none if stderr
goes elsewhere, else the warnings, or all of them under `--verbose`
(`internal/log/logger.go:129-150`). `Log` is such a record: it lands behind whatever the
cursor's line holds and ends it. `StartCall` logs the start, `LogCall` the end of a call,
a warning if it failed, `PersistFails` that the file of its output could not be written;
`faults` counts the last two. What a record says, and the log file, are left out. The
records of a retry and of a dry run (`internal/harness/retry.go:124`, `dryrun.go:41`) show
under `--verbose` only, as the start of a call does, and are not told apart from it; those
of the orchestrator and of `plan` (`orchestrator.go:282-287`, `internal/cli/plan.go:107`)
are written before any call begins. With `--quiet` there is no region. Also left out:
elapsed times, widths, colours, redaction, and `kindSync`, which only tests send.

## Runs

| Run | Instance | Shows |
|---|---|---|
| `sched` | `a`, `b`, `c` needs `a`; `b` and `c` conflict; 2 slots; review, budget 1; 2 faults, 2 requests | the engine's safety, the refinement of `TaskGraph`, that a resumed run settles and a stop unwinds |
| `lifecycle` | chain of two behind the autostart gate, both reviews with budget 1; dry and real processes; 2 faults, 2 requests; the user resumes | phases in order and never backwards, dry runs without effect, a verdict is reached |
| `invocation` | 2 attempts, backoff, deadline, every helper, cancellation | quiescence, genuine success, final answers, return |
| `store` | 3 processes one after the other, two of them with tasks of one slug, 2 seconds, 2 faults | durability, `latest`, identity but for a run that takes the id of another |
| `backlog` | 4 tickets, one done by its author, one order against the ids; every gate; 2 faults | durability of dependencies and of completion, gates, progress |
| `tree` | 2 subtasks sharing a file or not, 3 paths, 3 isolations, reviews or none; 2 passes, 1 edit each, 2 faults, 1 amend | diffs and records hold an agent's edits and no others, worktrees go but for what a cancellation leaves, a revert undoes the run |
| `planning` | every graph of 3 subtasks, a ring and a diamond of 4, seven bundles out of form and five lists, 34 patterns alone and the 22 longer ones beside seven other declarations, 9 files; 1 fault, dry and real | the validator takes what can be executed and nothing else, documents and record agree, the readings of a pattern agree, the phase settles |
| `review` | 2 subtasks and the whole change, 3 verdicts after 5 beginnings, 8 answers that keep no contract; budgets 1; 2 faults; symmetry | what is settled is what the reviewer meant; files, record and carried findings agree |
| `live` | 2 executors and the command, on a terminal that shows the log's warnings, and verbose off a terminal without a logs directory; 3 operations, 1 heartbeat, 1 fault | no line lost or doubled, only a record of the log behind the bar; timers show calls; records point to their own output; nobody hangs |
| `sched_stop_lost`, `lifecycle_amend_lost`, `tree_landing` | | disagreements between code and documentation, below |

Bounds. `MaxFaults` counts crashes, failed saves and failing calls (and Ctrl-C in
`Backlog`; cancellations too in `WorkingTree`, `Planning` and `Review`; in `LiveRegion` failed calls and
files that cannot be written), `MaxRequests` stop, pause and signal requests and amends. Two of each
are the least that let a request cross a crash, a failed save cross a sibling's
save, and a pause meet a stop; the properties relate at most a state, its
interruption and one resume. Three subtasks with two slots are the least in which
a batch holds two workers while a third waits on one of them. Two attempts are
the least with a retry, and every attempt starts from the same state. Three
processes let two runs be created and one of them be driven again, `MaxSecond`
lets them fall in one second or two, `MaxVersion` lets a save replace a saved
record. Two passes are a subtask's first and its remediation,
or one of each of two subtasks at a time; with three, and with two edits in a pass,
the same properties hold of a smaller set of isolations and faults. Cycles of one,
two and three nodes, and a ring that is entered from outside, are the shapes on which a
three-colour search can go wrong; the patterns put `*`, `?` and letters before and after
one another, `**` at each end and in the middle, and the detours (`.`, `..`, `//`, a
trailing slash) beside them. In `planning` one fault meets two attempts and a second process; more faults
repeat these. In `live` one fault is one
warning of the log at any place of any call, and a line after it. Three operations let two calls and a line be in flight while the region
stops. The symmetry of `review` is sound: its subtasks are model values nothing tells
apart, and it checks invariants only. `MaxLive` is 1 in `store`: with two the pointer's
properties fail (below).
`LoopCap` bounds the remediations only when the configuration (`maxLoops: -1`)
does not; no run needs it. Deadlock is not checked where the system may stop: a
run with its verdict, a call that returned, a store whose processes are gone.

### Fairness

`MainStep`, `WatcherStep` and each worker's own steps are weakly fair: goroutines
are scheduled. An agent is only assumed to end once its context is cancelled,
which kills its process group (`internal/harness/exec_runner.go:46-57`).
`ResumedRunSettles` adds `AgentsReturn` as its premise: every
role has a timeout (`internal/config/default.go:39-102`; 0 means none,
`internal/harness/cli.go:147-156`). `CallReturns` shows that a timeout, or a
cancellation, does end a call, from fair steps of the program, os/exec and the
clock alone, unless a helper left the agent's process group with its output pipe.
`Planning` makes its steps and `Start` weakly fair: the planner and its agent run,
and a run without a plan is resumed. In `LiveRegion` the owner goroutine and every
thread in the middle of an operation are scheduled, a `select` takes a case that stays
ready, an agent's call ends; no thread has to begin anything.
Nothing makes a user resume a run or invoke the backlog again; `UserResumes`,
`LifecycleResumed`, the fairness of `Start` and `PatientSpec` are that assumption,
named as such, for the properties that say each resume makes progress. `PatientSpec` further assumes
that a ticket run again and again completes clean at some time.

### Disagreements found

* `ConsumedStopCancels` (`sched_stop_lost`): `watchStop` clears the marker before
  it cancels, and `Run` looks at the context only at the head of its loop. A stop
  consumed after the last look ends with `Run` returning nil or paused and the
  marker gone, while `internal/cli/stop.go:17` and `README.md:169-172` say the
  run persists as `aborted`.
* `CompletedHasWork` (`lifecycle_amend_lost`): `Amend` reverts the tree before it
  validates the edited plan and before it resets the subtasks. If either of these
  fails, the run is still paused and its done subtasks have lost their edits;
  `resume` skips them and completes.
* `LandingKeepsEdits` (`tree_landing`): under isolation `worktree` each pass starts
  from HEAD and whole files are copied back, so a remediation that edits a file again
  loses what the first pass did to it (`internal/pipeline/executor.go:213`, against
  `:211`); the user's uncommitted changes to such a file go the same way.

Others met while modelling, which TLC shows on other instances, or with other
properties, of the modules here:

* `backlog run --dry-run` records its tickets as done in the file the real run
  reads, which then reports "Backlog complete" with nothing done
  (`internal/backlog/runner.go:155`, `internal/cli/backlog.go:234`).
* An agent edits `.gitignore` so that a file the user had, ignored, is no longer
  ignored; the revert lists the tree under the new rules, finds the file in no
  baseline and deletes it (`internal/git/restore.go:74-110`), against "byte for byte"
  (`:30-31`). A file the new rules hide is, the other way round, not reverted:
  `AmendUndoes` says what the revert does achieve.
* The gateway takes a `[` in a declared path for a pattern and finds no file
  (`internal/git/baseline.go:233`), while `globs.go:24-30` says it is matched
  literally: with such a path `DeclaredIsSnapshotted` fails, the path is declared and
  its edits are in no diff. The instance has none (`NoBrackets`).
* `matchSegment` compares characters before it looks for a `*`, and so a `*` in the
  pattern takes a `*` in a file's name for itself alone: `*` does not match a file
  called `*a` (`globs.go:111-120`), against "matches any run of characters" (`:97`).
  The instance has no such file (`NoStars`).
* A declared directory with a trailing slash, or a path with `//` inside, is
  expanded by `expandFiles` and not recognised by `pathDeclared`: its edits are in
  the diff and reported as undeclared as well. `DeclaredIsSnapshotted` excepts these.
* A subtask whose only declaration is `.` or empty is called disjoint from every
  literal path, although it has promised as little as one without declarations, which
  overlaps everything (`overlap.go:23-27`). Nothing of it is snapshotted.
* A document that cannot be written counts as a bad answer and the planner is asked
  again (`planning.go:328`).
* A verdict block that is cut off is passed over and an earlier one, an example
  perhaps, is taken (`findings.go:118-121`); a fence inside a finding's text ends the
  block; `approved: true` with a blocker among its findings is an approval and the
  finding is dropped. `Contract` excludes the first two.
* A verdict at the cap that neither approves nor has findings leaves `Unresolved`
  empty, which `internal/run/run.go:136-138` calls converged and clean.
* The report of open findings stays when the process dies between it and the save and
  the next round converges.
* A resume of a process that died in a remediation executes the subtask again without
  the findings (as `internal/run/store.go:354` says).
* Two runs of tasks with one slug (`SlugOf` constant) in one second: an id is the
  second and the slug, nobody checks that its directory is free, and the second run
  replaces the record of the first (`internal/run/store.go:208`, `:260`). Two processes
  of the instance have such tasks; `RunKeepsIdentity` says that this is the only way to
  lose a record.
* With subtask reviews disabled, or under `--dry-run`, a cancellation after the diff of a
  pass leaves the worktree, as its removal runs under the cancelled context
  (`executor.go:325-329`), and the hook then settles the subtask
  (`review_subtask.go:101-116`): no later pass removes it. `executor.go:129-130` says
  "Defer worktree teardown so it happens on EVERY exit path (success or any error below),
  never leaking a worktree into the user's repo", and `internal/git/worktree.go:28-30` "so
  a failed run never leaks worktrees".
* A subtask cut short by a cancellation under isolation `worktree` leaves its worktree too.
  It is to be run again, but the resumed pass finds the directory there, `git worktree add`
  fails, and the subtask ends failed (its clean-up then removes the worktree).
* The log's records go to stderr past the owner of the live region
  (`internal/log/invocation.go:88`, `:109`, `logger.go:138-146`,
  `internal/cli/observability.go:28-36`), while `live.go:20-21` says "ONE owner goroutine
  holds the render state and is the only writer to the output". On a terminal, the warning
  of a failed call stands behind the bar, which is redrawn below it at the next tick or
  command: `Readable` and `TimersShowCalls` except this.
* A stop marker written while a run is paused is deleted by the resume
  (`internal/pipeline/orchestrator.go:328`), while `stop` prints that it "will take
  effect once execution starts" (`internal/cli/stop.go:55`).
* With two processes creating runs at once (`MaxLive = 2`) `LatestNamesNewest`
  fails: `WriteLatest` uses one temporary file for all, and a process may rename
  what another has just truncated (`internal/run/layout.go:217`); and the older of two overlapping Creates may write the pointer last,
  against `internal/run/store.go:261-262`.
* A timeout does not bound an invocation (`internal/config/config.go:60`) if a
  helper process has left the agent's group with the output pipe: the wait after
  the kill has no bound (`exec_runner.go:51`). This is the premise of `CallReturns`.
* `exec_runner.go:41-42` guarantees that the whole group is killed on deadline;
  os/exec's own kill of the agent alone may win, the `select` then takes the
  wait's answer, the group survives and the attempt counts as a hard failure.

And read, not run: `git worktree add <path>` also creates a branch named after the
directory, which nothing removes, so a later run's worktree of that subtask checks
out the commit of the earlier one (`internal/git/worktree.go:78`); the logger numbers
calls from 1 in every process, so that a resumed run overwrites the output files of
the first process that have the same number and role (`internal/log/logger.go:70-72`);
the backlog runner drives every ticket with one orchestrator, whose registry each of
them wraps once more (`internal/pipeline/orchestrator.go:297`), so that the calls of
the k-th ticket are logged and numbered k times; Ctrl-C right after a ticket's run has
completed marks the ticket ready, as `internal/backlog/runner.go:126-128` means it to;
the comment at `review_subtask.go:128` says a resume re-reviews
the current diff, while the subtask is rewound and executed again (as
`store.go:354` says); `planning.go:291` says a failed plan stays in `planning`,
which `classify` turns into `failed` under `run`; the guard at
`orchestrator.go:424` cannot be met; `blocked` is never assigned.

## Proofs

Eight modules of proofs state, for every value of the constants, what the runs show on
a small instance. An inductive invariant for each system (two for the engine), types a
part of it, is proved by a lemma for each action or group of actions; the theorems follow from it. TLC has checked
these invariants on the instances above.

| Theorem | States | Under |
|---|---|---|
| `NeverConflicting`, `DependenciesFirst`, `NeverOverParallel`, `DecisionsDurable` | `NoConflictInFlight`, `DepsDurablyDone`, `BoundedParallelism`, `DecidesOnDurableState` | |
| `PauseAtBoundaries`, `BudgetHolds`, `DoneStays` | `PausedIsBoundary`, `FlaggedOnlyAtBudget`, `DoneIsFinal` | |
| `EngineImplementsGraph` | `Scheduler` implements `TaskGraph` | |
| `PhasesAlwaysInOrder`, `RecordNeverGoesBack`, `EngineSafeInLifecycle` | `PhasesInOrder`, `NeverBackwards`, the engine's safety inside `RunLifecycle` | |
| `DryRunsFailNothing` | `DryRunFailsNothing` | `PlanAcyclic` |
| `Quiescence`, `GenuineSuccess`, `FinalAnswer` | `CallQuiesces`, `OkIsGenuine`, `AnswerIsFinal` | |
| `AcknowledgedSavesLast` | `AckedIsDurable` | `Apart` |
| `RunsKeepIdentity` | `RunKeepsIdentity` | `Apart` |
| `PointerNamesNewest` | `LatestNamesNewest` | `Alone` |
| `DependenciesDurable`, `CompletionDurable`, `DoneFinal`, `GatesHold` | `DepsDurablyDone`, `CompleteIsDurable`, `DoneIsFinal`, `GateHolds` of `Backlog` | |
| `DiffsAreComplete`, `WorktreesGo`, `RevertsUndo` | `DiffsAccount`, `WorktreesGoWithPass`, `AmendUndoes` | |
| `ScreenReadable`, `TimersAreCalls`, `PointersAreOwn` | `Readable`, `TimersShowCalls`, `PointerIsOwn` | |
| `DocsAreThePlans`, `ValidationIsExact` | `DocsMatchPlan`, `ValidatesExactly` | |
| `RecordedPlansAreRunnable` | a recorded plan can be executed to its end | |
| `MatcherIsExact` | `MatchIsGlob` | `NoStars` |
| `OverlapIsSound`, `DeclaredIsExact` | `OverlapSound`, `DeclaredIsSnapshotted` | `NoStars`, `NoBrackets` |
| `LastBlockBinds`, `ContractIsUnderstood` | which block of any answer is read; `Contract => Understood` | |
| `DoneAsJudged`, `RemediationsAreFiled` | `SettledAsJudged`, `RemediationsFiled` | `Contract` |

The assumptions on the constants are those of the modules: `Subtask` is finite,
`Position` injective, `Overlap` symmetric, the configuration values have their types
(`MaxParallel` and `MaxLoops` are any integers), `None`, `Absent`, `Torn` are no records
or ids (`ContentsAssumption` of `RunStore`), no thread is the `region`, the `command` or the `log`
(`LiveAssumption`), `NoVerdict`, which stands for an answer that keeps no contract, is
no verdict (`VerdictAssumption`), what an agent may answer has lists for its subtasks and
paths for their patterns (`AnswersAssumption`), and in a tree no file is a directory of
another and every path is in its shortest form (`TreeAssumption`). The hypotheses in the
last column hold of the instances: TLC evaluates `NoStars` and `NoBrackets` with the run
`planning` (`NamesAssumption`) and `Contract` with `review` (`AnswersAssumption` of
`MCReview`); `store` has `MaxLive = 1`, which is `Alone` and so `Apart`.

No induction over data is available (the library's induction theorems take an operator),
so what a loop or a recursion computes is proved by taking the least number for which it
would fail (`LeastNumber`, from the well-founded order on finite sets). That a recursive
function exists at all, which the prover does not take for granted, is shown in the same
way where it runs over the places of a sequence (`ScanEquation`, `KeptEquation`), and
otherwise from the fixed point of a monotone function on sets of arguments
(`FixedPoint`, for `SearchEquation`, `MatchEquation`, `LoopEquation`).

**Scheduler.** None of the properties is inductive. `IInv` adds: workers exist only while
a batch is joined, and only for its members (`WorkersInBatch`); the members of a
batch are pairwise conflict-free and have their dependencies, which lie outside
it, done in both copies of the record (`BatchConflictFree`, `BatchDepsDone`);
memory and disk differ during a batch only if some member is in an error state
(`DirtyMeansError`), which is why `Run` cannot go on after a failed save that no
sibling repaired; and the slots bound (`SlotsBounded`). The proof goes by action:
`SpawnKeepsIInv` is where `IsPicked` and `Ready` are used, `WorkerKeepsIInv` takes
all worker steps through the common form of a commit (`CommitKeeps`) or a move
(`GotoKeeps`), `JoinKeepsIInv` is where an error has to end the run.

`SInv` is a second invariant over the first. `Settled` says, worker by worker, how the
two copies of a subtask's entry relate to the place of the worker: equal at most
places, ahead in memory after a failed save only, with open findings only at the end of
the budget. A step of one worker may bring to the disk what a sibling could not save,
so each step is proved for its own worker and the others' parts are shown to survive the
save (`OthersStay`). `DoneIsFinal` needs this: a subtask that is done on disk is never
one whose memory a later save could take back.

The refinement maps a subtask to the stage that `wpc` and `run.yaml` give it. `MainRefines` and
`WorkerRefines` show each step of the engine to be a step of `TaskGraph` or to change no
stage: spawning a batch is the hard case, as it takes `IsPicked`, `Ready` and `IInv` to
find the abstract step's guard true for the whole batch. `TaskGraph` takes its bound on
parallel work from the configuration, not from `effectiveMaxParallel`; `SlotGranted` shows that
a slot of the engine keeps to it.

**RunLifecycle.** `LInv` holds both invariants of the engine together with `RecordInv`, what any copy of the
record says by itself about the phase it was left in. That is the heart of the matter: a
resume has nothing else to go by, so the order of the phases must be legible in
`status`, `planned`, the subtasks and `senior` after every crash. `PhaseInv` says what
the process has read at each of its places (`mem = disk` outside the engine and the error
path), `ReturnInv` what `Run` returned, `VerdictInv` that a settled run is driven no
further, `DryInv` why a dry process meets no error. Steps outside the engine keep its
invariants because they rest (`AtRest`, `OrchestratorKeepsEngine`). `DryRunsFailNothing`
assumes that the plan has no cycle, which `RecordedPlansAreRunnable` proves of every plan
the planner records.

**Invocation**, for every number of attempts, every set of helper
kinds, with or without deadline and backoff. The invariant
says what each place of the call knows of the processes (`PlaceInv`), what a value
sent by `cmd.Wait` implies (`WaitInv`: reaped, pipe closed, and an exit status that
follows the cause), that a transient outcome of an agent which did answer can only
come from the context (`Unanswered`), and that success survives until it is
returned (`Genuine`). `AnswerIsFinal` needs `Unanswered`: only `BackOff` changes the
attempt, and it is reached with a transient outcome only.

**RunStore**, for any number of processes. The code takes no lock, so each theorem names
what it relies on the user for: `Alone` (one process at a time), `Named` (no two tasks
with one slug), `Apart` (`Alone`, or no run is driven by two and `Named`). With neither
the properties fail, as listed above. The invariant says that a live process has a
temporary file of its own (`Exclusive`, `Writing`), that `run.yaml` is never torn and at
least as new as what was acknowledged (`Durable`, `Known`), whose run a file is
(`Identity`: of a process that took its id and is past the first save of its `Create`, while
one that drives the run has its record or a later one in memory), and how old runs are
(`Ages`, `Pointing`). `Past` is why a file changes hands only by a first record.

**Backlog**, for every graph of tickets, author statuses, gates, dry
runs and number of faults.
What makes the properties inductive is `AgreeOnDone`: while an invocation runs, memory and
file agree on which tickets are done, since only that status must be saved.

**WorkingTree**, for any repository, plans, passes, edits and amends. `WInv` carries the
diff from one place of a pass to the next: against its snapshot the tree differs in just
the paths the agent touched (`ChangedIn`), while the pass runs (`Declared`,
`Fingerprints`), between its two snapshots (`Compared`), in the patch (`Shown`). Other
subtasks' edits enter only by `strayed`, as long as subtasks in flight are disjoint
(`KeptApart`). `Reverting` says how far the revert is: what is copied back already equals
the baseline, and what is listed is in it or doomed. A worktree is gone once a reviewer is
asked, once the subtask has failed, and when the hook is entered with the context intact
(`CleanedUp`); that only a cancellation cuts a subtask short (`CutShort`) then leaves the two
exceptions of `WorktreesGoWithPass`.

**LiveRegion**, for any number of threads, operations and heartbeats. The owner's
channel is a rendezvous, so most facts of `LInv` distinguish what is sent, received and
not yet handled, and handled (`MainPlace`, `CallerPlace`, `Handled`, `OnItsWay`).
`LinesInv` counts a thread's lines on the screen and under way, which gives that none is
lost when the region stops first; `BarShows` says that the bar shows the active entries, or
nothing after a record of the log, which `LogWrites` shows of every such record; `TimersInv` pairs entries with callers, through the id
that travels by the reply channel; `Closing` says why nobody is served after the stop;
`LogInv` keeps sequence numbers apart.

**Planning**, for any answers, lists, graphs, patterns and trees. `PInv` says which
documents are written at each place, that a record with a plan was parsed from what is
on disk, and that no process takes it up to plan again; `BundleInv`, that nothing is
parsed or recorded but what was said; `AcceptedInv`, that what is recorded was accepted.

That acceptance is exact (`ValidateDAGExact`) rests on `DetectCycleExact`. The search of
`detectCycle` is a function of a stack and a colouring, which gets smaller at each step:
fewer white nodes, or as many and a shorter stack. `SearchInv` says what has been
established: black nodes have only black dependencies and no cycle among them
(`Finished`), what has been entered waits for its dependencies, which are black or above
it on the stack (`Awaited`), every node is black or still to come (`Covered`), and the
nodes entered are a path of dependencies (`Path`). From it follow both directions: a gray
node that is found again closes a cycle (`GrayVerdict`), and an empty stack leaves a set
of black nodes without one (`EmptyVerdict`); `SearchDecides` takes the smallest search that would answer wrongly.

Of the patterns, `MatchIsDenoted` says that the two functions of the matcher agree with
`Denotes`. For `matchSegments` this is one equation for each symbol (`ReadsEnd`,
`ReadsOne`, `ReadsAny`; `MatchReads`). `matchSegment` keeps only its last way back:
`LoopInv` says that behind the last `*` a stretch has been read that fits, and that
nothing is lost by beginning again there: the whole pattern reads the whole name iff the
rest from that `*` reads the rest from where it stands. `LoopDecides` takes, of the
places of the loop that would answer wrongly, the farthest one. `NoStars` is needed where a character is compared before a `*` is looked
for. `CleanIsClean` and `CleanKeeps` say what is left of a path, `LiteralStart`
that a match begins with the static prefix; with `SnapshotHasPrefix` this makes the
overlap test sound. `DeclaredIsRead` and `ReadIsDeclared` are the directions of
`DeclaredIsExact`.

**Review**, for any number of subtasks, any verdicts, budgets and faults, and any answers under
`Contract`. `Reading` says what the scan of an answer knows after each
line: whether a block is open and its lines, and the last one that was closed.
`AllIsRead` carries it to the last line, which gives `LastBlockBinds` and
`ContractIsUnderstood`. `RInv` follows an answer from the call to the record: what
was heard (`Heard`), that its round file is written before anything is decided on it
(`HeardInv`), that a subtask done in either copy of the record was judged and its worker
is beyond the review, so that no later answer or round file replaces the ones it was
judged by (`SubtaskDone`). The review of the whole change knows at each of its places
what the subtasks left open (`Told`), though a resumed process has gathered it again, and
may not begin while a subtask runs (`SeniorWaits`). `Counted` is why a remediation is
counted and saved before it is filed: a round whose number is on disk is never held
again, which keeps its file and its remediation's together (`RemediationsStay`).
Steps are grouped by whose they are (`SubtaskMoves`, `SeniorMoves`, `ProcessMoves`), so
that each action has to show only what it does to its own part.

Model-checked only: all liveness (`ResumedRunSettles`, `StopUnwinds`,
`RunReachesVerdict`, `CallReturns`, `BacklogCompletes`, `PlanningSettles`,
`NobodyHangs`), as fairness and ENABLED are outside the prover; and the three
disagreements, which are counterexamples.

## Plan

1. *(done)* engine, lifecycle, agent calls, store, backlog.
2. *(done)* `WorkingTree`: a pass of the executor, worktrees, the revert.
3. *(done)* `Ownership` and `Planning`: the pattern algorithms, validation and cycle
   search against reference definitions; the planner over its processes.
4. *(done)* `LiveRegion`, `Review`.
5. *(done)* proofs: the engine with its refinement, the lifecycle around it, agent calls,
   store, backlog, working tree, live region, planner with validation and patterns,
   reviews with the reading of an answer.
6. Two drivers of one run at once, which the code does not exclude.

Runs stay few, one for each question: properties of a new module replace the
shallower ones of an old run before a run is added.

## Not modelled

* Workspace (`internal/workspace`): the gateway's operations, called for each
  repository in turn.
* Configuration, prompt templates, the command-line shell, self-update, the summary
  printed at the end: layered look-ups and text, which their unit tests reach. The
  values of the configuration are constants of the modules.
* Harness presets and the registry, but for what decides the outcome of an attempt;
  the allowlist in front of git, size limits and the rewriting of paths.
* The durable log file and redaction.
* Loss of power: the store does not sync, and does not claim to.
