------------------------- MODULE WorkingTreeProofs -------------------------
(***************************************************************************)
(* Proofs about WorkingTree, for any repository, plans, number of passes,  *)
(* edits, failing calls, crashes and amends: the diff a reviewer sees is   *)
(* its subtask's, a worktree goes with the work on its subtask, and a      *)
(* completed revert undoes the run.                                        *)
(***************************************************************************)
EXTENDS WorkingTree, TLAPS

-----------------------------------------------------------------------------
(* The inductive invariant.                                                *)

\* A pass that may run its agent has a number.
Numbered == \A s \in Subtask : stage[s] \in InPass \cup {"provision"} => pass[s].no \in Mark

\* Only an executing process has work in flight.
AtRest == process # "executing" => \A s \in Subtask : ~ InFlight(s)

\* Without isolation `worktree' there are none, nor a pass that uses one.
AtHome ==
  isolation # "worktree" =>
    \A s \in Subtask : worktree[s] = NoTree /\ stage[s] \notin {"provision", "reconcile"}

\* The worktree of a subtask is gone when its review begins, unless the context is
\* cancelled; no reviewer is asked then, and no failure recorded.
CleanedUp ==
  \A s \in Subtask :
    stage[s] \in {"judge", "failed"} \/ (stage[s] = "review" /\ ~ cancelled) =>
      worktree[s] = NoTree

\* Only a cancellation cuts the work on a subtask short.
CutShort == \A s \in Subtask : stage[s] = "cut" => cancelled

\* Subtasks that share files are not in flight together.
KeptApart ==
  isolation = "non-overlapping" =>
    \A s, t \in Subtask : s # t /\ InFlight(s) /\ InFlight(t) => Disjoint(s, t)

\* But for what agents of other subtasks did outside their files, S differs from t
\* in just the paths among P that the agent of s changed.
ChangedIn(s, P, t, S) ==
  \A p \in P \ pass[s].strayed : S[p] # t[p] <=> p \in pass[s].touched

\* What the worker of s knows of its pass, place by place.
Fresh(s) ==
  stage[s] \in {"provision", "before", "manifest"} =>
    pass[s].touched = {} /\ pass[s].manifest = NoTree

Before(s) ==
  stage[s] \in {"manifest", "agent", "record", "after", "diff"} =>
    /\ pass[s].before \in Tree
    /\ \A p \in Path \ declared[s] : pass[s].before[p] = NoFile

Declared(s) ==
  stage[s] \in {"manifest", "agent", "record", "after"} =>
    ChangedIn(s, declared[s], pass[s].before, WorkDir(s))

\* What it has the fingerprints of and nobody declares.
Prints(s) == {p \in Path \ DeclaredByAny : pass[s].manifest[p] # NoFile}

Fingerprints(s) ==
  /\ stage[s] = "agent" /\ pass[s].manifest # NoTree =>
       ChangedIn(s, Prints(s), pass[s].manifest, WorkDir(s))
  /\ stage[s] = "record" =>
       /\ pass[s].manifest \in Tree
       /\ ChangedIn(s, Prints(s), pass[s].manifest, WorkDir(s))

Compared(s) ==
  stage[s] = "diff" =>
    /\ pass[s].after \in Tree
    /\ \A p \in Path \ declared[s] : pass[s].after[p] = NoFile
    /\ ChangedIn(s, declared[s], pass[s].before, pass[s].after)

Shown(s) ==
  stage[s] \in {"reconcile", "review", "judge"} =>
    /\ pass[s].patch \subseteq declared[s]
    /\ \A p \in declared[s] \ pass[s].strayed :
         p \in pass[s].patch <=> p \in pass[s].touched

Landing(s) ==
  stage[s] = "reconcile" => pass[s].after \in Tree

PassInv(s) ==
  /\ Fresh(s) /\ Before(s) /\ Declared(s) /\ Fingerprints(s) /\ Compared(s) /\ Shown(s)
  /\ owed[s] \subseteq undeclared[s]

\* How far the revert is.
Reverting ==
  process = "restoring" =>
    /\ amends < MaxAmends
    /\ doomed \cap Present(Baseline) = {} /\ copies \subseteq Present(Baseline)
    /\ \A p \in Present(Baseline) \ copies : main[p] = Baseline[p]
    /\ ~ rulesChanged =>
         /\ main[IgnoreFile] = Start[IgnoreFile] /\ IgnoreFile \notin doomed
         /\ Listed(main) \subseteq Present(Baseline) \cup doomed

WInv ==
  /\ TypeOK /\ Numbered /\ AtRest /\ AtHome /\ CleanedUp /\ CutShort /\ KeptApart
  /\ \A s \in Subtask : Landing(s)
  /\ isolation # "none" => \A s \in Subtask : PassInv(s)
  /\ Reverting

-----------------------------------------------------------------------------
(* Trees.                                                                  *)

PassType == [
  no : 0 .. MaxPasses, before : Tree \cup {NoTree}, manifest : Tree \cup {NoTree},
  after : Tree \cup {NoTree}, patch : SUBSET Path, landing : SUBSET Path,
  touched : SUBSET Path, strayed : SUBSET Path]

\* A snapshot is a tree, the same as the one it was taken of on its paths.
LEMMA SnapshotIsTree ==
  ASSUME NEW t \in Tree, NEW S
  PROVE  /\ Snapshot(t, S) \in Tree
         /\ \A p \in Path \cap S : Snapshot(t, S)[p] = t[p]
         /\ \A p \in Path \ S : Snapshot(t, S)[p] = NoFile
BY DEF Snapshot, Tree

\* A pass has a tree to work in.
LEMMA WorkDirIsTree ==
  ASSUME TypeOK, NEW s \in Subtask, stage[s] \in InPass
  PROVE  WorkDir(s) \in Tree
BY DEF TypeOK, WorkDir

\* A pass that holds nothing.
LEMMA IdleTyped == Idle \in PassType
BY TreeAssumption DEF Idle, PassType

\* What a plan declares.
LEMMA DeclaredTyped ==
  ASSUME TypeOK
  PROVE  declared \in [Subtask -> SUBSET Path]
BY TreeAssumption DEF TypeOK

\* What a failing call may count.
LEMMA FaultTyped ==
  ASSUME TypeOK, Fault \/ GitFails \/ UNCHANGED faults
  PROVE  faults' \in 0 .. MaxFaults
BY TreeAssumption DEF TypeOK, Fault, GitFails

-----------------------------------------------------------------------------
(* A step of one subtask's worker.                                         *)

\* Nothing but what is of s changes, nor the tree that others work in.
OnlyOf(s) ==
  /\ UNCHANGED <<isolation, declared, process, reviewing, cancelled>>
  /\ main' \in Tree /\ (isolation = "worktree" \/ main' = main)
  /\ UNCHANGED <<doomed, copies, amends, rulesChanged>>
  /\ \A t \in Subtask \ {s} :
       /\ stage'[t] = stage[t] /\ pass'[t] = pass[t] /\ worktree'[t] = worktree[t]
       /\ undeclared'[t] = undeclared[t] /\ owed'[t] = owed[t]

StepTyped ==
  /\ stage' \in [Subtask -> Stages] /\ pass' \in [Subtask -> PassType]
  /\ worktree' \in [Subtask -> Tree \cup {NoTree}]
  /\ undeclared' \in [Subtask -> SUBSET Path] /\ owed' \in [Subtask -> SUBSET Path]
  /\ passes' \in 0 .. MaxPasses /\ faults' \in 0 .. MaxFaults

\* The worktree that s has after the step suits the place it has then.
Housed(s) ==
  /\ isolation = "worktree" => (stage'[s] \in InPass => worktree'[s] \in Tree)
  /\ isolation # "worktree" =>
       worktree'[s] = NoTree /\ stage'[s] \notin {"provision", "reconcile"}
  /\ stage'[s] \in {"judge", "failed"} \/ (stage'[s] = "review" /\ ~ cancelled) =>
       worktree'[s] = NoTree
  /\ stage'[s] = "cut" => cancelled

\* The worker's own part of the invariant is all that a step of it has to show.
LEMMA LocalStep ==
  ASSUME WInv, NEW s \in Subtask, process = "executing",
         OnlyOf(s), StepTyped, Housed(s), KeptApart',
         stage'[s] \in InPass \cup {"provision"} => pass'[s].no \in Mark,
         Landing(s)',
         isolation # "none" => PassInv(s)'
  PROVE  WInv'
<1> USE DEF WInv, OnlyOf
<1>1. \A t \in Subtask \ {s} : WorkDir(t)' = WorkDir(t)
  BY DEF WorkDir
<1>2. TypeOK'
  <2>1. isolation = "worktree" =>
          \A t \in Subtask : stage'[t] \in InPass => worktree'[t] \in Tree
    BY DEF TypeOK, Housed
  <2>2. {undeclared', owed'} \subseteq [Subtask -> SUBSET Path]
    BY DEF StepTyped
  <2> QED
    BY <2>1, <2>2 DEF TypeOK, StepTyped, PassType
<1>3. Numbered'
  BY DEF Numbered
<1>4. AtRest'
  BY DEF AtRest
<1>5. AtHome' /\ CleanedUp' /\ CutShort'
  BY DEF AtHome, CleanedUp, CutShort, Housed
<1>6. \A t \in Subtask : Landing(t)'
  BY DEF Landing
<1>7. ASSUME isolation # "none", NEW t \in Subtask \ {s}, PassInv(t) PROVE PassInv(t)'
  BY <1>1, <1>7 DEF PassInv, Fresh, Before, Declared, Fingerprints, Prints, DeclaredByAny,
     Compared, Shown, ChangedIn
<1>8. Reverting'
  BY DEF Reverting
<1> QED
  BY <1>2, <1>3, <1>4, <1>5, <1>6, <1>7, <1>8

\* Subtasks that were kept apart stay so, unless one starts.
LEMMA StaysApart ==
  ASSUME WInv, NEW s \in Subtask, OnlyOf(s), InFlight(s)' => InFlight(s)
  PROVE  KeptApart'
<1>1. \A t \in Subtask : InFlight(t)' => InFlight(t)
  BY DEF OnlyOf, InFlight
<1> QED
  BY <1>1 DEF WInv, KeptApart, Disjoint, OnlyOf

\* The types of what a worker has, as functions.
LEMMA WorkTyped ==
  ASSUME WInv
  PROVE  /\ stage \in [Subtask -> Stages] /\ pass \in [Subtask -> PassType]
         /\ worktree \in [Subtask -> Tree \cup {NoTree}] /\ main \in Tree
         /\ undeclared \in [Subtask -> SUBSET Path] /\ owed \in [Subtask -> SUBSET Path]
         /\ passes \in 0 .. MaxPasses /\ declared \in [Subtask -> SUBSET Path]
BY DeclaredTyped DEF WInv, TypeOK, PassType

\* A pass that ends with an error leaves its worktree only if its subtask is to be
\* run again.
LEMMA AbandonKeepsWInv ==
  ASSUME WInv, NEW s \in Subtask, process = "executing", InFlight(s),
         Abandon(s), PassKeeps, UNCHANGED <<main, undeclared, owed>>,
         faults' \in 0 .. MaxFaults
  PROVE  WInv'
<1> DEFINE there == IF cancelled THEN "cut" ELSE "failed"
<1>1. /\ stage' = [stage EXCEPT ![s] = there]
      /\ worktree' = [worktree EXCEPT ![s] = IF cancelled THEN @ ELSE NoTree]
      /\ pass' = [pass EXCEPT ![s] = Idle]
      /\ there \in Stages
  BY DEF Abandon, MoveTo, RemoveWorktree, Stages
<1>2. /\ stage'[s] = there /\ pass'[s] = Idle
      /\ worktree'[s] = IF cancelled THEN worktree[s] ELSE NoTree
      /\ \A t \in Subtask \ {s} :
           stage'[t] = stage[t] /\ pass'[t] = pass[t] /\ worktree'[t] = worktree[t]
  BY <1>1, WorkTyped
<1>3. StepTyped
  BY <1>1, WorkTyped, IdleTyped DEF StepTyped, PassKeeps
<1>4. OnlyOf(s)
  BY <1>2, WorkTyped DEF OnlyOf, PassKeeps, config, restoreVars
<1>5. KeptApart'
  BY <1>4, StaysApart
<1>6. Housed(s)
  BY <1>2 DEF Housed, InPass, WInv, AtHome
<1>7. /\ stage'[s] \notin InPass \cup {"provision", "review"}
      /\ PassInv(s)' <=> owed'[s] \subseteq undeclared'[s]
      /\ Landing(s)'
  BY <1>2 DEF InPass, PassInv, Fresh, Before, Declared, Fingerprints, Compared, Shown, Landing
<1>8. isolation # "none" => PassInv(s)'
  BY <1>7 DEF WInv, PassInv
<1> QED
  BY <1>3, <1>4, <1>5, <1>6, <1>7, <1>8, LocalStep

\* The start of a subtask or of its remediation: fresh local variables.
LEMMA BeginKeepsWInv ==
  ASSUME WInv, NEW s \in Subtask, Begin(s)
  PROVE  WInv'
<1>1. /\ process = "executing" /\ passes < MaxPasses /\ passes' = passes + 1
      /\ stage' = [stage EXCEPT ![s] = FirstStep(s)]
      /\ pass' = [pass EXCEPT ![s] = [Idle EXCEPT !.no = passes']]
      /\ UNCHANGED <<isolation, declared, process, reviewing, cancelled, faults, main,
                     worktree>>
      /\ UNCHANGED <<doomed, copies, amends, rulesChanged, undeclared, owed>>
  BY DEF Begin, MoveTo, config, treeVars, restoreVars, Records
<1>2. passes' \in Mark /\ passes' \in 0 .. MaxPasses
  BY <1>1, WorkTyped, TreeAssumption DEF Mark
<1>3. /\ [Idle EXCEPT !.no = passes'] \in PassType
      /\ [Idle EXCEPT !.no = passes'].no = passes'
      /\ [Idle EXCEPT !.no = passes'].touched = {}
      /\ [Idle EXCEPT !.no = passes'].manifest = NoTree
  BY <1>2 DEF Idle, PassType
<1>4. /\ stage'[s] = FirstStep(s) /\ pass'[s].no = passes' /\ pass'[s].touched = {}
      /\ pass'[s].manifest = NoTree
      /\ \A t \in Subtask \ {s} : stage'[t] = stage[t] /\ pass'[t] = pass[t]
  BY <1>1, <1>3, WorkTyped
<1>5. FirstStep(s) = IF isolation = "worktree" THEN "provision" ELSE "before"
  BY DEF FirstStep
<1>6. StepTyped
  <2>1. stage' \in [Subtask -> Stages] /\ pass' \in [Subtask -> PassType]
    BY <1>1, <1>3, <1>5, WorkTyped DEF Stages
  <2> QED
    BY <1>1, <1>2, <2>1, WorkTyped DEF StepTyped, WInv, TypeOK
<1>7. OnlyOf(s)
  BY <1>1, <1>4, WorkTyped DEF OnlyOf
<1>8. KeptApart'
  <2> SUFFICES ASSUME isolation = "non-overlapping", NEW t \in Subtask \ {s}, InFlight(t)
               PROVE  Disjoint(s, t)
    BY <1>1, <1>4 DEF KeptApart, InFlight, Disjoint, WInv
  <2>1. CASE stage[s] = "pending"
    BY <2>1 DEF Begin, InFlight
  <2>2. CASE stage[s] = "judge"
    BY <2>2 DEF WInv, KeptApart, InFlight
  <2> QED
    BY <2>1, <2>2 DEF Begin
<1>9. Housed(s)
  BY <1>1, <1>4, <1>5 DEF Housed, InPass, WInv, AtHome
<1>10. /\ stage'[s] \in {"provision", "before"} /\ Landing(s)'
  BY <1>4, <1>5 DEF Landing
<1>11. isolation # "none" => PassInv(s)'
  BY <1>1, <1>4, <1>10 DEF WInv, PassInv, Fresh, Before, Declared, Fingerprints, Compared, Shown
<1> QED
  BY <1>1, <1>2, <1>4, <1>6, <1>7, <1>8, <1>9, <1>10, <1>11, LocalStep

\* A worktree is added at HEAD; if that fails the pass is over before it began.
LEMMA ProvisionKeepsWInv ==
  ASSUME WInv, NEW s \in Subtask, Provision(s)
  PROVE  WInv'
<1>1. process = "executing" /\ stage[s] = "provision" /\ InFlight(s) /\ isolation = "worktree"
  BY DEF Provision, StageIs, InFlight, WInv, AtHome
<1>2. PassKeeps /\ UNCHANGED <<main, undeclared, owed>>
  BY DEF Provision, Records
<1>3. CASE Abandon(s) /\ (GitFails \/ UNCHANGED faults)
  BY <1>1, <1>2, <1>3, FaultTyped, AbandonKeepsWInv DEF WInv
<1>4. CASE /\ worktree' = [worktree EXCEPT ![s] = Head] /\ MoveTo(s, "before")
           /\ UNCHANGED <<faults, pass>>
  <2>1. /\ stage'[s] = "before" /\ worktree'[s] = Head /\ pass'[s] = pass[s]
        /\ \A t \in Subtask \ {s} :
             stage'[t] = stage[t] /\ pass'[t] = pass[t] /\ worktree'[t] = worktree[t]
    BY <1>4, WorkTyped DEF MoveTo
  <2>2. StepTyped
    <3>1. stage' \in [Subtask -> Stages] /\ worktree' \in [Subtask -> Tree \cup {NoTree}]
      BY <1>4, WorkTyped, TreeAssumption DEF Stages, MoveTo
    <3> QED
      BY <1>2, <1>4, <3>1, WorkTyped DEF StepTyped, PassKeeps, WInv, TypeOK
  <2>3. OnlyOf(s)
    BY <1>2, <2>1, WorkTyped DEF OnlyOf, PassKeeps, config, restoreVars
  <2>4. KeptApart'
    BY <1>1, <2>3, StaysApart
  <2>5. Housed(s)
    BY <1>1, <2>1, TreeAssumption DEF Housed
  <2>6. Landing(s)' /\ pass'[s].no \in Mark
    BY <1>1, <2>1 DEF Landing, WInv, Numbered
  <2>7. isolation # "none" => PassInv(s)'
    BY <1>1, <1>2, <2>1 DEF WInv, PassInv, Fresh, Before, Declared, Fingerprints, Compared, Shown
  <2> QED
    BY <1>1, <2>2, <2>3, <2>4, <2>5, <2>6, <2>7, LocalStep
<1> QED
  BY <1>3, <1>4 DEF Provision

\* A worker moves on with other contents of its pass, and the worktree it has.
LEMMA MovesOn ==
  ASSUME WInv, NEW s \in Subtask, process = "executing", InFlight(s),
         NEW v \in Stages, NEW q \in PassType,
         MoveTo(s, v), pass' = [pass EXCEPT ![s] = q],
         UNCHANGED worktree \/ RemoveWorktree(s),
         main' \in Tree, isolation = "worktree" \/ main' = main,
         PassKeeps, faults' \in 0 .. MaxFaults,
         undeclared' \in [Subtask -> SUBSET Path], owed' \in [Subtask -> SUBSET Path],
         \A t \in Subtask \ {s} : undeclared'[t] = undeclared[t] /\ owed'[t] = owed[t],
         Housed(s),
         v \in InPass \cup {"provision"} => q.no \in Mark,
         v = "reconcile" => q.after \in Tree,
         isolation # "none" => PassInv(s)'
  PROVE  WInv'
<1>1. /\ stage'[s] = v /\ pass'[s] = q
      /\ \A t \in Subtask \ {s} :
           stage'[t] = stage[t] /\ pass'[t] = pass[t] /\ worktree'[t] = worktree[t]
  BY WorkTyped DEF MoveTo, RemoveWorktree
<1>2. StepTyped
  <2>1. stage' \in [Subtask -> Stages] /\ pass' \in [Subtask -> PassType]
    BY WorkTyped DEF MoveTo
  <2>2. worktree' \in [Subtask -> Tree \cup {NoTree}]
    BY WorkTyped DEF RemoveWorktree
  <2> QED
    BY <2>1, <2>2, WorkTyped DEF StepTyped, PassKeeps
<1>3. OnlyOf(s)
  BY <1>1 DEF OnlyOf, PassKeeps, config, restoreVars
<1>4. KeptApart'
  BY <1>3, StaysApart
<1>5. Landing(s)'
  BY <1>1 DEF Landing
<1> QED
  BY <1>1, <1>2, <1>3, <1>4, <1>5, LocalStep

\* The snapshot before the agent holds the declared files as they are.
LEMMA SnapshotBeforeKeepsWInv ==
  ASSUME WInv, NEW s \in Subtask, SnapshotBefore(s)
  PROVE  WInv'
<1>1. process = "executing" /\ stage[s] = "before" /\ InFlight(s)
  BY DEF SnapshotBefore, StageIs, InFlight
<1>2. PassKeeps /\ UNCHANGED <<main, undeclared, owed>>
  BY DEF SnapshotBefore, Records
<1>3. CASE Fault /\ Abandon(s)
  BY <1>1, <1>2, <1>3, FaultTyped, AbandonKeepsWInv DEF WInv
<1>4. CASE /\ pass' = [pass EXCEPT ![s].before = Snapshot(WorkDir(s), declared[s])]
           /\ MoveTo(s, "manifest") /\ UNCHANGED <<faults, worktree>>
  <2> DEFINE b == Snapshot(WorkDir(s), declared[s])
             q == [pass[s] EXCEPT !.before = b]
  <2>1. WorkDir(s) \in Tree
    BY <1>1, WorkDirIsTree DEF WInv, InPass
  <2>2. /\ b \in Tree /\ \A p \in declared[s] : b[p] = WorkDir(s)[p]
        /\ \A p \in Path \ declared[s] : b[p] = NoFile
    BY <2>1, SnapshotIsTree, WorkTyped
  <2> HIDE DEF b
  <2>3. pass[s] \in PassType /\ pass' = [pass EXCEPT ![s] = q]
    BY <1>4, WorkTyped DEF b
  <2>4. /\ q \in PassType /\ q.no = pass[s].no /\ q.before = b
        /\ q.touched = pass[s].touched /\ q.strayed = pass[s].strayed
        /\ q.manifest = pass[s].manifest
    BY <2>2, <2>3 DEF PassType
  <2>5. pass'[s] = q /\ stage'[s] = "manifest" /\ worktree' = worktree
    BY <1>4, <2>3, WorkTyped DEF MoveTo
  <2>6. Housed(s)
    BY <1>1, <2>5 DEF Housed, InPass, WInv, TypeOK, AtHome
  <2>7. q.no \in Mark /\ faults' \in 0 .. MaxFaults
    BY <1>1, <1>4, <2>4 DEF WInv, Numbered, InPass, TypeOK
  <2> HIDE DEF q
  <2>8. ASSUME PassInv(s) PROVE PassInv(s)'
    <3>1. q.touched = {} /\ q.manifest = NoTree
      BY <1>1, <2>4, <2>8 DEF PassInv, Fresh
    <3>2. WorkDir(s)' = WorkDir(s) /\ declared' = declared
      BY <1>2, <1>4 DEF WorkDir, PassKeeps, config
    <3>3. Fresh(s)'
      BY <2>5, <3>1 DEF Fresh
    <3>4. Before(s)'
      BY <2>2, <2>4, <2>5, <3>2 DEF Before
    <3>5. Declared(s)'
      BY <2>2, <2>4, <2>5, <3>1, <3>2 DEF Declared, ChangedIn
    <3>6. owed'[s] \subseteq undeclared'[s]
      BY <1>2, <2>8 DEF PassInv
    <3> QED
      BY <2>5, <3>3, <3>4, <3>5, <3>6 DEF PassInv, Fingerprints, Compared, Shown
  <2>9. "manifest" \in Stages
    BY DEF Stages
  <2> QED
    BY <1>1, <1>2, <1>4, <2>3, <2>4, <2>6, <2>7, <2>8, <2>9, WorkTyped, MovesOn DEF WInv
<1> QED
  BY <1>3, <1>4 DEF SnapshotBefore

\* The manifest before the agent.
LEMMA ManifestBeforeKeepsWInv ==
  ASSUME WInv, NEW s \in Subtask, ManifestBefore(s)
  PROVE  WInv'
<1>1. /\ process = "executing" /\ stage[s] = "manifest" /\ InFlight(s) /\ MoveTo(s, "agent")
      /\ PassKeeps /\ UNCHANGED <<main, worktree, undeclared, owed>>
  BY DEF ManifestBefore, StageIs, InFlight, treeVars, Records
<1>2. faults' \in 0 .. MaxFaults
  BY FaultTyped DEF ManifestBefore, WInv
<1>3. Housed(s)
  BY <1>1, WorkTyped DEF Housed, MoveTo, InPass, WInv, TypeOK, AtHome
<1>4. pass[s] \in PassType /\ pass[s].no \in Mark /\ stage'[s] = "agent" /\ "agent" \in Stages
  BY <1>1, WorkTyped DEF WInv, Numbered, InPass, MoveTo, Stages
<1>5. WorkDir(s)' = WorkDir(s) /\ declared' = declared
  BY <1>1 DEF WorkDir, PassKeeps, config
<1>6. CASE pass' = [pass EXCEPT ![s].manifest = Snapshot(WorkDir(s), Listed(WorkDir(s)))]
  <2> DEFINE m == Snapshot(WorkDir(s), Listed(WorkDir(s)))
             q == [pass[s] EXCEPT !.manifest = m]
  <2>1. WorkDir(s) \in Tree
    BY <1>1, WorkDirIsTree DEF WInv, InPass
  <2>2. m \in Tree /\ \A p \in Path : m[p] = WorkDir(s)[p] \/ m[p] = NoFile
    BY <2>1, SnapshotIsTree
  <2> HIDE DEF m
  <2>3. pass' = [pass EXCEPT ![s] = q]
    BY <1>6 DEF m
  <2>4. /\ q \in PassType /\ q.no = pass[s].no /\ q.before = pass[s].before /\ q.manifest = m
        /\ q.touched = pass[s].touched /\ q.strayed = pass[s].strayed
    BY <1>4, <2>2 DEF PassType
  <2>5. pass'[s] = q
    BY <2>3, WorkTyped
  <2> HIDE DEF q
  <2>6. ASSUME PassInv(s) PROVE PassInv(s)'
    <3>1. q.touched = {}
      BY <1>1, <2>4, <2>6 DEF PassInv, Fresh
    <3>2. Before(s)' /\ Declared(s)'
      BY <1>1, <1>4, <1>5, <2>4, <2>5, <2>6 DEF PassInv, Before, Declared, ChangedIn
    <3>3. Fingerprints(s)'
      BY <1>4, <1>5, <2>2, <2>4, <2>5, <3>1 DEF Fingerprints, ChangedIn, Prints
    <3>4. owed'[s] \subseteq undeclared'[s]
      BY <1>1, <2>6 DEF PassInv
    <3> QED
      BY <1>4, <3>2, <3>3, <3>4 DEF PassInv, Fresh, Compared, Shown
  <2> QED
    BY <1>1, <1>2, <1>3, <1>4, <2>3, <2>4, <2>6, WorkTyped, MovesOn DEF WInv
<1>7. CASE UNCHANGED pass
  <2>1. pass' = [pass EXCEPT ![s] = pass[s]]
    BY <1>7, WorkTyped
  <2>2. ASSUME PassInv(s) PROVE PassInv(s)'
    <3>1. Before(s)' /\ Declared(s)'
      BY <1>1, <1>4, <1>5, <1>7, <2>2 DEF PassInv, Before, Declared, ChangedIn
    <3>2. Fingerprints(s)'
      BY <1>1, <1>4, <1>7, <2>2 DEF PassInv, Fresh, Fingerprints
    <3>3. owed'[s] \subseteq undeclared'[s]
      BY <1>1, <2>2 DEF PassInv
    <3> QED
      BY <1>4, <3>1, <3>2, <3>3 DEF PassInv, Fresh, Compared, Shown
  <2> QED
    BY <1>1, <1>2, <1>3, <1>4, <2>1, <2>2, WorkTyped, MovesOn DEF WInv
<1> QED
  BY <1>6, <1>7 DEF ManifestBefore

\* The agent is done, or failed.
LEMMA AgentReturnsKeepsWInv ==
  ASSUME WInv, NEW s \in Subtask, AgentReturns(s)
  PROVE  WInv'
<1>1. /\ process = "executing" /\ stage[s] = "agent" /\ InFlight(s)
      /\ PassKeeps /\ UNCHANGED <<main, faults, undeclared, owed>>
  BY DEF AgentReturns, StageIs, InFlight, Records
<1>2. faults' \in 0 .. MaxFaults
  BY <1>1 DEF WInv, TypeOK
<1>3. CASE Abandon(s)
  BY <1>1, <1>2, <1>3, AbandonKeepsWInv
<1>4. CASE /\ MoveTo(s, IF pass[s].manifest = NoTree THEN "after" ELSE "record")
           /\ UNCHANGED <<worktree, pass>>
  <2> DEFINE v == IF pass[s].manifest = NoTree THEN "after" ELSE "record"
  <2>1. /\ v \in {"after", "record"} /\ v \in Stages /\ stage'[s] = v
        /\ pass' = [pass EXCEPT ![s] = pass[s]]
        /\ pass[s] \in PassType /\ pass[s].no \in Mark
    BY <1>1, <1>4, WorkTyped DEF Stages, MoveTo, WInv, Numbered, InPass
  <2>2. Housed(s)
    BY <1>1, <1>4, <2>1 DEF Housed, InPass, WInv, TypeOK, AtHome
  <2>3. WorkDir(s)' = WorkDir(s) /\ declared' = declared
    BY <1>1, <1>4 DEF WorkDir, PassKeeps, config
  <2>4. ASSUME PassInv(s) PROVE PassInv(s)'
    <3>1. Before(s)' /\ Declared(s)'
      BY <1>1, <1>4, <2>1, <2>3, <2>4 DEF PassInv, Before, Declared, ChangedIn
    <3>2. Fingerprints(s)'
      <4>1. v = "record" => pass[s].manifest \in Tree
        BY <2>1 DEF PassType
      <4> QED
        BY <1>1, <1>4, <2>1, <2>3, <2>4, <4>1
           DEF PassInv, Fingerprints, ChangedIn, Prints, DeclaredByAny
    <3> QED
      BY <1>1, <2>1, <2>4, <3>1, <3>2 DEF PassInv, Fresh, Compared, Shown
  <2>5. MoveTo(s, v) /\ UNCHANGED worktree
    BY <1>4
  <2> HIDE DEF v
  <2> QED
    BY <1>1, <1>2, <2>1, <2>2, <2>4, <2>5, WorkTyped, MovesOn DEF WInv
<1> QED
  BY <1>3, <1>4 DEF AgentReturns

\* The detection sees what its own agent alone can have done.
LEMMA RecordUndeclaredKeepsWInv ==
  ASSUME WInv, NEW s \in Subtask, RecordUndeclared(s)
  PROVE  WInv'
<1>1. /\ process = "executing" /\ stage[s] = "record" /\ InFlight(s)
      /\ PassKeeps /\ UNCHANGED <<main, worktree, pass>> /\ MoveTo(s, "after")
  BY DEF RecordUndeclared, StageIs, InFlight, treeVars
<1>2. faults' \in 0 .. MaxFaults
  BY FaultTyped DEF RecordUndeclared, WInv
<1>3. /\ stage'[s] = "after" /\ "after" \in Stages
      /\ pass' = [pass EXCEPT ![s] = pass[s]]
      /\ pass[s] \in PassType /\ pass[s].no \in Mark
  BY <1>1, WorkTyped DEF Stages, MoveTo, WInv, Numbered, InPass
<1>4. Housed(s)
  BY <1>1, <1>3 DEF Housed, InPass, WInv, TypeOK, AtHome
<1>5. WorkDir(s)' = WorkDir(s) /\ declared' = declared /\ WorkDir(s) \in Tree
  BY <1>1, WorkDirIsTree DEF WorkDir, PassKeeps, config, InPass, WInv
<1> DEFINE now == Snapshot(WorkDir(s), Listed(WorkDir(s)))
           was == pass[s].manifest
           found == Diff(was, now) \ DeclaredByAny
           own == {p \in pass[s].touched \ (DeclaredByAny \cup pass[s].strayed) :
                     was[p] # NoFile \/ now[p] # NoFile}
<1>6. found \subseteq Path /\ own \subseteq Path
  BY <1>3 DEF PassType, Diff
<1>7. ASSUME PassInv(s) PROVE own \subseteq found
  <2> SUFFICES ASSUME NEW p \in own PROVE was[p] # now[p]
    BY <1>6 DEF Diff
  <2>1. /\ p \in Path \ DeclaredByAny /\ p \in pass[s].touched /\ p \notin pass[s].strayed
        /\ was[p] # NoFile \/ now[p] # NoFile
    BY <1>6
  <2>2. now[p] = WorkDir(s)[p] \/ now[p] = NoFile
    BY <1>5, <2>1, SnapshotIsTree
  <2>3. was[p] # NoFile => WorkDir(s)[p] # was[p]
    BY <1>1, <1>7, <2>1 DEF PassInv, Fingerprints, Prints, ChangedIn
  <2> QED
    BY <2>1, <2>2, <2>3
<1>8. \/ /\ undeclared' = [undeclared EXCEPT ![s] = @ \cup found]
         /\ owed' = [owed EXCEPT ![s] = @ \cup own]
      \/ UNCHANGED <<undeclared, owed>>
  BY DEF RecordUndeclared, Merged, Records
<1> HIDE DEF found, own, now, was
<1>9. /\ undeclared' \in [Subtask -> SUBSET Path] /\ owed' \in [Subtask -> SUBSET Path]
      /\ \A t \in Subtask \ {s} : undeclared'[t] = undeclared[t] /\ owed'[t] = owed[t]
  BY <1>6, <1>8, WorkTyped
<1>10. ASSUME PassInv(s) PROVE PassInv(s)'
  <2>1. owed'[s] \subseteq undeclared'[s]
    BY <1>7, <1>8, <1>10, WorkTyped DEF PassInv
  <2>2. Before(s)' /\ Declared(s)'
    BY <1>1, <1>3, <1>5, <1>10 DEF PassInv, Before, Declared, ChangedIn
  <2> QED
    BY <1>3, <2>1, <2>2 DEF PassInv, Fresh, Fingerprints, Compared, Shown
<1> QED
  BY <1>1, <1>2, <1>3, <1>4, <1>9, <1>10, WorkTyped, MovesOn DEF WInv

\* The snapshot after the agent.
LEMMA SnapshotAfterKeepsWInv ==
  ASSUME WInv, NEW s \in Subtask, SnapshotAfter(s)
  PROVE  WInv'
<1>1. /\ process = "executing" /\ stage[s] = "after" /\ InFlight(s)
      /\ PassKeeps /\ UNCHANGED <<main, undeclared, owed>>
  BY DEF SnapshotAfter, StageIs, InFlight, Records
<1>2. CASE Fault /\ Abandon(s)
  BY <1>1, <1>2, FaultTyped, AbandonKeepsWInv DEF WInv
<1>3. CASE /\ pass' = [pass EXCEPT ![s].after = Snapshot(WorkDir(s), declared[s])]
           /\ MoveTo(s, "diff") /\ UNCHANGED <<faults, worktree>>
  <2> DEFINE b == Snapshot(WorkDir(s), declared[s])
             q == [pass[s] EXCEPT !.after = b]
  <2>1. WorkDir(s) \in Tree
    BY <1>1, WorkDirIsTree DEF WInv, InPass
  <2>2. /\ b \in Tree /\ \A p \in declared[s] : b[p] = WorkDir(s)[p]
        /\ \A p \in Path \ declared[s] : b[p] = NoFile
    BY <2>1, SnapshotIsTree, WorkTyped
  <2> HIDE DEF b
  <2>3. pass[s] \in PassType /\ pass' = [pass EXCEPT ![s] = q]
    BY <1>3, WorkTyped DEF b
  <2>4. /\ q \in PassType /\ q.no = pass[s].no /\ q.after = b /\ q.before = pass[s].before
        /\ q.touched = pass[s].touched /\ q.strayed = pass[s].strayed
    BY <2>2, <2>3 DEF PassType
  <2>5. pass'[s] = q /\ stage'[s] = "diff" /\ worktree' = worktree
    BY <1>3, <2>3, WorkTyped DEF MoveTo
  <2>6. Housed(s)
    BY <1>1, <2>5 DEF Housed, InPass, WInv, TypeOK, AtHome
  <2>7. q.no \in Mark /\ faults' \in 0 .. MaxFaults /\ "diff" \in Stages
    BY <1>1, <1>3, <2>4 DEF WInv, Numbered, InPass, TypeOK, Stages
  <2> HIDE DEF q
  <2>8. ASSUME PassInv(s) PROVE PassInv(s)'
    <3>1. declared' = declared
      BY <1>1 DEF PassKeeps, config
    <3>2. Before(s)'
      BY <1>1, <2>4, <2>5, <2>8, <3>1 DEF PassInv, Before
    <3>3. ChangedIn(s, declared[s], pass[s].before, b)
      BY <1>1, <2>2, <2>8, WorkTyped DEF PassInv, Declared, ChangedIn
    <3>4. Compared(s)'
      BY <2>2, <2>4, <2>5, <3>1, <3>3 DEF Compared, ChangedIn
    <3>5. owed'[s] \subseteq undeclared'[s]
      BY <1>1, <2>8 DEF PassInv
    <3> QED
      BY <2>5, <3>2, <3>4, <3>5 DEF PassInv, Fresh, Declared, Fingerprints, Shown
  <2> QED
    BY <1>1, <1>3, <2>3, <2>4, <2>6, <2>7, <2>8, WorkTyped, MovesOn DEF WInv
<1> QED
  BY <1>2, <1>3 DEF SnapshotAfter

\* The diff is the difference of two snapshots, hence of the edits between them.
LEMMA PersistDiffKeepsWInv ==
  ASSUME WInv, NEW s \in Subtask, PersistDiff(s)
  PROVE  WInv'
<1>1. /\ process = "executing" /\ stage[s] = "diff" /\ InFlight(s)
      /\ PassKeeps /\ UNCHANGED <<main, undeclared, owed>>
  BY DEF PersistDiff, StageIs, InFlight, Records
<1>2. CASE GitFails /\ Abandon(s)
  BY <1>1, <1>2, FaultTyped, AbandonKeepsWInv DEF WInv
<1>3. CASE /\ pass' = [pass EXCEPT
                        ![s].patch = Diff(pass[s].before, pass[s].after),
                        ![s].landing = ToLand(pass[s].before, pass[s].after)]
           /\ IF isolation = "worktree" THEN MoveTo(s, "reconcile") /\ UNCHANGED worktree
                                        ELSE Return(s)
           /\ UNCHANGED faults
  <2> DEFINE d == Diff(pass[s].before, pass[s].after)
             l == ToLand(pass[s].before, pass[s].after)
             q == [pass[s] EXCEPT !.patch = d, !.landing = l]
             v == IF isolation = "worktree" THEN "reconcile" ELSE "review"
  <2>1. d \in SUBSET Path /\ l \in SUBSET Path /\ v \in Stages
    BY DEF Diff, ToLand, Stages
  <2>2. d = {p \in Path : pass[s].before[p] # pass[s].after[p]}
    BY DEF Diff
  <2> HIDE DEF d, l
  <2>3. pass[s] \in PassType /\ pass' = [pass EXCEPT ![s] = q]
    BY <1>3, WorkTyped DEF d, l
  <2>4. /\ q \in PassType /\ q.no = pass[s].no /\ q.patch = d /\ q.after = pass[s].after
        /\ q.touched = pass[s].touched /\ q.strayed = pass[s].strayed
    BY <2>1, <2>3 DEF PassType
  <2>5. MoveTo(s, v) /\ (UNCHANGED worktree \/ RemoveWorktree(s))
    BY <1>3 DEF Return
  <2>6. pass'[s] = q /\ stage'[s] = v
    BY <2>3, <2>5, WorkTyped DEF MoveTo
  <2>7. Housed(s)
    <3>1. isolation = "worktree" => worktree'[s] \in Tree
      BY <1>1, <1>3 DEF WInv, TypeOK, InPass
    <3>2. isolation # "worktree" => worktree'[s] = NoTree
      BY <1>3, WorkTyped DEF Return, RemoveWorktree, WInv, AtHome
    <3> QED
      BY <2>6, <3>1, <3>2 DEF Housed, InPass
  <2>8. q.no \in Mark /\ faults' \in 0 .. MaxFaults
    BY <1>1, <1>3, <2>4 DEF WInv, Numbered, InPass, TypeOK
  <2> HIDE DEF q
  <2>9. ASSUME PassInv(s) PROVE PassInv(s)' /\ q.after \in Tree
    <3>1. declared' = declared /\ declared[s] \subseteq Path
      BY <1>1, WorkTyped DEF PassKeeps, config
    <3>2. /\ \A p \in Path \ declared[s] : pass[s].before[p] = NoFile /\ pass[s].after[p] = NoFile
          /\ \A p \in declared[s] \ pass[s].strayed :
               pass[s].after[p] # pass[s].before[p] <=> p \in pass[s].touched
          /\ pass[s].after \in Tree
      BY <1>1, <2>9 DEF PassInv, Before, Compared, ChangedIn
    <3>3. Shown(s)'
      BY <2>2, <2>4, <2>6, <3>1, <3>2 DEF Shown
    <3>4. owed'[s] \subseteq undeclared'[s]
      BY <1>1, <2>9 DEF PassInv
    <3> QED
      BY <2>4, <2>6, <3>2, <3>3, <3>4
         DEF PassInv, Fresh, Before, Declared, Fingerprints, Compared
  <2>10. v = "reconcile" => q.after \in Tree
    <3> SUFFICES ASSUME isolation = "worktree" PROVE q.after \in Tree
      OBVIOUS
    <3> QED
      BY <2>9 DEF WInv
  <2> HIDE DEF v
  <2> QED
    BY <1>1, <2>1, <2>3, <2>4, <2>5, <2>7, <2>8, <2>9, <2>10, WorkTyped, MovesOn DEF WInv
<1> QED
  BY <1>2, <1>3 DEF PersistDiff

\* Files are copied out of the worktree one by one, then it is removed.
LEMMA ReconcileKeepsWInv ==
  ASSUME WInv, NEW s \in Subtask, Reconcile(s)
  PROVE  WInv'
<1>1. /\ process = "executing" /\ stage[s] = "reconcile" /\ InFlight(s) /\ isolation = "worktree"
      /\ PassKeeps /\ UNCHANGED <<undeclared, owed>>
  BY DEF Reconcile, StageIs, InFlight, Records, WInv, AtHome
<1>2. pass[s] \in PassType /\ pass[s].no \in Mark /\ pass[s].after \in Tree
      /\ worktree[s] \in Tree /\ declared' = declared
  BY <1>1, WorkTyped DEF WInv, Numbered, InPass, Landing, TypeOK, PassKeeps, config
<1>3. ASSUME NEW p \in pass[s].landing,
             main' = [main EXCEPT ![p] = pass[s].after[p]],
             pass' = [pass EXCEPT ![s].landing = @ \ {p}],
             UNCHANGED <<stage, worktree, faults>>
      PROVE  WInv'
  <2> DEFINE q == [pass[s] EXCEPT !.landing = @ \ {p}]
  <2>1. pass' = [pass EXCEPT ![s] = q]
    BY <1>3
  <2>2. /\ q \in PassType /\ q.no = pass[s].no /\ q.patch = pass[s].patch
        /\ q.after = pass[s].after
        /\ q.touched = pass[s].touched /\ q.strayed = pass[s].strayed
    BY <1>2 DEF PassType
  <2> HIDE DEF q
  <2>3. MoveTo(s, "reconcile") /\ "reconcile" \in Stages /\ stage'[s] = "reconcile"
    BY <1>1, <1>3, WorkTyped DEF MoveTo, Stages
  <2>4. main' \in Tree
    BY <1>2, <1>3, WorkTyped DEF Tree
  <2>5. Housed(s)
    BY <1>1, <1>2, <1>3, <2>3 DEF Housed
  <2>6. pass'[s] = q
    BY <2>1, WorkTyped
  <2>7. ASSUME PassInv(s) PROVE PassInv(s)'
    <3>1. Shown(s)'
      BY <1>1, <1>2, <2>2, <2>6, <2>7 DEF PassInv, Shown
    <3> QED
      BY <1>1, <2>3, <2>7, <3>1 DEF PassInv, Fresh, Before, Declared, Fingerprints, Compared
  <2>8. faults' \in 0 .. MaxFaults
    BY <1>3 DEF WInv, TypeOK
  <2> QED
    BY <1>1, <1>2, <1>3, <2>1, <2>2, <2>3, <2>4, <2>5, <2>7, <2>8, WorkTyped, MovesOn DEF WInv
<1>4. CASE Return(s) /\ UNCHANGED <<main, pass, faults>>
  <2>1. /\ MoveTo(s, "review") /\ RemoveWorktree(s) /\ "review" \in Stages
        /\ stage'[s] = "review" /\ pass' = [pass EXCEPT ![s] = pass[s]]
    BY <1>4, WorkTyped DEF Return, MoveTo, Stages
  <2>2. Housed(s)
    BY <1>1, <2>1, WorkTyped DEF Housed, RemoveWorktree, InPass
  <2>3. ASSUME PassInv(s) PROVE PassInv(s)'
    <3>1. Shown(s)'
      BY <1>1, <1>2, <1>4, <2>3 DEF PassInv, Shown
    <3> QED
      BY <1>1, <2>1, <2>3, <3>1 DEF PassInv, Fresh, Before, Declared, Fingerprints, Compared
  <2>4. faults' \in 0 .. MaxFaults /\ main' \in Tree
    BY <1>4, WorkTyped DEF WInv, TypeOK
  <2> QED
    BY <1>1, <1>2, <1>4, <2>1, <2>2, <2>3, <2>4, WorkTyped, MovesOn DEF WInv
<1>5. CASE Fault /\ Abandon(s) /\ UNCHANGED main
  BY <1>1, <1>5, FaultTyped, AbandonKeepsWInv DEF WInv
<1> QED
  BY <1>3, <1>4, <1>5 DEF Reconcile

\* The work on a subtask ends in its review.
LEMMA ReviewEnds ==
  ASSUME WInv, NEW s \in Subtask, process = "executing", stage[s] \in {"review", "judge"},
         PassKeeps, UNCHANGED <<faults, main, worktree, undeclared, owed>>,
         Settle(s) \/ FailReview(s)
  PROVE  WInv'
<1>1. InFlight(s) /\ pass' = [pass EXCEPT ![s] = Idle]
  BY DEF InFlight, Settle, FailReview
<1>2. PICK v \in {"cut", "done", "failed"} :
        MoveTo(s, v) /\ (v = "cut" => cancelled) /\ (v = "failed" => ~ cancelled)
  BY DEF Settle, FailReview
<1>3. /\ stage'[s] = v /\ v \in Stages
      /\ v \notin InPass \cup {"provision", "reconcile", "review", "judge"}
  BY <1>2, WorkTyped DEF MoveTo, Stages, InPass
<1>4. Housed(s)
  BY <1>2, <1>3 DEF Housed, WInv, CleanedUp, AtHome
<1>5. ASSUME PassInv(s) PROVE PassInv(s)'
  BY <1>3, <1>5 DEF PassInv, Fresh, Before, Declared, Fingerprints, Compared, Shown, InPass
<1>6. faults' \in 0 .. MaxFaults
  BY DEF WInv, TypeOK
<1> QED
  BY <1>1, <1>2, <1>3, <1>4, <1>5, <1>6, IdleTyped, WorkTyped, MovesOn DEF WInv

\* The hook settles the subtask, or goes on to the reviewer with the worktree gone.
LEMMA ReviewKeepsWInv ==
  ASSUME WInv, NEW s \in Subtask, Review(s) \/ Judge(s)
  PROVE  WInv'
<1>1. /\ process = "executing" /\ stage[s] \in {"review", "judge"} /\ InFlight(s)
      /\ PassKeeps /\ UNCHANGED <<faults, main, worktree, undeclared, owed>>
  BY DEF Review, Judge, StageIs, InFlight, treeVars, Records
<1>2. CASE Settle(s) \/ FailReview(s)
  BY <1>1, <1>2, ReviewEnds
<1>3. CASE /\ stage[s] = "review" /\ ~ cancelled /\ MoveTo(s, "judge") /\ UNCHANGED pass
  <2>1. /\ stage'[s] = "judge" /\ "judge" \in Stages /\ "judge" \notin InPass
        /\ pass' = [pass EXCEPT ![s] = pass[s]] /\ pass[s] \in PassType
    BY <1>3, WorkTyped DEF MoveTo, Stages, InPass
  <2>2. Housed(s)
    BY <1>1, <1>3, <2>1 DEF Housed, WInv, CleanedUp, AtHome
  <2>3. ASSUME PassInv(s) PROVE PassInv(s)'
    <3>1. Shown(s)'
      BY <1>1, <1>3, <2>1, <2>3 DEF PassInv, Shown, PassKeeps, config
    <3> QED
      BY <1>1, <2>1, <2>3, <3>1 DEF PassInv, Fresh, Before, Declared, Fingerprints, Compared
  <2>4. faults' \in 0 .. MaxFaults /\ main' \in Tree
    BY <1>1, WorkTyped DEF WInv, TypeOK
  <2> QED
    BY <1>1, <1>3, <2>1, <2>2, <2>3, <2>4, WorkTyped, MovesOn DEF WInv
<1> QED
  BY <1>2, <1>3 DEF Review, Judge, StageIs

-----------------------------------------------------------------------------
(* An edit of an agent.                                                    *)

\* An agent's edit of a file that it had not touched makes it differ from what it
\* was, if no one else's agent strayed there.
LEMMA OwnEdit ==
  ASSUME NEW W, NEW V, NEW t, NEW p \in Path, NEW P \in SUBSET Path,
         NEW T, NEW R, p \notin T, V[p] # W[p],
         \A x \in Path \ {p} : V[x] = W[x],
         \A x \in P \ R : W[x] # t[x] <=> x \in T
  PROVE  \A x \in P \ R : V[x] # t[x] <=> x \in T \cup {p}
<1> SUFFICES ASSUME NEW x \in P \ R PROVE V[x] # t[x] <=> x \in T \cup {p}
  OBVIOUS
<1>1. CASE x = p
  BY <1>1
<1>2. CASE x # p
  BY <1>2
<1> QED
  BY <1>1, <1>2

\* An edit of an agent, in its own directory.
LEMMA AgentEditsKeepsWInv ==
  ASSUME WInv, NEW s \in Subtask, NEW p \in Path, AgentEdits(s, p)
  PROVE  WInv'
<1>1. /\ process = "executing" /\ stage[s] = "agent" /\ InFlight(s)
      /\ p \notin pass[s].touched
      /\ PassKeeps /\ UNCHANGED <<faults, stage, undeclared, owed>>
  BY DEF AgentEdits, StageIs, InFlight, Records
<1>2. UNCHANGED <<isolation, declared, process, reviewing, cancelled, passes>>
      /\ UNCHANGED <<doomed, copies, amends, rulesChanged>>
  BY <1>1 DEF PassKeeps, config, restoreVars
<1>3. PICK file \in {NoFile, (WorkDir(s)[p] \ NoFile) \cup {pass[s].no}} :
        /\ file # WorkDir(s)[p]
        /\ IF isolation = "worktree"
             THEN worktree' = [worktree EXCEPT ![s][p] = file] /\ UNCHANGED main
             ELSE main' = [main EXCEPT ![p] = file] /\ UNCHANGED worktree
  BY DEF AgentEdits
<1>4. WorkDir(s) \in Tree /\ pass[s] \in PassType /\ pass[s].no \in Mark
  BY <1>1, WorkDirIsTree, WorkTyped DEF WInv, InPass, Numbered
<1>5. file \in File \cup {NoFile}
  <2>1. WorkDir(s)[p] \in File \cup {NoFile}
    BY <1>4 DEF Tree
  <2>2. WorkDir(s)[p] \ NoFile \in File
    BY <2>1 DEF File, NoFile
  <2>3. (WorkDir(s)[p] \ NoFile) \cup {pass[s].no} \in File
    BY <1>4, <2>2 DEF File
  <2> QED
    BY <2>3
<1>6. /\ WorkDir(s)' \in Tree /\ WorkDir(s)'[p] = file
      /\ \A x \in Path \ {p} : WorkDir(s)'[x] = WorkDir(s)[x]
      /\ worktree' \in [Subtask -> Tree \cup {NoTree}]
      /\ main' \in Tree
      /\ \A t \in Subtask \ {s} : worktree'[t] = worktree[t]
  <2>1. CASE isolation = "worktree"
    <3>1. /\ WorkDir(s) = worktree[s] /\ WorkDir(s)' = worktree'[s]
          /\ main' = main
      BY <1>2, <1>3, <2>1 DEF WorkDir
    <3>2. worktree' = [worktree EXCEPT ![s] = [worktree[s] EXCEPT ![p] = file]]
      BY <1>3, <2>1
    <3>3. worktree[s] \in Tree /\ [worktree[s] EXCEPT ![p] = file] \in Tree
      BY <1>4, <1>5, <3>1 DEF Tree
    <3>4. worktree'[s] = [worktree[s] EXCEPT ![p] = file]
      BY <3>2, WorkTyped
    <3>5. worktree'[s][p] = file /\ \A x \in Path \ {p} : worktree'[s][x] = worktree[s][x]
      BY <3>3, <3>4 DEF Tree
    <3> QED
      BY <3>1, <3>2, <3>3, <3>4, <3>5, WorkTyped
  <2>2. CASE isolation # "worktree"
    <3>1. /\ WorkDir(s) = main /\ WorkDir(s)' = main' /\ worktree' = worktree
          /\ main' = [main EXCEPT ![p] = file]
      BY <1>2, <1>3, <2>2 DEF WorkDir
    <3>2. main' \in Tree /\ main'[p] = file /\ \A x \in Path \ {p} : main'[x] = main[x]
      BY <1>5, <3>1, WorkTyped DEF Tree
    <3> QED
      BY <3>1, <3>2, WorkTyped
  <2> QED
    BY <2>1, <2>2
<1>7. \A t \in Subtask :
        pass'[t] = CASE t = s -> [pass[s] EXCEPT !.touched = @ \cup {p}]
                     [] t # s /\ InFlight(t) /\ p \notin declared[s] /\ isolation # "worktree" ->
                          [pass[t] EXCEPT !.strayed = @ \cup {p}]
                     [] OTHER -> pass[t]
  BY DEF AgentEdits
<1>8. /\ pass'[s] \in PassType /\ pass'[s].touched = pass[s].touched \cup {p}
      /\ pass'[s].no = pass[s].no /\ pass'[s].strayed = pass[s].strayed
      /\ pass'[s].before = pass[s].before /\ pass'[s].manifest = pass[s].manifest
  <2>1. pass'[s] = [pass[s] EXCEPT !.touched = @ \cup {p}]
    BY <1>7
  <2> QED
    BY <1>4, <2>1 DEF PassType
<1>9. ASSUME NEW t \in Subtask \ {s}
      PROVE  /\ pass'[t] \in PassType
             /\ pass'[t].no = pass[t].no /\ pass'[t].touched = pass[t].touched
             /\ pass'[t].before = pass[t].before /\ pass'[t].manifest = pass[t].manifest
             /\ pass'[t].after = pass[t].after /\ pass'[t].patch = pass[t].patch
             /\ pass[t].strayed \subseteq pass'[t].strayed
             /\ isolation = "worktree" => pass'[t] = pass[t]
             /\ InFlight(t) /\ p \notin declared[s] /\ isolation # "worktree" =>
                  p \in pass'[t].strayed
  <2>1. pass[t] \in PassType
    BY WorkTyped
  <2>2. CASE InFlight(t) /\ p \notin declared[s] /\ isolation # "worktree"
    <3>1. pass'[t] = [pass[t] EXCEPT !.strayed = @ \cup {p}]
      BY <1>7, <2>2
    <3> QED
      BY <2>1, <2>2, <3>1 DEF PassType
  <2>3. CASE ~ (InFlight(t) /\ p \notin declared[s] /\ isolation # "worktree")
    <3>1. pass'[t] = pass[t]
      BY <1>7, <2>3
    <3> QED
      BY <2>1, <2>3, <3>1
  <2> QED
    BY <2>2, <2>3
<1>10. pass' \in [Subtask -> PassType]
  <2>1. \A t \in Subtask : pass'[t] \in PassType
    BY <1>8, <1>9
  <2> QED
    BY <2>1 DEF AgentEdits
<1>11. TypeOK'
  <2>1. {undeclared', owed'} \subseteq [Subtask -> SUBSET Path]
    BY <1>1, WorkTyped
  <2>2. isolation' = "worktree" =>
          \A t \in Subtask : stage'[t] \in InPass => worktree'[t] \in Tree
    <3>1. isolation = "worktree" => worktree'[s] \in Tree
      BY <1>2, <1>6 DEF WorkDir
    <3> QED
      BY <1>1, <1>2, <1>6, <3>1 DEF WInv, TypeOK
  <2> QED
    BY <1>1, <1>2, <1>6, <1>10, <2>1, <2>2 DEF WInv, TypeOK, PassType
<1>12. Numbered' /\ AtRest' /\ AtHome' /\ CleanedUp' /\ CutShort' /\ KeptApart'
  <2>1. Numbered'
    BY <1>1, <1>8, <1>9 DEF WInv, Numbered
  <2>2. AtRest' /\ KeptApart'
    BY <1>1, <1>2 DEF WInv, AtRest, KeptApart, InFlight, Disjoint
  <2>3. AtHome'
    BY <1>1, <1>2, <1>3 DEF WInv, AtHome
  <2>4. CleanedUp' /\ CutShort'
    BY <1>1, <1>2, <1>6 DEF WInv, CleanedUp, CutShort
  <2> QED
    BY <2>1, <2>2, <2>3, <2>4
<1>13. \A t \in Subtask : Landing(t)'
  BY <1>1, <1>9 DEF WInv, Landing
<1>14. ASSUME isolation # "none", PassInv(s) PROVE PassInv(s)'
  <2>1. Before(s)'
    BY <1>1, <1>2, <1>8, <1>14 DEF PassInv, Before
  <2>2. ASSUME NEW P \in SUBSET Path, NEW t, ChangedIn(s, P, t, WorkDir(s))
        PROVE  \A x \in P \ pass'[s].strayed :
                 WorkDir(s)'[x] # t[x] <=> x \in pass'[s].touched
    <3>1. \A x \in P \ pass[s].strayed : WorkDir(s)[x] # t[x] <=> x \in pass[s].touched
      BY <2>2 DEF ChangedIn
    <3>2. \A x \in P \ pass[s].strayed :
            WorkDir(s)'[x] # t[x] <=> x \in pass[s].touched \cup {p}
      BY <1>1, <1>3, <1>6, <3>1, OwnEdit
    <3> QED
      BY <1>8, <3>2
  <2>3. Declared(s)'
    <3>1. ChangedIn(s, declared[s], pass[s].before, WorkDir(s))
      BY <1>1, <1>14 DEF PassInv, Declared
    <3>2. \A x \in declared[s] \ pass'[s].strayed :
            WorkDir(s)'[x] # pass[s].before[x] <=> x \in pass'[s].touched
      BY <2>2, <3>1, WorkTyped
    <3> QED
      BY <1>2, <1>8, <3>2 DEF Declared, ChangedIn
  <2>4. Fingerprints(s)'
    <3> SUFFICES ASSUME pass[s].manifest # NoTree
                 PROVE  ChangedIn(s, Prints(s), pass[s].manifest, WorkDir(s))'
      BY <1>1, <1>8 DEF Fingerprints
    <3>1. ChangedIn(s, Prints(s), pass[s].manifest, WorkDir(s))
      BY <1>1, <1>14 DEF PassInv, Fingerprints
    <3>2. Prints(s) \subseteq Path /\ Prints(s)' = Prints(s)
      BY <1>2, <1>8 DEF Prints, DeclaredByAny
    <3>3. \A x \in Prints(s) \ pass'[s].strayed :
            WorkDir(s)'[x] # pass[s].manifest[x] <=> x \in pass'[s].touched
      BY <2>2, <3>1, <3>2
    <3> QED
      BY <1>8, <3>2, <3>3 DEF ChangedIn
  <2>5. owed'[s] \subseteq undeclared'[s]
    BY <1>1, <1>14 DEF PassInv
  <2> QED
    BY <1>1, <2>1, <2>3, <2>4, <2>5 DEF PassInv, Fresh, Compared, Shown
<1>15. ASSUME isolation # "none", NEW t \in Subtask \ {s}, PassInv(t) PROVE PassInv(t)'
  <2>1. CASE isolation = "worktree"
    <3>1. WorkDir(t)' = WorkDir(t) /\ pass'[t] = pass[t]
      BY <1>2, <1>6, <1>9, <2>1 DEF WorkDir
    <3> QED
      BY <1>1, <1>2, <1>15, <3>1 DEF PassInv, Fresh, Before, Declared, Fingerprints, Prints,
         DeclaredByAny, Compared, Shown, ChangedIn
  <2>2. CASE isolation = "non-overlapping"
    <3>1. CASE ~ InFlight(t)
      BY <1>1, <1>15, <3>1 DEF InFlight, PassInv, Fresh, Before, Declared, Fingerprints,
         Compared, Shown
    <3>2. CASE InFlight(t)
      <4>1. /\ WorkDir(t) = WorkDir(s) /\ WorkDir(t)' = WorkDir(s)'
            /\ \A x \in Path \ {p} : WorkDir(t)'[x] = WorkDir(t)[x]
        BY <1>2, <1>6, <2>2 DEF WorkDir
      <4>2. p \in declared[s] => p \notin declared[t]
        BY <1>1, <2>2, <3>2 DEF WInv, KeptApart, Disjoint
      <4>3. p \in pass'[t].strayed \/ (p \in DeclaredByAny /\ p \notin declared[t])
        BY <1>9, <2>2, <3>2, <4>2 DEF DeclaredByAny
      <4>4. Prints(t)' = Prints(t) /\ Prints(t) \subseteq Path \ DeclaredByAny
        BY <1>2, <1>9 DEF Prints, DeclaredByAny
      <4>5. declared[t] \subseteq Path /\ declared' = declared /\ stage' = stage
        BY <1>1, <1>2, WorkTyped
      <4>6. ASSUME NEW P \in SUBSET Path, NEW u, ChangedIn(t, P, u, WorkDir(t)),
                   p \in P => p \in pass'[t].strayed
            PROVE  \A x \in P \ pass'[t].strayed :
                     WorkDir(t)'[x] # u[x] <=> x \in pass'[t].touched
        BY <1>9, <4>1, <4>6 DEF ChangedIn
      <4>7. Declared(t)'
        <5>1. stage[t] \in {"manifest", "agent", "record", "after"} =>
                \A x \in declared[t] \ pass'[t].strayed :
                  WorkDir(t)'[x] # pass[t].before[x] <=> x \in pass'[t].touched
          BY <1>15, <4>3, <4>5, <4>6 DEF PassInv, Declared
        <5> QED
          BY <1>9, <4>5, <5>1 DEF Declared, ChangedIn
      <4>8. Fingerprints(t)'
        <5>1. p \notin Prints(t) \/ p \in pass'[t].strayed
          BY <4>3, <4>4
        <5>2. (stage[t] = "agent" /\ pass[t].manifest # NoTree) \/ stage[t] = "record" =>
                \A x \in Prints(t) \ pass'[t].strayed :
                  WorkDir(t)'[x] # pass[t].manifest[x] <=> x \in pass'[t].touched
          BY <1>15, <4>4, <4>6, <5>1 DEF PassInv, Fingerprints
        <5>3. stage[t] = "record" => pass[t].manifest \in Tree
          BY <1>15 DEF PassInv, Fingerprints
        <5> QED
          BY <1>9, <4>4, <4>5, <5>2, <5>3 DEF Fingerprints, ChangedIn
      <4>9. Fresh(t)' /\ Before(t)'
        BY <1>9, <1>15, <4>5 DEF PassInv, Fresh, Before
      <4>10. Compared(t)' /\ Shown(t)'
        BY <1>9, <1>15, <4>5 DEF PassInv, Compared, Shown, ChangedIn
      <4> QED
        BY <1>1, <1>15, <4>7, <4>8, <4>9, <4>10 DEF PassInv
    <3> QED
      BY <3>1, <3>2
  <2> QED
    BY <1>15, <2>1, <2>2, TreeAssumption DEF WInv, TypeOK
<1>16. Reverting'
  BY <1>1, <1>2 DEF Reverting
<1> QED
  BY <1>2, <1>11, <1>12, <1>13, <1>14, <1>15, <1>16 DEF WInv

-----------------------------------------------------------------------------
(* The process, and the revert.                                            *)

\* Without work in flight there is no more to know of the workers.
LEMMA NoWork ==
  ASSUME NEW s \in Subtask, stage[s] \in {"pending", "done", "failed"},
         owed[s] \subseteq undeclared[s]
  PROVE  PassInv(s) /\ Landing(s) /\ ~ InFlight(s)
BY DEF PassInv, Fresh, Before, Declared, Fingerprints, Compared, Shown, Landing, InFlight

\* The same after a step.
LEMMA NoWorkAfter ==
  ASSUME NEW s \in Subtask, stage'[s] \in {"pending", "done", "failed"},
         owed'[s] \subseteq undeclared'[s]
  PROVE  PassInv(s)' /\ Landing(s)' /\ ~ InFlight(s)'
BY DEF PassInv, Fresh, Before, Declared, Fingerprints, Compared, Shown, Landing, InFlight

\* Whatever ends the process, nothing is in flight, and no revert under way.
LEMMA EndKeepsWInv ==
  ASSUME WInv, RunEnds \/ Crash
  PROVE  WInv'
<1>1. /\ cancelled' = FALSE
      /\ stage' = [s \in Subtask |-> IF InFlight(s) THEN "pending" ELSE stage[s]]
      /\ pass' = [s \in Subtask |-> Idle]
      /\ doomed' = {} /\ copies' = {}
      /\ UNCHANGED <<isolation, declared, reviewing, passes, undeclared, owed, main,
                     worktree, amends, rulesChanged>>
      /\ process' \in {"paused", "ended"}
  BY DEF RunEnds, Crash, End, config, Records, treeVars
<1>2. faults' \in 0 .. MaxFaults
  BY FaultTyped DEF RunEnds, Crash, WInv
<1>3. \A s \in Subtask : /\ stage'[s] \in {"pending", "done", "failed"}
                         /\ stage'[s] # "pending" => stage[s] = stage'[s]
  BY <1>1, WorkTyped DEF InFlight
<1>4. TypeOK'
  <2>1. stage' \in [Subtask -> Stages] /\ pass' \in [Subtask -> PassType]
    BY <1>1, <1>3, IdleTyped DEF Stages
  <2>2. {undeclared', owed'} \subseteq [Subtask -> SUBSET Path]
    BY <1>1, WorkTyped
  <2>3. \A s \in Subtask : stage'[s] \notin InPass
    BY <1>3 DEF InPass
  <2> QED
    BY <1>1, <1>2, <2>1, <2>2, <2>3 DEF WInv, TypeOK, PassType
<1>5. ASSUME NEW s \in Subtask
      PROVE  Landing(s)' /\ ~ InFlight(s)' /\ (isolation # "none" => PassInv(s)')
  BY <1>1, <1>3, NoWorkAfter DEF WInv, PassInv, Landing, InFlight
<1>6. Numbered' /\ AtRest' /\ KeptApart'
  BY <1>3, <1>5 DEF Numbered, InPass, AtRest, KeptApart
<1>7. AtHome' /\ CleanedUp' /\ CutShort'
  BY <1>1, <1>3 DEF WInv, AtHome, CleanedUp, CutShort
<1>8. Reverting'
  BY <1>1 DEF Reverting
<1> QED
  BY <1>1, <1>4, <1>5, <1>6, <1>7, <1>8 DEF WInv

\* Steps that touch neither the trees nor the passes.
LEMMA AsideKeepsWInv ==
  ASSUME WInv, Cancel \/ Resume \/ Amend \/ UNCHANGED vars
  PROVE  WInv'
<1>1. UNCHANGED <<isolation, declared, stage, passes, pass, undeclared, owed, main, worktree>>
  BY DEF Cancel, Resume, Amend, vars, config, passVars, treeVars
<1>2. WInv => /\ TypeOK /\ Numbered /\ AtRest /\ AtHome /\ CleanedUp /\ CutShort
              /\ KeptApart /\ Reverting
  BY DEF WInv
<1>3. ASSUME NEW s \in Subtask PROVE (PassInv(s)' <=> PassInv(s)) /\ (Landing(s)' <=> Landing(s))
  <2>1. WorkDir(s)' = WorkDir(s) /\ Prints(s)' = Prints(s)
    BY <1>1 DEF WorkDir, Prints, DeclaredByAny
  <2> QED
    BY <1>1, <2>1 DEF PassInv, Fresh, Before, Declared, Fingerprints, Compared, Shown, ChangedIn,
       Landing
<1>4. Numbered' /\ AtHome' /\ KeptApart'
  BY <1>1, <1>2 DEF Numbered, AtHome, KeptApart, InFlight, Disjoint
<1>5. CASE Cancel \/ Resume \/ UNCHANGED vars
  <2>1. /\ cancelled' = cancelled \/ cancelled' = TRUE
        /\ cancelled' \in BOOLEAN /\ faults' \in 0 .. MaxFaults
        /\ reviewing' \in Reviewings
    BY <1>2, <1>5, FaultTyped DEF TypeOK, Cancel, Resume, vars
  <2>2. UNCHANGED <<doomed, copies, amends, rulesChanged>>
    BY <1>5 DEF Cancel, Resume, vars, restoreVars
  <2>3. process' = process \/ process' = "executing"
    BY <1>5 DEF Cancel, Resume, vars
  <2>4. TypeOK'
    BY <1>1, <1>2, <2>1, <2>2, <2>3 DEF TypeOK
  <2>5. AtRest'
    BY <1>1, <1>2, <2>3 DEF AtRest, InFlight
  <2>6. CleanedUp' /\ CutShort'
    BY <1>1, <1>2, <2>1 DEF CleanedUp, CutShort
  <2>7. Reverting'
    BY <1>1, <1>2, <2>2, <2>3 DEF Reverting, Present, Listed, IgnoredIn
  <2> QED
    BY <1>1, <1>3, <1>4, <2>4, <2>5, <2>6, <2>7 DEF WInv
<1>6. CASE Amend
  <2>1. /\ process = "paused" /\ process' = "restoring" /\ amends < MaxAmends
        /\ doomed' = Listed(main) \ Present(Baseline) /\ copies' = Present(Baseline)
        /\ UNCHANGED <<reviewing, cancelled, faults, amends>>
    BY <1>6 DEF Amend, Additions
  <2>2. /\ rulesChanged' \in BOOLEAN
        /\ ~ rulesChanged' => main[IgnoreFile] = Start[IgnoreFile]
    BY <1>2, <1>6 DEF Amend, TypeOK
  <2>3. TypeOK'
    <3>1. doomed' \subseteq Path /\ copies' \subseteq Path
      BY <2>1 DEF Listed, Present
    <3> QED
      BY <1>1, <1>2, <2>1, <2>2, <3>1 DEF TypeOK
  <2>4. AtRest' /\ CleanedUp' /\ CutShort'
    BY <1>1, <1>2, <2>1 DEF AtRest, CleanedUp, CutShort, InFlight
  <2>5. ASSUME ~ rulesChanged' PROVE IgnoreFile \notin doomed'
    <3> SUFFICES ASSUME IgnoreFile \in Listed(main) PROVE IgnoreFile \in Present(Baseline)
      BY <2>1
    <3>1. main[IgnoreFile] = Start[IgnoreFile]
      BY <2>2, <2>5
    <3>2. IgnoreFile \in Listed(Start)
      BY <3>1 DEF Listed, Present, IgnoredIn
    <3>3. Baseline[IgnoreFile] = Start[IgnoreFile] /\ Start[IgnoreFile] # NoFile
      BY <3>2, TreeAssumption, SnapshotIsTree DEF Baseline, Listed, Present
    <3> QED
      BY <3>3, TreeAssumption DEF Present
  <2>6. Reverting'
    BY <1>1, <2>1, <2>2, <2>5 DEF Reverting
  <2> QED
    BY <1>1, <1>3, <1>4, <2>3, <2>4, <2>6 DEF WInv
<1> QED
  BY <1>5, <1>6

\* The baseline holds the user's files, and no more.
LEMMA BaselineIsStart ==
  /\ Baseline \in Tree
  /\ \A p \in Present(Baseline) : Baseline[p] = Start[p] /\ p \in Listed(Start)
BY TreeAssumption, SnapshotIsTree DEF Baseline, Present

\* The revert goes on: a path is removed, or copied back.
LEMMA RevertKeepsWInv ==
  ASSUME WInv, RemoveAdded \/ CopyBack
  PROVE  WInv'
<1>1. /\ process = "restoring"
      /\ UNCHANGED <<isolation, declared, process, reviewing, cancelled, faults, stage,
                     passes, pass, undeclared, owed, worktree, amends, rulesChanged>>
  BY DEF RemoveAdded, CopyBack, config, passVars
<1>2. TypeOK /\ main \in Tree /\ doomed \subseteq Path /\ copies \subseteq Path
  BY DEF WInv, TypeOK
<1>3. \A s \in Subtask : ~ InFlight(s) /\ stage'[s] = stage[s]
  BY <1>1 DEF WInv, AtRest
<1>4. \A s \in Subtask : stage'[s] \in {"pending", "done", "failed"}
  BY <1>3 DEF InFlight
<1>5. \A s \in Subtask : Landing(s)' /\ (isolation # "none" => PassInv(s)')
  BY <1>1, <1>4, NoWorkAfter DEF WInv, PassInv, Landing
<1>6. Numbered' /\ AtRest' /\ AtHome' /\ CleanedUp' /\ CutShort' /\ KeptApart'
  BY <1>1 DEF WInv, Numbered, AtRest, AtHome, CleanedUp, CutShort, KeptApart, InFlight, Disjoint
<1>7. ASSUME NEW p \in Path, NEW file \in File \cup {NoFile},
             main' = [main EXCEPT ![p] = file],
             doomed' \subseteq doomed, copies' \subseteq copies,
             \/ p \in doomed /\ file = NoFile /\ doomed' = doomed \ {p} /\ copies' = copies
             \/ p \in copies /\ file = Baseline[p] /\ copies' = copies \ {p} /\ doomed' = doomed
      PROVE  TypeOK' /\ Reverting'
  <2>1. main' \in Tree /\ main'[p] = file /\ \A x \in Path \ {p} : main'[x] = main[x]
    BY <1>2, <1>7 DEF Tree
  <2>2. TypeOK'
    BY <1>1, <1>2, <1>7, <2>1 DEF TypeOK
  <2>3. /\ amends < MaxAmends
        /\ doomed \cap Present(Baseline) = {} /\ copies \subseteq Present(Baseline)
        /\ \A x \in Present(Baseline) \ copies : main[x] = Baseline[x]
        /\ ~ rulesChanged =>
             /\ main[IgnoreFile] = Start[IgnoreFile] /\ IgnoreFile \notin doomed
             /\ Listed(main) \subseteq Present(Baseline) \cup doomed
    BY <1>1 DEF WInv, Reverting
  <2>4. Present(Baseline) \subseteq Path
    BY DEF Present
  <2>5. \A x \in Present(Baseline) \ copies' : main'[x] = Baseline[x]
    BY <1>7, <2>1, <2>3, <2>4
  <2>6. ASSUME ~ rulesChanged PROVE main'[IgnoreFile] = Start[IgnoreFile]
    <3>1. CASE p # IgnoreFile
      BY <2>1, <2>3, <2>6, <3>1, TreeAssumption
    <3>2. CASE p = IgnoreFile
      BY <1>7, <2>1, <2>3, <2>6, <3>2, BaselineIsStart
    <3> QED
      BY <3>1, <3>2
  <2>7. ASSUME ~ rulesChanged PROVE Listed(main') \subseteq Present(Baseline) \cup doomed'
    <3> SUFFICES ASSUME NEW x \in Listed(main'), x \notin Present(Baseline)
                 PROVE  x \in doomed'
      OBVIOUS
    <3>1. x \in Path /\ main'[x] # NoFile /\ (x \in Tracked \/ x \notin IgnoredIn(main'))
      BY DEF Listed, Present
    <3>2. x # p
      BY <1>7, <2>1, <2>3, <3>1
    <3>3. x \in Listed(main)
      BY <2>1, <2>3, <2>6, <2>7, <3>1, <3>2 DEF Listed, Present, IgnoredIn
    <3> QED
      BY <1>7, <2>3, <2>7, <3>2, <3>3
  <2>8. Reverting'
    BY <1>1, <1>7, <2>3, <2>5, <2>6, <2>7 DEF Reverting
  <2> QED
    BY <2>2, <2>8
<1>8. CASE RemoveAdded
  <2>1. PICK p \in doomed : main' = [main EXCEPT ![p] = NoFile] /\ doomed' = doomed \ {p}
    BY <1>8 DEF RemoveAdded
  <2>2. copies' = copies
    BY <1>8 DEF RemoveAdded
  <2> QED
    BY <1>1, <1>2, <1>5, <1>6, <1>7, <2>1, <2>2 DEF WInv
<1>9. CASE CopyBack
  <2>1. PICK p \in copies : main' = [main EXCEPT ![p] = Baseline[p]] /\ copies' = copies \ {p}
    BY <1>9 DEF CopyBack
  <2>2. doomed' = doomed /\ Baseline[p] \in File \cup {NoFile}
    BY <1>2, <1>9, <2>1, BaselineIsStart DEF CopyBack, Tree
  <2> QED
    BY <1>1, <1>2, <1>5, <1>6, <1>7, <2>1, <2>2 DEF WInv
<1> QED
  BY <1>8, <1>9

\* The plan starts over.
LEMMA RestartKeepsWInv ==
  ASSUME WInv, Restart
  PROVE  WInv'
<1>1. /\ process = "restoring" /\ process' = "executing" /\ reviewing' \in Reviewings
      /\ stage' = [s \in Subtask |-> "pending"]
      /\ undeclared' = [s \in Subtask |-> {}] /\ owed' = [s \in Subtask |-> {}]
      /\ rulesChanged' = FALSE /\ amends' = amends + 1
      /\ UNCHANGED <<isolation, declared, cancelled, faults, passes, pass, main, worktree,
                     doomed, copies>>
  BY DEF Restart, Restored, config, treeVars
<1>2. amends' \in 0 .. MaxAmends
  BY <1>1, TreeAssumption DEF WInv, TypeOK, Reverting
<1>3. TypeOK'
  <2>1. stage' \in [Subtask -> Stages] /\ \A s \in Subtask : stage'[s] \notin InPass
    BY <1>1 DEF Stages, InPass
  <2>2. {undeclared', owed'} \subseteq [Subtask -> SUBSET Path]
    BY <1>1
  <2> QED
    BY <1>1, <1>2, <2>1, <2>2 DEF WInv, TypeOK
<1>4. \A s \in Subtask : PassInv(s)' /\ Landing(s)' /\ ~ InFlight(s)'
  BY <1>1, NoWorkAfter
<1>5. Numbered' /\ AtRest' /\ KeptApart' /\ CleanedUp' /\ CutShort'
  BY <1>1, <1>4 DEF Numbered, InPass, AtRest, KeptApart, CleanedUp, CutShort
<1>6. AtHome' /\ Reverting'
  BY <1>1 DEF WInv, AtHome, Reverting
<1> QED
  BY <1>3, <1>4, <1>5, <1>6 DEF WInv

-----------------------------------------------------------------------------
(* The theorems.                                                           *)

\* The invariant holds before the first pass.
LEMMA InitWInv ==
  ASSUME Init
  PROVE  WInv
<1>1. /\ process = "executing" /\ reviewing \in Reviewings
      /\ cancelled = FALSE /\ faults = 0 /\ main = Start
      /\ worktree = [s \in Subtask |-> NoTree] /\ stage = [s \in Subtask |-> "pending"]
      /\ passes = 0 /\ pass = [s \in Subtask |-> Idle]
      /\ undeclared = [s \in Subtask |-> {}] /\ owed = [s \in Subtask |-> {}]
      /\ doomed = {} /\ copies = {} /\ amends = 0 /\ rulesChanged = FALSE
      /\ isolation \in Isolations /\ declared \in Plans
  BY DEF Init
<1>2. TypeOK
  <2>1. pass \in [Subtask -> PassType] /\ stage \in [Subtask -> Stages]
    BY <1>1, IdleTyped DEF Stages
  <2>2. {undeclared, owed} \subseteq [Subtask -> SUBSET Path]
    BY <1>1
  <2>3. \A s \in Subtask : stage[s] \notin InPass
    BY <1>1 DEF InPass
  <2>4. faults \in 0 .. MaxFaults /\ amends \in 0 .. MaxAmends /\ passes \in 0 .. MaxPasses
    BY <1>1, TreeAssumption
  <2>5. main \in Tree /\ worktree \in [Subtask -> Tree \cup {NoTree}]
    BY <1>1, TreeAssumption
  <2>6. /\ process \in {"executing", "paused", "ended", "restoring"}
        /\ cancelled \in BOOLEAN /\ rulesChanged \in BOOLEAN /\ reviewing \in Reviewings
        /\ doomed \subseteq Path /\ copies \subseteq Path
    BY <1>1
  <2>7. isolation \in Isolations /\ declared \in Plans
    BY <1>1
  <2> QED
    BY <2>1, <2>2, <2>3, <2>4, <2>5, <2>6, <2>7 DEF TypeOK, PassType
<1>3. \A s \in Subtask : PassInv(s) /\ Landing(s) /\ ~ InFlight(s)
  BY <1>1, NoWork
<1>4. Numbered /\ AtRest /\ KeptApart /\ CleanedUp /\ CutShort
  BY <1>1, <1>3 DEF Numbered, InPass, AtRest, KeptApart, CleanedUp, CutShort
<1>5. AtHome /\ Reverting
  BY <1>1 DEF AtHome, Reverting
<1> QED
  BY <1>2, <1>3, <1>4, <1>5 DEF WInv

\* Every step keeps the invariant.
LEMMA NextKeepsWInv ==
  ASSUME WInv, [Next]_vars
  PROVE  WInv'
<1>1. ASSUME NEW s \in Subtask, Work(s) PROVE WInv'
  BY <1>1, BeginKeepsWInv, ProvisionKeepsWInv, SnapshotBeforeKeepsWInv,
     ManifestBeforeKeepsWInv, AgentEditsKeepsWInv, AgentReturnsKeepsWInv,
     RecordUndeclaredKeepsWInv, SnapshotAfterKeepsWInv, PersistDiffKeepsWInv,
     ReconcileKeepsWInv, ReviewKeepsWInv DEF Work
<1>2. CASE RunEnds \/ Crash
  BY <1>2, EndKeepsWInv
<1>3. CASE Cancel \/ Resume \/ Amend \/ UNCHANGED vars
  BY <1>3, AsideKeepsWInv
<1>4. CASE RemoveAdded \/ CopyBack
  BY <1>4, RevertKeepsWInv
<1>5. CASE Restart
  BY <1>5, RestartKeepsWInv
<1> QED
  BY <1>1, <1>2, <1>3, <1>4, <1>5 DEF Next

\* The invariant.
THEOREM TreeInductive == Spec => []WInv
<1>1. Init => WInv
  BY InitWInv
<1>2. WInv /\ [Next]_vars => WInv'
  BY NextKeepsWInv
<1> QED
  BY <1>1, <1>2, PTL DEF Spec

\* Types; and a pass under way in a worktree has that worktree.
THEOREM TreeTyped == Spec => []TypeOK
<1>1. WInv => TypeOK
  BY DEF WInv
<1> QED
  BY <1>1, TreeInductive, PTL

\* The diff a reviewer is shown holds what its subtask's agent did to the declared
\* files, the record what it did to those nobody declares, and neither anything
\* else, but for agents that left the files of their own subtask (executor.go,
\* undeclared.go).
THEOREM DiffsAreComplete == Spec => []DiffsAccount
<1>1. WInv => DiffsAccount
  <2> SUFFICES ASSUME WInv, isolation # "none", NEW s \in Subtask, UnderReview(s)
               PROVE  /\ pass[s].patch \subseteq pass[s].touched \cup pass[s].strayed
                      /\ pass[s].touched \cap declared[s]
                           \subseteq pass[s].patch \cup pass[s].strayed
                      /\ owed[s] \subseteq undeclared[s]
    BY DEF DiffsAccount, PatchIsOwn, EditsAccounted
  <2>1. /\ pass[s].patch \subseteq declared[s]
        /\ \A p \in declared[s] \ pass[s].strayed :
             p \in pass[s].patch <=> p \in pass[s].touched
    BY DEF UnderReview, WInv, PassInv, Shown
  <2> QED
    BY <2>1 DEF WInv, PassInv
<1> QED
  BY <1>1, TreeInductive, PTL

\* A worktree goes with the work on its subtask (executor.go:325).  It stays only
\* where the process dies or its context is cancelled: with a subtask to be run
\* again, or with one the hook settles although cancelled, having nothing to review.
THEOREM WorktreesGo == Spec => WorktreesGoWithPass
<1>1. ASSUME WInv, WInv', [Next]_vars PROVE \A s \in Subtask : WorktreeGoes(s)
  <2> SUFFICES ASSUME NEW s \in Subtask, InFlight(s), ~ InFlight(s)', worktree'[s] # NoTree
               PROVE  \/ stage'[s] = "pending" /\ (cancelled \/ faults' # faults)
                      \/ stage'[s] = "done" /\ cancelled /\ ~ reviewing
    BY DEF WorktreeGoes
  <2>1. /\ process = "executing" /\ stage'[s] # stage[s]
        /\ stage[s] \notin {"pending", "done", "failed"}
        /\ stage'[s] \in {"pending", "done"}
    BY <1>1 DEF WInv, AtRest, CleanedUp, InFlight
  <2>2. CASE RunEnds \/ Crash
    <3>1. stage' = [t \in Subtask |-> IF InFlight(t) THEN "pending" ELSE stage[t]]
      BY <2>2 DEF RunEnds, Crash, End
    <3>2. stage'[s] = "pending"
      BY <3>1
    <3>3. CASE RunEnds
      BY <1>1, <2>1, <3>2, <3>3 DEF RunEnds, WInv, CutShort
    <3>4. CASE Crash
      <4>1. faults' = faults + 1 /\ faults \in Nat
        BY <1>1, <3>4 DEF Crash, Fault, WInv, TypeOK
      <4> QED
        BY <3>2, <4>1
    <3> QED
      BY <2>2, <3>3, <3>4
  <2>3. ASSUME NEW t \in Subtask, Work(t)
        PROVE  stage'[s] = "done" /\ cancelled /\ ~ reviewing
    <3>1. /\ \/ Review(t) \/ Judge(t)
          /\ t = s
      <4>1. ASSUME NEW v, MoveTo(t, v)
            PROVE  t = s /\ v \in {"pending", "done"}
        BY <2>1, <4>1, <1>1, WorkTyped DEF MoveTo
      <4>2. ~ Abandon(t) /\ ~ Return(t)
        BY <4>1 DEF Abandon, Return
      <4>3. ~ Begin(t)
        BY <4>1 DEF Begin, FirstStep
      <4>4. ~ Provision(t) /\ ~ SnapshotBefore(t) /\ ~ ManifestBefore(t) /\ ~ SnapshotAfter(t)
        BY <4>1, <4>2 DEF Provision, SnapshotBefore, ManifestBefore, SnapshotAfter
      <4>5. ~ AgentReturns(t) /\ ~ RecordUndeclared(t)
        BY <4>1, <4>2 DEF AgentReturns, RecordUndeclared
      <4>6. ~ PersistDiff(t) /\ ~ Reconcile(t)
        BY <2>1, <4>1, <4>2 DEF PersistDiff, Reconcile
      <4>7. \A p \in Path : ~ AgentEdits(t, p)
        BY <2>1 DEF AgentEdits
      <4>8. Review(t) \/ Judge(t)
        BY <2>3, <4>3, <4>4, <4>5, <4>6, <4>7 DEF Work
      <4>9. t = s
        BY <4>1, <4>8 DEF Review, Judge, Settle, FailReview
      <4> QED
        BY <4>8, <4>9
    <3>2. worktree' = worktree
      BY <3>1 DEF Review, Judge, treeVars
    <3>3. stage[s] = "review" /\ cancelled
      BY <1>1, <3>1, <3>2 DEF Review, Judge, StageIs, WInv, CleanedUp
    <3>4. ~ reviewing /\ stage'[s] = "done"
      BY <1>1, <2>1, <3>1, <3>3, WorkTyped
         DEF Review, Judge, StageIs, Settle, FailReview, MoveTo
    <3> QED
      BY <3>3, <3>4
  <2>4. ~ (Cancel \/ Resume \/ Amend \/ RemoveAdded \/ CopyBack \/ Restart \/ UNCHANGED vars)
    BY <2>1 DEF Cancel, Resume, Amend, RemoveAdded, CopyBack, Restart, Restored, vars, passVars
  <2> QED
    BY <1>1, <2>2, <2>3, <2>4 DEF Next
<1>2. WInv /\ [Next]_vars => WInv'
  BY NextKeepsWInv
<1>3. WInv /\ [Next]_vars => [\A s \in Subtask : WorktreeGoes(s)]_vars
  BY <1>1, <1>2
<1> QED
  BY <1>3, TreeInductive, PTL DEF Spec, WorktreesGoWithPass

\* A completed revert brings the files of the baseline back and, unless an agent
\* had changed what is ignored, leaves nothing for the full diff to show
\* (restore.go), also if it broke off any number of times before.
THEOREM RevertsUndo == Spec => []AmendUndoes
<1>1. WInv => AmendUndoes
  <2> SUFFICES ASSUME WInv, Restored
               PROVE  /\ \A p \in Present(Baseline) : main[p] = Start[p]
                      /\ ~ rulesChanged => FullDiff = {}
    BY DEF AmendUndoes
  <2>1. /\ \A p \in Present(Baseline) : main[p] = Baseline[p]
        /\ ~ rulesChanged => /\ main[IgnoreFile] = Start[IgnoreFile]
                             /\ Listed(main) \subseteq Present(Baseline)
    BY DEF WInv, Reverting, Restored
  <2>2. \A p \in Present(Baseline) : main[p] = Start[p] /\ p \in Listed(Start)
    BY <2>1, BaselineIsStart
  <2>3. ASSUME ~ rulesChanged PROVE FullDiff = {}
    <3> SUFFICES ASSUME NEW p \in Path
                 PROVE  Baseline[p] = Snapshot(main, Listed(main))[p]
      BY DEF FullDiff, Diff
    <3>1. main \in Tree
      BY DEF WInv, TypeOK
    <3>2. CASE p \in Present(Baseline)
      <4>1. p \in Listed(main)
        BY <2>1, <2>2, <2>3, <3>2 DEF Listed, Present, IgnoredIn
      <4> QED
        BY <2>1, <3>1, <3>2, <4>1, SnapshotIsTree
    <3>3. CASE p \notin Present(Baseline)
      <4>1. p \notin Listed(main) /\ Baseline[p] = NoFile
        BY <2>1, <2>3, <3>3 DEF Present
      <4> QED
        BY <3>1, <4>1, SnapshotIsTree
    <3> QED
      BY <3>2, <3>3
  <2> QED
    BY <2>2, <2>3
<1> QED
  BY <1>1, TreeInductive, PTL

===========================================================================
