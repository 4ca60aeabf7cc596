------------------------ MODULE RunLifecycleProofs ------------------------
(***************************************************************************)
(* Proofs about RunLifecycle and the engine in it, for every plan and      *)
(* every configuration their assumptions allow.                            *)
(*                                                                         *)
(* PART 1 is about the engine by itself (Spec of Scheduler): the safety    *)
(* properties that the runs check on small plans, and that it implements   *)
(* TaskGraph.  There are two inductive invariants.  IInv is about the      *)
(* batch and the two copies of the record: they differ only while a batch  *)
(* runs whose join is going to return an error, so whatever Run decides    *)
(* next is read from run.yaml.  Settled, on top of it (SInv), says what    *)
(* the place of each worker tells of its subtask in both copies; the       *)
(* refinement, the remediation budget, the pause boundary and the          *)
(* permanence of a done subtask rest on it.                                *)
(*                                                                         *)
(* PART 2 is about the whole run (LifecycleSpec): its phases keep their    *)
(* order, its record never goes back, and a dry process fails nothing.     *)
(* The engine's two invariants hold around it as well; LInv adds what a    *)
(* record says by itself of the phase it was left in (RecordInv), and      *)
(* what the process has read, saved and been told when it is at each of    *)
(* its places.                                                             *)
(***************************************************************************)
EXTENDS RunLifecycle, TLAPS, FiniteSetTheorems

-----------------------------------------------------------------------------
(***************************************************************************)
(* PART 1.  The engine.                                                    *)
(***************************************************************************)

\* The worker states that make the join return an error, or may yet.
Erring == {"failing", "canceled", "broken"}

-----------------------------------------------------------------------------
(* The inductive invariant behind the safety properties.                   *)

\* Workers exist only during a batch, and only for its members.
WorkersInBatch ==
  /\ pc # "join" => batch = {} /\ Holders = {}
  /\ \A s \in Subtask : pc = "join" /\ s \notin batch => wpc[s] = "idle"

BatchConflictFree == \A s, t \in batch : s # t => ~ Conflict(s, t)

\* The dependencies of a batch lie outside it and are done, in both copies.
BatchDepsDone ==
  \A s \in batch : \A d \in Deps[s] :
    d \notin batch /\ mem.st[d] = "done" /\ disk.st[d] = "done"

\* The slots of runBatch's semaphore.
SlotsBounded == Cardinality(Holders) <= effectiveMaxParallel

\* While a batch runs, the copies differ only if some worker met an error.
DirtyMeansError ==
  pc = "join" /\ mem # disk =>
    \E s \in batch : wpc[s] \in Erring

IInv ==
  /\ TypeOK /\ WorkersInBatch /\ BatchConflictFree /\ BatchDepsDone
  /\ DirtyMeansError /\ DecidesOnDurableState /\ SlotsBounded

-----------------------------------------------------------------------------
(* The second invariant: what each worker's place says of the two records  *)
(* of its subtask.  The refinement, the budget, the pause boundary and the *)
(* permanence of done rest on it.                                          *)

\* What was started and has no outcome yet, or an outcome whose save failed.
Worked == {"implementing", "reviewing", "done"}

\* Both copies say the same of a subtask.
Same(s) ==
  /\ mem.st[s] = disk.st[s]
  /\ mem.loops[s] = disk.loops[s] /\ mem.open[s] = disk.open[s]

\* In flight, the record says what the worker does.
FlightInv(s) ==
  /\ wpc[s] = "spawned" => mem.st[s] = "pending"
  /\ wpc[s] \in {"executing", "review", "remediating"} => mem.st[s] = "implementing"
  /\ wpc[s] = "reviewing" => mem.st[s] = "reviewing"

\* After an error the copies may differ, in few ways: the last save of the
\* subtask failed, and a sibling's may since have written the change.
ErrorInv(s) ==
  /\ wpc[s] = "failing" => {mem.st[s], disk.st[s]} \subseteq Worked
  /\ wpc[s] = "canceled" => \/ {mem.st[s], disk.st[s]} = {"pending"}
                            \/ {mem.st[s], disk.st[s]} \subseteq Worked
  /\ wpc[s] = "broken" =>
       \/ mem.st[s] = "implementing" /\ disk.st[s] \in {"pending", "implementing"}
       \/ mem.st[s] = "failed" /\ disk.st[s] \in Worked \cup {"failed"}

\* A worker without an error leaves nothing that is not on disk, and one that is
\* not in flight nothing half done.
BatchInv(s) ==
  pc = "join" =>
    /\ wpc[s] \notin Erring => Same(s)
    /\ wpc[s] = "finished" => IsTerminal(mem.st[s])
    /\ wpc[s] = "idle" => ~ IsInterrupted(mem.st[s])

\* Only a batch, or an engine that has returned its error, knows of errors.
PlaceInv(s) ==
  /\ pc \notin {"join", "returned"} => wpc[s] \in {"idle", "finished"}
  /\ pc = "returned" => wpc[s] \in {"idle"} \cup Ended

\* The dependencies of what was started are done for good.
DepsInv(s) ==
  wpc[s] \notin {"idle", "finished"} =>
    \A d \in Deps[s] : wpc[d] = "idle" /\ mem.st[d] = "done" /\ disk.st[d] = "done"

WorkerInv(s) ==
  FlightInv(s) /\ ErrorInv(s) /\ BatchInv(s) /\ PlaceInv(s) /\ DepsInv(s)

\* The remediation budget, in any copy of the record.
InBudget(run) ==
  MaxLoops >= 0 =>
    \A s \in Subtask : run.loops[s] <= MaxLoops /\ (run.open[s] => run.loops[s] = MaxLoops)

\* What the status says between two steps of Run.
StatusInv ==
  /\ pc = "begin" => mem = disk
  /\ pc \in {"top", "decide", "join"} => mem.status = "executing" /\ disk.status = "executing"
  /\ pc \in {"top", "decide"} => \A s \in Subtask : ~ IsInterrupted(mem.st[s])

\* What is done on disk, by a worker without an error, is done in memory.
DoneAgrees ==
  \A s \in Subtask : disk.st[s] = "done" /\ wpc[s] \notin Erring => Same(s)

\* The strengthening that StatusInv and the rest need of each other.
Settled ==
  /\ StatusInv /\ DoneAgrees /\ InBudget(mem) /\ InBudget(disk)
  /\ \A s \in Subtask : WorkerInv(s)
  /\ PausedIsBoundary

SInv == IInv /\ Settled

-----------------------------------------------------------------------------
(* The cap and the set of slot holders.                                    *)

\* The normalised limit is at least one, whatever the configuration says.
LEMMA CapPositive == effectiveMaxParallel \in Nat /\ effectiveMaxParallel >= 1
<1>1. MaxParallel \in Int
  BY ConfigAssumption
<1>2. effectiveMaxParallel \in {1} \cup {n \in Int : n = MaxParallel /\ n >= 1}
  <2>1. CASE Parallel /\ MaxParallel >= 1
    BY <1>1, <2>1 DEF effectiveMaxParallel
  <2>2. CASE ~ (Parallel /\ MaxParallel >= 1)
    BY <2>2 DEF effectiveMaxParallel
  <2> QED
    BY <2>1, <2>2
<1> QED
  BY <1>1, <1>2

\* The workers holding a slot can be counted.
LEMMA HoldersFinite == IsFiniteSet(Holders) /\ Cardinality(Holders) \in Nat
<1>1. Holders \subseteq Subtask
  BY DEF Holders
<1>2. IsFiniteSet(Holders)
  BY <1>1, ConfigAssumption, FS_Subset
<1> QED
  BY <1>2, FS_CardinalityType

\* Nobody holds a slot: the bound holds.
LEMMA NoHolders ==
  ASSUME Holders = {} PROVE SlotsBounded
<1>1. Cardinality({}) = 0
  BY FS_EmptySet
<1> QED
  BY <1>1, CapPositive DEF SlotsBounded

\* Holders that only shrink stay within the cap.
LEMMA FewerHolders ==
  ASSUME SlotsBounded, Holders' \subseteq Holders
  PROVE  SlotsBounded'
<1>1. /\ Cardinality(Holders') <= Cardinality(Holders)
      /\ Cardinality(Holders') \in Nat
  BY HoldersFinite, FS_Subset, FS_CardinalityType
<1>2. effectiveMaxParallel' = effectiveMaxParallel
  BY DEF effectiveMaxParallel
<1> QED
  BY <1>1, <1>2, HoldersFinite, CapPositive DEF SlotsBounded

\* One more holder stays within the cap when a slot was free.
LEMMA OneMoreHolder ==
  ASSUME NEW s \in Subtask, Cardinality(Holders) < effectiveMaxParallel,
         Holders' \subseteq Holders \cup {s}
  PROVE  SlotsBounded'
<1>1. /\ IsFiniteSet(Holders \cup {s})
      /\ Cardinality(Holders \cup {s}) <= Cardinality(Holders) + 1
      /\ Cardinality(Holders \cup {s}) \in Nat
  <2>1. /\ IsFiniteSet(Holders \cup {s})
        /\ Cardinality(Holders \cup {s}) =
             IF s \in Holders THEN Cardinality(Holders) ELSE Cardinality(Holders) + 1
    BY HoldersFinite, FS_AddElement
  <2> QED
    BY <2>1, HoldersFinite
<1>2. /\ Cardinality(Holders') <= Cardinality(Holders \cup {s})
      /\ Cardinality(Holders') \in Nat
  BY <1>1, FS_Subset, FS_CardinalityType
<1>3. effectiveMaxParallel' = effectiveMaxParallel
  BY DEF effectiveMaxParallel
<1> QED
  BY <1>1, <1>2, <1>3, HoldersFinite, CapPositive DEF SlotsBounded

-----------------------------------------------------------------------------
(* Records: what the worker and the main loop write is a run record, and   *)
(* a worker's write touches its own subtask only.                          *)

\* Setting a status keeps the type of the record.
LEMMA SetStType ==
  ASSUME mem \in Run, NEW s \in Subtask, NEW v \in SubtaskStatus
  PROVE  /\ SetSt(s, v) \in Run
         /\ \A t \in Subtask : t # s => SetSt(s, v).st[t] = mem.st[t]
BY DEF SetSt, Run

\* Settling a subtask keeps the type of the record.
LEMMA SettleType ==
  ASSUME mem \in Run, NEW s \in Subtask, NEW v \in BOOLEAN
  PROVE  /\ [SetSt(s, "done") EXCEPT !.open[s] = v] \in Run
         /\ \A t \in Subtask :
              t # s => [SetSt(s, "done") EXCEPT !.open[s] = v].st[t] = mem.st[t]
BY DEF SetSt, Run, SubtaskStatus

\* Counting a remediation keeps the type of the record.
LEMMA CountLoopType ==
  ASSUME mem \in Run, NEW s \in Subtask
  PROVE  LET run == [SetSt(s, "implementing") EXCEPT !.loops[s] = @ + 1]
         IN  run \in Run /\ \A t \in Subtask : t # s => run.st[t] = mem.st[t]
<1> DEFINE set == SetSt(s, "implementing")
           run == [set EXCEPT !.loops[s] = @ + 1]
<1>1. set \in Run /\ \A t \in Subtask : t # s => set.st[t] = mem.st[t]
  BY SetStType DEF SubtaskStatus
<1>2. run \in Run /\ run.st = set.st
  <2> HIDE DEF set
  <2>1. set.loops[s] + 1 \in Nat
    BY <1>1 DEF Run
  <2> QED
    BY <1>1, <2>1 DEF Run
<1> QED
  BY <1>1, <1>2

\* Setting the status of the run keeps the type of the record.
LEMMA SetStatusType ==
  ASSUME NEW run \in Run, NEW v \in RunStatus
  PROVE  [run EXCEPT !.status = v] \in Run
BY DEF Run

\* Rewinding interrupted subtasks keeps the type of the record.
LEMMA ResetType ==
  ASSUME NEW run \in Run PROVE ResetInterrupted(run) \in Run
BY DEF Run, ResetInterrupted, SubtaskStatus

\* The planned run has the type of a record.
LEMMA PlannedType == PlannedRun \in Run
<1>1. CreatedRun \in Run
  BY DEF CreatedRun, Run, RunStatus, SubtaskStatus, SeniorReviewStatus
<1> QED
  BY <1>1 DEF PlannedRun, Run, RunStatus

-----------------------------------------------------------------------------
(* The two ways a worker moves.                                            *)

\* It moves on without the owner: the invariant needs that it does not obtain
\* a slot, and that it does not forget an error.
LEMMA GotoKeeps ==
  ASSUME IInv, NEW s \in Subtask, NEW p, NEW q \in WorkerPC,
         At(s, p), Goto(s, q), UNCHANGED noOwner, UNCHANGED mainAndCtx,
         q \in Holding => p \in Holding, p \in Erring => q \in Erring
  PROVE  IInv'
<1> USE DEF IInv
<1>1. /\ wpc' = [wpc EXCEPT ![s] = q] /\ wpc \in [Subtask -> WorkerPC]
      /\ pc = "join" /\ s \in batch /\ wpc[s] = p
      /\ UNCHANGED <<mem, disk, pc, batch>>
  BY DEF At, Goto, noOwner, mainAndCtx, TypeOK
<1>2. TypeOK'
  BY <1>1 DEF TypeOK, noOwner, mainAndCtx, givenVars, markerVars
<1>3. SlotsBounded'
  <2>1. Holders' \subseteq Holders
    BY <1>1 DEF Holders
  <2> QED
    BY <2>1, FewerHolders
<1>4. WorkersInBatch' /\ BatchConflictFree' /\ BatchDepsDone'
  BY <1>1 DEF WorkersInBatch, BatchConflictFree, BatchDepsDone, Conflict
<1>5. DirtyMeansError'
  BY <1>1 DEF DirtyMeansError, Erring
<1>6. DecidesOnDurableState'
  BY <1>1 DEF DecidesOnDurableState
<1> QED
  BY <1>2, <1>3, <1>4, <1>5, <1>6

\* It commits: afterwards the copies agree, or this worker is in error.
LEMMA CommitKeeps ==
  ASSUME IInv, NEW s \in Subtask, NEW p, NEW run \in Run,
         NEW ok \in WorkerPC, NEW bad \in WorkerPC, bad \in Erring,
         At(s, p), Commit(s, run, ok, bad), UNCHANGED mainAndCtx,
         \A t \in Subtask : t # s => run.st[t] = mem.st[t],
         SlotsBounded'
  PROVE  IInv'
<1> USE DEF IInv
<1>1. /\ wpc \in [Subtask -> WorkerPC] /\ mem \in Run /\ disk \in Run
      /\ pc = "join" /\ s \in batch /\ batch \subseteq Subtask
      /\ UNCHANGED <<pc, batch>>
  BY DEF At, mainAndCtx, TypeOK
<1>2. mem' = run /\ (disk' = run \/ disk' = disk)
  BY DEF Commit, Saved, SaveFails
<1>3. \/ wpc' = [wpc EXCEPT ![s] = ok] /\ disk' = run
      \/ wpc' = [wpc EXCEPT ![s] = bad]
  BY DEF Commit, Saved, SaveFails, Goto
<1>4. TypeOK'
  <2>1. faults' \in Nat
    BY DEF Commit, Saved, SaveFails, TypeOK
  <2> QED
    BY <1>1, <1>2, <1>3, <2>1 DEF TypeOK, mainAndCtx, givenVars, markerVars
<1>5. WorkersInBatch' /\ BatchConflictFree'
  BY <1>1, <1>3 DEF WorkersInBatch, BatchConflictFree, Conflict
<1>6. BatchDepsDone'
  <2> SUFFICES ASSUME NEW t \in batch, NEW d \in Deps[t]
               PROVE  d \notin batch /\ mem'.st[d] = "done" /\ disk'.st[d] = "done"
    BY <1>1 DEF BatchDepsDone
  <2>1. d \notin batch /\ mem.st[d] = "done" /\ disk.st[d] = "done"
    BY DEF BatchDepsDone
  <2>2. d \in Subtask /\ d # s
    BY <1>1, <2>1, DepsAssumption
  <2> QED
    BY <1>2, <2>1, <2>2
<1>7. DirtyMeansError'
  BY <1>1, <1>2, <1>3 DEF DirtyMeansError, Erring
<1>8. DecidesOnDurableState'
  BY <1>1 DEF DecidesOnDurableState
<1> QED
  BY <1>4, <1>5, <1>6, <1>7, <1>8

-----------------------------------------------------------------------------
(* One lemma per kind of step: it keeps IInv.                              *)

\* A commit by a worker that holds a slot already.
LEMMA HolderCommits ==
  ASSUME IInv, NEW s \in Subtask, NEW p \in Holding, NEW run \in Run,
         NEW ok \in WorkerPC, NEW bad \in WorkerPC, bad \in Erring,
         At(s, p), Commit(s, run, ok, bad), UNCHANGED mainAndCtx,
         \A t \in Subtask : t # s => run.st[t] = mem.st[t]
  PROVE  IInv'
<1>1. Holders' \subseteq Holders
  BY DEF Holders, Commit, Goto, At, IInv, TypeOK
<1>2. SlotsBounded'
  BY <1>1, FewerHolders DEF IInv
<1> QED
  BY <1>2, CommitKeeps

\* Every step of a worker keeps the invariant.
LEMMA WorkerKeepsIInv ==
  ASSUME IInv, NEW s \in Subtask, WorkerStep(s) PROVE IInv'
<1> USE DEF WorkerPC, Erring, Holding, SubtaskStatus
<1>0. mem \in Run /\ wpc \in [Subtask -> WorkerPC]
  BY DEF IInv, TypeOK
<1>1. CASE StartSubtask(s)
  <2>1. At(s, "spawned") /\ UNCHANGED mainAndCtx
    BY <1>1 DEF StartSubtask
  <2>2. CASE /\ Cardinality(Holders) < effectiveMaxParallel
             /\ Commit(s, SetSt(s, "implementing"), "executing", "broken")
    <3>1. Holders' \subseteq Holders \cup {s}
      BY <1>0, <2>2 DEF Holders, Commit, Goto
    <3>2. SlotsBounded'
      BY <2>2, <3>1, OneMoreHolder
    <3> QED
      BY <1>0, <2>1, <2>2, <3>2, SetStType, CommitKeeps
  <2>3. CASE Goto(s, "canceled") /\ UNCHANGED noOwner
    BY <2>1, <2>3, GotoKeeps
  <2> QED
    BY <1>1, <2>2, <2>3 DEF StartSubtask
<1>2. CASE ExecutorReturns(s)
  BY <1>2, GotoKeeps DEF ExecutorReturns
<1>3. CASE EnterReview(s)
  <2>1. At(s, "review") /\ UNCHANGED mainAndCtx
    BY <1>3 DEF EnterReview
  <2>2. CASE Commit(s, SetSt(s, "done"), "finished", "failing")
    BY <1>0, <2>1, <2>2, SetStType, HolderCommits
  <2>3. CASE Commit(s, [SetSt(s, "done") EXCEPT !.open[s] = FALSE],
                    "finished", "failing")
    BY <1>0, <2>1, <2>3, SettleType, HolderCommits
  <2>4. CASE Goto(s, "failing") /\ UNCHANGED noOwner
    BY <2>1, <2>4, GotoKeeps
  <2>5. CASE Commit(s, SetSt(s, "reviewing"), "reviewing", "failing")
    BY <1>0, <2>1, <2>5, SetStType, HolderCommits
  <2> QED
    BY <1>3, <2>2, <2>3, <2>4, <2>5 DEF EnterReview
<1>4. CASE Approve(s)
  BY <1>0, <1>4, SettleType, HolderCommits DEF Approve
<1>5. CASE ProceedFlagged(s)
  <2>1. PICK flagged \in BOOLEAN :
          Commit(s, [SetSt(s, "done") EXCEPT !.open[s] = flagged], "finished", "failing")
    BY <1>5 DEF ProceedFlagged
  <2>2. At(s, "reviewing") /\ UNCHANGED mainAndCtx
    BY <1>5 DEF ProceedFlagged
  <2> DEFINE run == [SetSt(s, "done") EXCEPT !.open[s] = flagged]
  <2>3. run \in Run /\ \A t \in Subtask : t # s => run.st[t] = mem.st[t]
    BY <1>0, SettleType
  <2>4. Commit(s, run, "finished", "failing")
    BY <2>1
  <2> HIDE DEF run
  <2> QED
    BY <2>2, <2>3, <2>4, HolderCommits
<1>6. CASE Remediate(s)
  BY <1>0, <1>6, CountLoopType, HolderCommits DEF Remediate
<1>7. CASE ReviewErrs(s)
  BY <1>7, GotoKeeps DEF ReviewErrs
<1>8. CASE RemediationReturns(s)
  BY <1>8, GotoKeeps DEF RemediationReturns
<1>9. CASE SettleError(s)
  <2>1. At(s, "failing") /\ UNCHANGED mainAndCtx
    BY <1>9 DEF SettleError
  <2>2. CASE Goto(s, "canceled") /\ UNCHANGED noOwner
    BY <2>1, <2>2, GotoKeeps
  <2>3. CASE Commit(s, SetSt(s, "failed"), "finished", "broken")
    BY <1>0, <2>1, <2>3, SetStType, HolderCommits
  <2> QED
    BY <1>9, <2>2, <2>3 DEF SettleError
<1> QED
  BY <1>1, <1>2, <1>3, <1>4, <1>5, <1>6, <1>7, <1>8, <1>9
     DEF WorkerStep, AgentStep, OwnStep

\* Whatever happens outside a batch keeps IInv as long as no batch starts, the
\* types are right, and Run goes on to decide only with equal copies.
LEMMA OutsideBatch ==
  ASSUME IInv, TypeOK', pc' # "join", batch' = {}, Holders' = {},
         pc' \in {"top", "decide"} => mem' = disk'
  PROVE  IInv'
<1>1. SlotsBounded'
  BY CapPositive, FS_EmptySet DEF SlotsBounded, effectiveMaxParallel
<1> QED
  BY <1>1 DEF IInv, WorkersInBatch, BatchConflictFree, BatchDepsDone,
              DirtyMeansError, DecidesOnDurableState

\* The greedy choice is free of conflicts, whichever order it was made in.
LEMMA PickedConflictFree ==
  ASSUME NEW chosen, IsPicked(chosen)
  PROVE  \A s, t \in chosen : s # t => ~ Conflict(s, t)
<1>1. chosen \subseteq Ready /\ Ready \subseteq Subtask
  BY DEF IsPicked, Ready
<1>2. ASSUME NEW s \in chosen, NEW t \in chosen, Position[t] < Position[s]
      PROVE  ~ Conflict(s, t) /\ ~ Conflict(t, s)
  <2>1. ~ Conflict(s, t)
    BY <1>1, <1>2 DEF IsPicked
  <2>2. Conflict(t, s) => Conflict(s, t)
    BY <1>1, OverlapAssumption DEF Conflict
  <2> QED
    BY <2>1, <2>2
<1>3. ASSUME NEW s \in chosen, NEW t \in chosen, s # t
      PROVE  Position[s] < Position[t] \/ Position[t] < Position[s]
  BY <1>1, <1>3, PositionAssumption
<1> QED
  BY <1>2, <1>3

\* Picking a batch: what IsPicked chooses is free of conflicts and ready.
LEMMA SpawnKeepsIInv ==
  ASSUME IInv, SpawnBatch PROVE IInv'
<1>1. PICK chosen \in SUBSET Ready :
        /\ IsPicked(chosen) /\ batch' = chosen
        /\ wpc' = [s \in Subtask |-> IF s \in chosen THEN "spawned" ELSE "idle"]
  BY DEF SpawnBatch
<1>2. /\ pc = "decide" /\ pc' = "join" /\ mem = disk
      /\ UNCHANGED <<mem, disk, result, watcher, interrupted, stopFired,
                     dry, pauseReq, stopReq, faults, requests>>
  BY DEF SpawnBatch, IInv, DecidesOnDurableState, givenVars, markerVars
<1>3. TypeOK'
  BY <1>1, <1>2 DEF IInv, TypeOK, RunPC, WorkerPC, Ready
<1>4. Holders' = {}
  BY <1>1 DEF Holders, Holding
<1>5. SlotsBounded'
  BY <1>4, CapPositive, FS_EmptySet DEF SlotsBounded, effectiveMaxParallel
<1>6. WorkersInBatch'
  BY <1>1, <1>2 DEF WorkersInBatch
<1>7. BatchConflictFree'
  BY <1>1, PickedConflictFree DEF BatchConflictFree, Conflict
<1>8. BatchDepsDone'
  BY <1>1, <1>2 DEF BatchDepsDone, Ready
<1>9. DirtyMeansError' /\ DecidesOnDurableState'
  BY <1>2 DEF DirtyMeansError, DecidesOnDurableState
<1> QED
  BY <1>3, <1>5, <1>6, <1>7, <1>8, <1>9 DEF IInv

\* When every worker has ended, no slot is held; when none of them erred, the
\* copies agree.
LEMMA JoinKeepsIInv ==
  ASSUME IInv, JoinBatch PROVE IInv'
<1>1. /\ pc = "join" /\ batch' = {} /\ UNCHANGED <<mem, disk, wpc>>
      /\ pc' \in {"returned", "top"}
      /\ pc' = "top" => \A s \in batch : wpc[s] \notin {"canceled", "broken"}
  BY DEF JoinBatch, Return
<1>2. \A s \in batch : wpc[s] \in Ended
  BY DEF JoinBatch
<1>3. Holders' = {}
  BY <1>1, <1>2 DEF Holders, Holding, Ended, IInv, WorkersInBatch
<1>4. pc' = "top" => mem = disk
  BY <1>1, <1>2 DEF Ended, Erring, IInv, DirtyMeansError
<1>5. TypeOK'
  BY DEF JoinBatch, Return, IInv, TypeOK, RunPC, Result, givenVars, markerVars
<1> QED
  BY <1>1, <1>3, <1>4, <1>5, OutsideBatch

\* The other steps of Run: no batch before, no batch after.
LEMMA DecideKeepsIInv ==
  ASSUME IInv, Begin \/ LoopTop \/ Finalize \/ PauseAtBoundary \/ AckPause \/ Deadlock
  PROVE  IInv'
<1>1. /\ pc # "join" /\ pc' \notin {"join"} /\ UNCHANGED <<batch, wpc>>
  BY DEF Begin, LoopTop, Finalize, PauseAtBoundary, AckPause, Deadlock, Return
<1>2. batch' = {} /\ Holders' = {}
  BY <1>1 DEF IInv, WorkersInBatch, Holders
<1>3. pc' \in {"top", "decide"} => mem' = disk'
  BY DEF Begin, LoopTop, Finalize, PauseAtBoundary, AckPause, Deadlock, Return,
         Saved, IInv, DecidesOnDurableState
<1>4. TypeOK'
  <2>1. mem' \in Run /\ disk' \in Run
    <3>1. mem \in Run /\ disk \in Run
      BY DEF IInv, TypeOK
    <3>2. \A v \in RunStatus : /\ [mem EXCEPT !.status = v] \in Run
                               /\ [ResetInterrupted(mem) EXCEPT !.status = v] \in Run
      BY <3>1, SetStatusType, ResetType
    <3>3. "executing" \in RunStatus /\ "failed" \in RunStatus /\ "paused" \in RunStatus
      BY DEF RunStatus
    <3> QED
      BY <3>1, <3>2, <3>3 DEF Begin, LoopTop, Finalize, PauseAtBoundary, AckPause,
                              Deadlock, Saved, SaveFails
  <2>2. faults' \in Nat
    BY DEF Begin, LoopTop, Finalize, PauseAtBoundary, AckPause, Deadlock,
           Saved, SaveFails, IInv, TypeOK
  <2>3. pc' \in RunPC /\ result' \in Result
    BY DEF Begin, LoopTop, Finalize, PauseAtBoundary, AckPause, Deadlock,
           Return, RunPC, Result, IInv, TypeOK
  <2>4. /\ pauseReq' \in BOOLEAN
        /\ UNCHANGED <<batch, wpc, watcher, dry, interrupted, stopFired, stopReq, requests>>
    BY DEF Begin, LoopTop, Finalize, PauseAtBoundary, AckPause, Deadlock,
           givenVars, markerVars, IInv, TypeOK
  <2> QED
    BY <2>1, <2>2, <2>3, <2>4 DEF IInv, TypeOK
<1> QED
  BY <1>1, <1>2, <1>3, <1>4, OutsideBatch

\* What IInv speaks of stays as it is.
LEMMA StillIInv ==
  ASSUME IInv, TypeOK', UNCHANGED <<mem, disk, pc, batch, wpc>> PROVE IInv'
<1>1. SlotsBounded'
  BY FewerHolders DEF IInv, Holders
<1> QED
  BY <1>1 DEF IInv, WorkersInBatch, BatchConflictFree, BatchDepsDone,
     DirtyMeansError, DecidesOnDurableState, Holders, Conflict

\* Watcher, user requests and Invoke leave the copies, the batch and its
\* workers alone (Invoke reads run.yaml when no Run is active).
LEMMA AsideKeepsIInv ==
  ASSUME IInv, WatcherStep \/ UserStep \/ Invoke PROVE IInv'
<1> USE DEF WatcherStep, WatcherClears, WatcherCancels, WatcherExits,
            UserStep, Signal, RequestStop, RequestPause, Requestable, Invoke
<1>1. TypeOK'
  <2>1. CASE WatcherStep
    BY <2>1 DEF IInv, TypeOK, givenVars, markerVars
  <2>2. CASE Signal
    BY <2>2 DEF IInv, TypeOK, givenVars, markerVars
  <2>3. CASE RequestStop \/ RequestPause
    <3>1. /\ UNCHANGED <<mem, disk, pc, batch, wpc, result, watcher, dry, interrupted,
                         stopFired, faults>>
          /\ requests' = requests + 1
      BY <2>3 DEF progVars
    <3>2. stopReq' \in BOOLEAN /\ pauseReq' \in BOOLEAN
      BY <2>3 DEF IInv, TypeOK
    <3> QED
      BY <3>1, <3>2 DEF IInv, TypeOK
  <2>4. CASE Invoke
    BY <2>4, ConfigAssumption DEF IInv, TypeOK, RunPC, markerVars
  <2> QED
    BY <2>1, <2>2, <2>3, <2>4
<1>2. CASE Invoke
  <2>1. batch' = {} /\ Holders' = {}
    BY <1>2 DEF IInv, WorkersInBatch, Holders
  <2> QED
    BY <1>1, <1>2, <2>1, OutsideBatch
<1>3. CASE WatcherStep \/ UserStep
  <2>1. UNCHANGED <<mem, disk, pc, batch, wpc>>
    BY <1>3 DEF progVars
  <2> QED
    BY <1>1, <2>1, StillIInv
<1> QED
  BY <1>2, <1>3

\* A process that dies leaves no batch behind.
LEMMA GoneKeepsIInv ==
  ASSUME IInv, ProcessGone, faults' \in Nat PROVE IInv'
<1>2. TypeOK'
  BY DEF ProcessGone, IInv, TypeOK, RunPC, WorkerPC, Result, markerVars
<1>3. Holders' = {}
  BY DEF ProcessGone, Holders, Holding
<1> QED
  BY <1>2, <1>3, OutsideBatch DEF ProcessGone

-----------------------------------------------------------------------------
(* The theorems.                                                           *)

\* The invariant holds before the first step.
LEMMA InitIInv == Init => IInv
<1> SUFFICES ASSUME Init PROVE IInv
  OBVIOUS
<1>1. TypeOK
  BY PlannedType DEF Init, TypeOK, RunPC, WorkerPC, Result
<1>2. Holders = {}
  BY DEF Init, Holders, Holding
<1> QED
  BY <1>1, <1>2, NoHolders DEF Init, IInv, WorkersInBatch, BatchConflictFree,
     BatchDepsDone, DirtyMeansError, DecidesOnDurableState

\* Every step of the engine, its workers and its environment keeps it.
LEMMA NextKeepsIInv == IInv /\ [Next]_vars => IInv'
<1> SUFFICES ASSUME IInv, [Next]_vars PROVE IInv'
  OBVIOUS
<1>1. CASE MainStep
  BY <1>1, SpawnKeepsIInv, JoinKeepsIInv, DecideKeepsIInv DEF MainStep
<1>2. CASE \E s \in Subtask : WorkerStep(s)
  BY <1>2, WorkerKeepsIInv
<1>3. CASE WatcherStep \/ UserStep \/ Invoke
  BY <1>3, AsideKeepsIInv
<1>4. CASE Crash \/ Exit
  BY <1>4, GoneKeepsIInv DEF Crash, Exit, IInv, TypeOK
<1>5. CASE UNCHANGED vars
  <2>1. UNCHANGED <<mem, disk, pc, batch, wpc, result, watcher, interrupted,
                    stopFired, dry, pauseReq, stopReq, faults, requests>>
    BY <1>5 DEF vars, progVars, givenVars, markerVars
  <2>2. TypeOK'
    BY <2>1 DEF IInv, TypeOK
  <2> QED
    BY <2>1, <2>2, StillIInv
<1> QED
  BY <1>1, <1>2, <1>3, <1>4, <1>5 DEF Next, RunStep

\* IInv holds in every reachable state of the engine.
THEOREM Inductive == Spec => []IInv
<1>1. Init => IInv
  BY InitIInv
<1>2. IInv /\ [Next]_vars => IInv'
  BY NextKeepsIInv
<1> QED
  BY <1>1, <1>2, PTL DEF Spec

\* Type correctness: run.yaml and the copy in memory always hold a run record,
\* and every goroutine is at one of its places.
THEOREM TypeCorrect == Spec => []TypeOK
<1>1. IInv => TypeOK
  BY DEF IInv
<1> QED
  BY <1>1, Inductive, PTL

\* What the invariant says of the workers, in the words of the properties.
LEMMA IInvIsSafe ==
  ASSUME IInv PROVE NoConflictInFlight /\ DepsDurablyDone /\ BoundedParallelism
<1>1. NoConflictInFlight
  BY DEF IInv, WorkersInBatch, BatchConflictFree, NoConflictInFlight, Holders, Holding
<1>2. DepsDurablyDone
  BY DEF IInv, WorkersInBatch, BatchDepsDone, DepsDurablyDone, Holders, Holding
<1>3. BoundedParallelism
  <2>1. SlotsBounded /\ MaxParallel \in Int
    BY ConfigAssumption DEF IInv
  <2>2. CASE Parallel /\ MaxParallel >= 1
    <3>1. effectiveMaxParallel = MaxParallel
      BY <2>2 DEF effectiveMaxParallel
    <3> QED
      BY <2>1, <2>2, <3>1 DEF SlotsBounded, BoundedParallelism
  <2>3. CASE ~ (Parallel /\ MaxParallel >= 1)
    <3>1. effectiveMaxParallel = 1
      BY <2>3 DEF effectiveMaxParallel
    <3>2. Cardinality(Holders) <= 1
      BY <2>1, <3>1 DEF SlotsBounded
    <3>3. ~ (Cardinality(Holders) > 1)
      BY <3>2, HoldersFinite
    <3> QED
      BY <3>3 DEF BoundedParallelism
  <2> QED
    BY <2>2, <2>3
<1> QED
  BY <1>1, <1>2, <1>3

\* No two subtasks whose declared files may meet are in flight together: a
\* batch was picked without conflicts and only its members work.
THEOREM NeverConflicting == Spec => []NoConflictInFlight
<1>1. IInv => NoConflictInFlight
  BY IInvIsSafe
<1> QED
  BY <1>1, Inductive, PTL

\* A subtask is worked on only while its dependencies are done in run.yaml:
\* a batch is picked from a record that was saved, and a dependency of a
\* member is never a member.
THEOREM DependenciesFirst == Spec => []DepsDurablyDone
<1>1. IInv => DepsDurablyDone
  BY IInvIsSafe
<1> QED
  BY <1>1, Inductive, PTL

\* Several subtasks are worked on together only if the configuration asks for
\* it, and at most maxParallel of them: every one of them holds a slot.
THEOREM NeverOverParallel == Spec => []BoundedParallelism
<1>1. IInv => BoundedParallelism
  BY IInvIsSafe
<1> QED
  BY <1>1, Inductive, PTL

\* Run decides only on state that is in run.yaml, saves failing or not.
THEOREM DecisionsDurable == Spec => []DecidesOnDurableState
<1>1. IInv => DecidesOnDurableState
  BY DEF IInv
<1> QED
  BY <1>1, Inductive, PTL

-----------------------------------------------------------------------------
(* Settled is kept by the workers.                                         *)

\* What the engine never writes: the plan is there, and how it was reviewed.
Aside(run, old) ==
  /\ run.planned = old.planned /\ run.senior = old.senior
  /\ run.rounds = old.rounds /\ run.seniorOpen = old.seniorOpen

\* run is the record in memory with the entry of s set, and nothing else.
Writes(run, s, v, n, o) ==
  /\ run \in Run /\ run.status = mem.status /\ Aside(run, mem)
  /\ run.st[s] = v /\ run.loops[s] = n /\ run.open[s] = o
  /\ \A t \in Subtask : t # s => /\ run.st[t] = mem.st[t]
                                 /\ run.loops[t] = mem.loops[t] /\ run.open[t] = mem.open[t]

\* Setting a status leaves every other part of the record alone.
LEMMA SetStWrites ==
  ASSUME mem \in Run, NEW s \in Subtask, NEW v \in SubtaskStatus
  PROVE  Writes(SetSt(s, v), s, v, mem.loops[s], mem.open[s])
BY DEF Writes, Aside, SetSt, Run

\* Settling writes status and open findings of one subtask.
LEMMA SettleWrites ==
  ASSUME mem \in Run, NEW s \in Subtask, NEW o \in BOOLEAN
  PROVE  Writes([SetSt(s, "done") EXCEPT !.open[s] = o], s, "done", mem.loops[s], o)
BY DEF Writes, Aside, SetSt, Run, SubtaskStatus

\* Counting writes the loop counter of one subtask.
LEMMA CountLoopWrites ==
  ASSUME mem \in Run, NEW s \in Subtask
  PROVE  Writes([SetSt(s, "implementing") EXCEPT !.loops[s] = @ + 1],
                s, "implementing", mem.loops[s] + 1, mem.open[s])
<1> DEFINE set == SetSt(s, "implementing")
           run == [set EXCEPT !.loops[s] = @ + 1]
<1>1. Writes(set, s, "implementing", mem.loops[s], mem.open[s]) /\ set \in Run
  BY SetStWrites DEF SubtaskStatus, Writes
<1>2. /\ run \in Run /\ run.st = set.st /\ run.open = set.open /\ run.status = set.status
      /\ Aside(run, set)
      /\ run.loops[s] = set.loops[s] + 1
      /\ \A t \in Subtask : t # s => run.loops[t] = set.loops[t]
  <2> HIDE DEF set
  <2>1. set.loops[s] + 1 \in Nat
    BY <1>1 DEF Run
  <2> QED
    BY <1>1, <2>1 DEF Run, Aside
<1>3. Writes(run, s, "implementing", mem.loops[s] + 1, mem.open[s])
  <2> HIDE DEF set, run
  <2> QED
    BY <1>1, <1>2 DEF Writes, Aside
<1> QED
  BY <1>3

\* A step of one worker leaves what Settled says of the others alone, though its
\* save may bring their unsaved changes to the disk.
LEMMA OthersStay ==
  ASSUME SInv, NEW s \in Subtask, NEW p, NEW q \in WorkerPC, NEW v, NEW n, NEW o,
         At(s, p), p \notin {"idle", "finished"}, Goto(s, q),
         pc' = pc, Writes(mem', s, v, n, o), disk' \in {disk, mem'},
         FlightInv(s)', ErrorInv(s)', BatchInv(s)',
         MaxLoops >= 0 => n <= MaxLoops /\ (o => n = MaxLoops)
  PROVE  Settled'
<1>1. /\ pc = "join" /\ pc' = "join" /\ s \in batch /\ wpc[s] = p
      /\ wpc' = [wpc EXCEPT ![s] = q] /\ wpc \in [Subtask -> WorkerPC]
      /\ wpc'[s] = q
  BY DEF At, Goto, SInv, IInv, TypeOK
<1>2. ASSUME NEW t \in Subtask, t # s
      PROVE  /\ wpc'[t] = wpc[t] /\ mem'.st[t] = mem.st[t]
             /\ mem'.loops[t] = mem.loops[t] /\ mem'.open[t] = mem.open[t]
             /\ \/ disk'.st[t] = disk.st[t] /\ disk'.loops[t] = disk.loops[t]
                                            /\ disk'.open[t] = disk.open[t]
                \/ disk'.st[t] = mem.st[t] /\ disk'.loops[t] = mem.loops[t]
                                           /\ disk'.open[t] = mem.open[t]
  BY <1>1, <1>2 DEF Writes
<1>3. ASSUME NEW t \in Subtask PROVE WorkerInv(t)
  BY <1>3 DEF SInv, Settled
<1>4. ASSUME NEW t \in Subtask PROVE WorkerInv(t)'
  <2>1. FlightInv(t)' /\ ErrorInv(t)' /\ BatchInv(t)'
    <3>1. CASE t = s
      BY <3>1
    <3>2. CASE t # s
      <4>1. FlightInv(t)'
        BY <1>2, <1>3, <3>2 DEF WorkerInv, FlightInv
      <4>2. ErrorInv(t)'
        BY <1>2, <1>3, <3>2 DEF WorkerInv, ErrorInv, Worked
      <4>3. BatchInv(t)'
        BY <1>1, <1>2, <1>3, <3>2 DEF WorkerInv, BatchInv, Same
      <4> QED
        BY <4>1, <4>2, <4>3
    <3> QED
      BY <3>1, <3>2
  <2>2. PlaceInv(t)'
    BY <1>1 DEF PlaceInv
  <2>3. DepsInv(t)'
    <3> SUFFICES ASSUME wpc'[t] \notin {"idle", "finished"}, NEW d \in Deps[t]
                 PROVE  wpc'[d] = "idle" /\ mem'.st[d] = "done" /\ disk'.st[d] = "done"
      BY DEF DepsInv
    <3>1. wpc[t] \notin {"idle", "finished"}
      BY <1>1, <1>2
    <3>2. wpc[d] = "idle" /\ mem.st[d] = "done" /\ disk.st[d] = "done"
      BY <1>3, <3>1 DEF WorkerInv, DepsInv
    <3>3. d \in Subtask /\ d # s
      BY <1>1, <3>2, DepsAssumption
    <3> QED
      BY <1>2, <3>2, <3>3
  <2> QED
    BY <2>1, <2>2, <2>3 DEF WorkerInv
<1>5. InBudget(mem')
  BY <1>2, <1>3 DEF SInv, Settled, InBudget, Writes
<1>6. InBudget(disk')
  BY <1>5 DEF SInv, Settled, InBudget
<1>7. mem'.status = "executing" /\ disk'.status = "executing"
  BY <1>1 DEF SInv, Settled, StatusInv, Writes
<1>8. StatusInv' /\ PausedIsBoundary'
  BY <1>1, <1>7 DEF StatusInv, PausedIsBoundary
<1>9. DoneAgrees'
  BY <1>1, <1>4 DEF DoneAgrees, WorkerInv, BatchInv
<1> QED
  BY <1>4, <1>5, <1>6, <1>8, <1>9 DEF Settled, InBudget

\* A commit that leaves the record fitting the worker's next place, whether it
\* is saved or not.
LEMMA CommitStaysSettled ==
  ASSUME SInv, NEW s \in Subtask, NEW p, NEW run, NEW v, NEW n, NEW o,
         NEW ok \in WorkerPC, NEW bad \in WorkerPC,
         At(s, p), p \notin {"idle", "finished"},
         Commit(s, run, ok, bad), UNCHANGED mainAndCtx, Writes(run, s, v, n, o),
         MaxLoops >= 0 => n <= MaxLoops /\ (o => n = MaxLoops),
         \/ ok \in {"executing", "remediating"} /\ v = "implementing"
         \/ ok = "reviewing" /\ v = "reviewing"
         \/ ok = "finished" /\ v \in {"done", "failed"},
         \/ bad = "failing" /\ {v, disk.st[s]} \subseteq Worked
         \/ bad = "broken" /\ v = "implementing" /\ disk.st[s] = "pending"
         \/ bad = "broken" /\ v = "failed" /\ disk.st[s] \in Worked
  PROVE  Settled'
<1>1. mem' = run /\ pc' = pc /\ wpc \in [Subtask -> WorkerPC]
  BY DEF Commit, Saved, SaveFails, mainAndCtx, SInv, IInv, TypeOK
<1>2. mem'.st[s] = v /\ mem'.loops[s] = n /\ mem'.open[s] = o
  BY <1>1 DEF Writes
<1>3. CASE Saved(run) /\ Goto(s, ok)
  <2>1. wpc'[s] = ok /\ disk' = mem'
    BY <1>1, <1>3 DEF Goto, Saved
  <2>2. FlightInv(s)' /\ ErrorInv(s)'
    BY <1>2, <2>1 DEF FlightInv, ErrorInv
  <2>3. BatchInv(s)'
    BY <1>2, <2>1 DEF BatchInv, Same, IsTerminal
  <2> QED
    BY <1>1, <1>3, <2>1, <2>2, <2>3, OthersStay
<1>4. CASE SaveFails(run) /\ Goto(s, bad)
  <2>1. wpc'[s] = bad /\ disk' = disk
    BY <1>1, <1>4 DEF Goto, SaveFails
  <2>2. FlightInv(s)' /\ ErrorInv(s)'
    BY <1>2, <2>1 DEF FlightInv, ErrorInv, Worked
  <2>3. BatchInv(s)'
    BY <2>1 DEF BatchInv, Erring
  <2> QED
    BY <1>1, <1>4, <2>1, <2>2, <2>3, OthersStay
<1> QED
  BY <1>3, <1>4 DEF Commit

\* A worker that goes on without the owner, or meets an error.
LEMMA GotoStaysSettled ==
  ASSUME SInv, NEW s \in Subtask, NEW p, NEW q \in WorkerPC,
         At(s, p), Goto(s, q), UNCHANGED noOwner, UNCHANGED mainAndCtx,
         \/ p \in {"executing", "remediating"} /\ q = "review"
         \/ p \in {"executing", "remediating", "review", "reviewing"} /\ q = "failing"
         \/ p \in {"spawned", "failing"} /\ q = "canceled"
  PROVE  Settled'
<1>1. /\ mem' = mem /\ disk' = disk /\ pc' = pc /\ wpc'[s] = q /\ pc = "join" /\ wpc[s] = p
      /\ mem \in Run
  BY DEF At, Goto, noOwner, mainAndCtx, SInv, IInv, TypeOK
<1>2. WorkerInv(s) /\ InBudget(mem)
  BY DEF SInv, Settled
<1>3. Writes(mem', s, mem.st[s], mem.loops[s], mem.open[s])
  BY <1>1 DEF Writes, Aside
<1>4. p \notin Erring => Same(s)
  BY <1>1, <1>2 DEF WorkerInv, BatchInv
<1>5. FlightInv(s)' /\ ErrorInv(s)'
  BY <1>1, <1>2, <1>4 DEF FlightInv, ErrorInv, WorkerInv, Worked, Same, Erring
<1>6. BatchInv(s)'
  BY <1>1, <1>4 DEF BatchInv, Same, Erring
<1>7. MaxLoops >= 0 =>
        mem.loops[s] <= MaxLoops /\ (mem.open[s] => mem.loops[s] = MaxLoops)
  BY <1>2 DEF InBudget
<1> QED
  BY <1>1, <1>3, <1>5, <1>6, <1>7, OthersStay

\* Every step of a worker keeps the second invariant.
LEMMA WorkerStaysSettled ==
  ASSUME SInv, NEW s \in Subtask, WorkerStep(s) PROVE Settled'
<1> USE DEF WorkerPC, SubtaskStatus
<1>0. mem \in Run
  BY DEF SInv, IInv, TypeOK
<1>1. WorkerInv(s)
  BY DEF SInv, Settled
<1>2. MaxLoops >= 0 =>
        mem.loops[s] <= MaxLoops /\ (mem.open[s] => mem.loops[s] = MaxLoops)
  BY DEF SInv, Settled, InBudget
<1>3. MaxLoops \in Int /\ mem.loops[s] \in Nat /\ mem.open[s] \in BOOLEAN
  BY <1>0, ConfigAssumption DEF Run
<1>4. \A p : At(s, p) /\ p \notin Erring => mem.st[s] = disk.st[s]
  BY <1>1 DEF WorkerInv, BatchInv, Same, At
<1>5. CASE StartSubtask(s)
  <2>1. At(s, "spawned") /\ UNCHANGED mainAndCtx
    BY <1>5 DEF StartSubtask
  <2>2. CASE Commit(s, SetSt(s, "implementing"), "executing", "broken")
    <3>1. disk.st[s] = "pending"
      BY <1>1, <1>4, <2>1 DEF WorkerInv, FlightInv, At, Erring
    <3>2. Writes(SetSt(s, "implementing"), s, "implementing", mem.loops[s], mem.open[s])
      BY <1>0, SetStWrites
    <3> QED
      BY <1>2, <2>1, <2>2, <3>1, <3>2, CommitStaysSettled
  <2>3. CASE Goto(s, "canceled") /\ UNCHANGED noOwner
    BY <2>1, <2>3, GotoStaysSettled
  <2> QED
    BY <1>5, <2>2, <2>3 DEF StartSubtask
<1>6. CASE ExecutorReturns(s)
  BY <1>6, GotoStaysSettled DEF ExecutorReturns
<1>7. CASE EnterReview(s)
  <2>1. At(s, "review") /\ UNCHANGED mainAndCtx
    BY <1>7 DEF EnterReview
  <2>2. disk.st[s] = "implementing"
    BY <1>1, <1>4, <2>1 DEF WorkerInv, FlightInv, At, Erring
  <2>3. CASE Commit(s, SetSt(s, "done"), "finished", "failing")
    <3>1. Writes(SetSt(s, "done"), s, "done", mem.loops[s], mem.open[s])
      BY <1>0, SetStWrites
    <3> QED
      BY <1>2, <2>1, <2>2, <2>3, <3>1, CommitStaysSettled DEF Worked
  <2>4. CASE Commit(s, [SetSt(s, "done") EXCEPT !.open[s] = FALSE], "finished", "failing")
    <3>1. Writes([SetSt(s, "done") EXCEPT !.open[s] = FALSE], s, "done", mem.loops[s], FALSE)
      BY <1>0, SettleWrites
    <3> QED
      BY <1>2, <2>1, <2>2, <2>4, <3>1, CommitStaysSettled DEF Worked
  <2>5. CASE Goto(s, "failing") /\ UNCHANGED noOwner
    BY <2>1, <2>5, GotoStaysSettled
  <2>6. CASE Commit(s, SetSt(s, "reviewing"), "reviewing", "failing")
    <3>1. Writes(SetSt(s, "reviewing"), s, "reviewing", mem.loops[s], mem.open[s])
      BY <1>0, SetStWrites
    <3> QED
      BY <1>2, <2>1, <2>2, <2>6, <3>1, CommitStaysSettled DEF Worked
  <2> QED
    BY <1>7, <2>3, <2>4, <2>5, <2>6 DEF EnterReview
<1>8. ASSUME At(s, "reviewing") PROVE disk.st[s] = "reviewing"
  BY <1>1, <1>4, <1>8 DEF WorkerInv, FlightInv, At, Erring
<1>9. CASE Approve(s)
  <2>1. Writes([SetSt(s, "done") EXCEPT !.open[s] = FALSE], s, "done", mem.loops[s], FALSE)
    BY <1>0, SettleWrites
  <2> QED
    BY <1>2, <1>8, <1>9, <2>1, CommitStaysSettled DEF Approve, Worked
<1>10. CASE ProceedFlagged(s)
  <2>1. PICK flagged \in BOOLEAN :
          Commit(s, [SetSt(s, "done") EXCEPT !.open[s] = flagged], "finished", "failing")
    BY <1>10 DEF ProceedFlagged
  <2> DEFINE run == [SetSt(s, "done") EXCEPT !.open[s] = flagged]
  <2>2. Commit(s, run, "finished", "failing")
    BY <2>1
  <2>3. Writes(run, s, "done", mem.loops[s], flagged)
    BY <1>0, SettleWrites
  <2>4. MaxLoops >= 0 => mem.loops[s] = MaxLoops
    BY <1>2, <1>3, <1>10 DEF ProceedFlagged, reachedMaxLoops
  <2>5. At(s, "reviewing") /\ UNCHANGED mainAndCtx
    BY <1>10 DEF ProceedFlagged
  <2> HIDE DEF run
  <2> QED
    BY <1>2, <1>8, <2>2, <2>3, <2>4, <2>5, CommitStaysSettled DEF Worked
<1>11. CASE Remediate(s)
  <2> DEFINE run == [SetSt(s, "implementing") EXCEPT !.loops[s] = @ + 1]
  <2>1. Commit(s, run, "remediating", "failing") /\ At(s, "reviewing") /\ UNCHANGED mainAndCtx
    BY <1>11 DEF Remediate
  <2>2. Writes(run, s, "implementing", mem.loops[s] + 1, mem.open[s])
    BY <1>0, CountLoopWrites
  <2>3. MaxLoops >= 0 =>
          mem.loops[s] + 1 <= MaxLoops /\ (mem.open[s] => mem.loops[s] + 1 = MaxLoops)
    BY <1>2, <1>3, <1>11 DEF Remediate, reachedMaxLoops
  <2> HIDE DEF run
  <2> QED
    BY <1>8, <2>1, <2>2, <2>3, CommitStaysSettled DEF Worked
<1>12. CASE ReviewErrs(s)
  BY <1>12, GotoStaysSettled DEF ReviewErrs
<1>13. CASE RemediationReturns(s)
  BY <1>13, GotoStaysSettled DEF RemediationReturns
<1>14. CASE SettleError(s)
  <2>1. At(s, "failing") /\ UNCHANGED mainAndCtx
    BY <1>14 DEF SettleError
  <2>2. CASE Goto(s, "canceled") /\ UNCHANGED noOwner
    BY <2>1, <2>2, GotoStaysSettled
  <2>3. CASE Commit(s, SetSt(s, "failed"), "finished", "broken")
    <3>1. disk.st[s] \in Worked
      BY <1>1, <2>1 DEF WorkerInv, ErrorInv, At
    <3>2. Writes(SetSt(s, "failed"), s, "failed", mem.loops[s], mem.open[s])
      BY <1>0, SetStWrites
    <3> QED
      BY <1>2, <2>1, <2>3, <3>1, <3>2, CommitStaysSettled
  <2> QED
    BY <1>14, <2>2, <2>3 DEF SettleError
<1> QED
  BY <1>5, <1>6, <1>7, <1>9, <1>10, <1>11, <1>12, <1>13, <1>14
     DEF WorkerStep, AgentStep, OwnStep

-----------------------------------------------------------------------------
(* Settled is kept by the rest of the engine.                              *)

\* Workers that are idle or finished, outside a batch, ask nothing of the record.
LEMMA QuietWorkers ==
  ASSUME pc' # "join", \A s \in Subtask : wpc'[s] \in {"idle", "finished"}
  PROVE  \A s \in Subtask : WorkerInv(s)'
BY DEF WorkerInv, FlightInv, ErrorInv, BatchInv, PlaceInv, DepsInv, Ended

\* Run's own steps between two batches write statuses only, but for Begin, which
\* rewinds what was interrupted and nothing that is done.
LEMMA DecideStaysSettled ==
  ASSUME SInv, Begin \/ LoopTop \/ Finalize \/ PauseAtBoundary \/ AckPause \/ Deadlock
  PROVE  Settled'
<1>1. /\ pc \in {"begin", "top", "decide", "ackPause"} /\ wpc' = wpc
      /\ pc' \in {"top", "decide", "ackPause", "returned"}
  BY DEF Begin, LoopTop, Finalize, PauseAtBoundary, AckPause, Deadlock, Return
<1>2. mem \in Run /\ disk \in Run
  BY DEF SInv, IInv, TypeOK
<1>3. \A s \in Subtask : wpc[s] \in {"idle", "finished"}
  BY <1>1 DEF SInv, Settled, WorkerInv, PlaceInv
<1>4. \A s \in Subtask : WorkerInv(s)'
  BY <1>1, <1>3, QuietWorkers
<1>5. Holders' = {}
  BY <1>1, <1>3 DEF Holders, Holding
<1>6. CASE Begin
  <2> DEFINE run == [ResetInterrupted(mem) EXCEPT !.status = "executing"]
  <2>1. /\ run.status = "executing" /\ run.loops = mem.loops /\ run.open = mem.open
        /\ \A s \in Subtask : /\ ~ IsInterrupted(run.st[s])
                              /\ mem.st[s] = "done" => run.st[s] = "done"
    BY <1>2 DEF ResetInterrupted, Run, IsInterrupted
  <2>2. /\ mem' = run /\ mem = disk /\ disk' \in {mem, mem'}
        /\ pc' \in {"top", "returned"} /\ (pc' = "top" => disk' = mem')
    BY <1>6 DEF Begin, Saved, SaveFails, Return, SInv, Settled, StatusInv
  <2> HIDE DEF run
  <2>3. StatusInv'
    BY <2>1, <2>2 DEF StatusInv
  <2>4. InBudget(mem)' /\ InBudget(disk)'
    BY <2>1, <2>2 DEF SInv, Settled, InBudget
  <2>5. DoneAgrees'
    BY <2>1, <2>2 DEF DoneAgrees, Same
  <2>6. PausedIsBoundary'
    <3>1. CASE disk' = mem
      BY <1>5, <2>2, <3>1 DEF SInv, Settled, PausedIsBoundary
    <3>2. CASE disk' = mem'
      BY <2>1, <2>2, <3>2 DEF PausedIsBoundary
    <3> QED
      BY <2>2, <3>1, <3>2
  <2> QED
    BY <1>4, <2>3, <2>4, <2>5, <2>6 DEF Settled
<1>7. CASE LoopTop \/ AckPause
  <2>1. /\ mem' = mem /\ disk' = disk
        /\ pc' = "decide" => pc = "top"
        /\ pc' \in {"decide", "returned"}
    BY <1>7 DEF LoopTop, AckPause, Return
  <2>2. StatusInv'
    BY <2>1 DEF SInv, Settled, StatusInv
  <2>3. DoneAgrees' /\ InBudget(mem)' /\ InBudget(disk)'
    BY <1>1, <2>1 DEF SInv, Settled, DoneAgrees, Same, InBudget
  <2>4. PausedIsBoundary'
    BY <1>5, <2>1 DEF SInv, Settled, PausedIsBoundary
  <2> QED
    BY <1>4, <2>2, <2>3, <2>4 DEF Settled
<1>8. CASE Finalize \/ PauseAtBoundary \/ Deadlock
  <2>1. /\ pc = "decide" /\ mem = disk /\ disk.status = "executing"
        /\ \A s \in Subtask : ~ IsInterrupted(mem.st[s])
    BY <1>8 DEF Finalize, PauseAtBoundary, Deadlock, SInv, IInv, DecidesOnDurableState,
                Settled, StatusInv
  <2>2. /\ mem'.st = mem.st /\ mem'.loops = mem.loops /\ mem'.open = mem.open
        /\ disk' \in {disk, mem'}
    BY <1>2, <1>8 DEF Finalize, PauseAtBoundary, Deadlock, Saved, SaveFails, Run
  <2>3. StatusInv'
    BY <1>8 DEF Finalize, PauseAtBoundary, Deadlock, Return, StatusInv
  <2>4. InBudget(mem)' /\ InBudget(disk)'
    BY <2>1, <2>2 DEF SInv, Settled, InBudget
  <2>5. DoneAgrees'
    BY <2>1, <2>2 DEF DoneAgrees, Same
  <2>6. PausedIsBoundary'
    <3>1. CASE disk'.status = "paused"
      <4>1. PauseAtBoundary
        BY <1>2, <1>8, <2>1, <3>1 DEF Finalize, Deadlock, Saved, SaveFails, Run
      <4>2. \E s \in Subtask : ~ IsTerminal(mem.st[s])
        BY <4>1 DEF PauseAtBoundary, AllTerminal
      <4>3. disk'.st = mem.st
        BY <2>1, <2>2
      <4> QED
        BY <1>5, <2>1, <4>2, <4>3 DEF PausedIsBoundary
    <3> QED
      BY <3>1 DEF PausedIsBoundary
  <2> QED
    BY <1>4, <2>3, <2>4, <2>5, <2>6 DEF Settled
<1> QED
  BY <1>6, <1>7, <1>8

\* A batch starts with every member pending and its dependencies done.
LEMMA SpawnStaysSettled ==
  ASSUME SInv, SpawnBatch PROVE Settled'
<1>1. PICK chosen \in SUBSET Ready :
        wpc' = [s \in Subtask |-> IF s \in chosen THEN "spawned" ELSE "idle"]
  BY DEF SpawnBatch
<1>2. pc = "decide" /\ pc' = "join" /\ mem = disk /\ UNCHANGED <<mem, disk>>
  BY DEF SpawnBatch, SInv, IInv, DecidesOnDurableState
<1>3. /\ mem.status = "executing" /\ InBudget(mem)
      /\ \A s \in Subtask : ~ IsInterrupted(mem.st[s])
  BY <1>2 DEF SInv, Settled, StatusInv
<1>4. ASSUME NEW s \in Subtask PROVE WorkerInv(s)'
  <2>1. wpc'[s] \in {"spawned", "idle"} /\ (wpc'[s] = "spawned" => s \in chosen)
    BY <1>1
  <2>2. FlightInv(s)' /\ ErrorInv(s)' /\ PlaceInv(s)'
    BY <1>1, <1>2, <2>1 DEF FlightInv, ErrorInv, PlaceInv, Ready
  <2>3. BatchInv(s)'
    BY <1>2, <1>3, <2>1 DEF BatchInv, Same
  <2>4. DepsInv(s)'
    <3> SUFFICES ASSUME s \in chosen, NEW d \in Deps[s]
                 PROVE  wpc'[d] = "idle" /\ mem.st[d] = "done"
      BY <1>2, <2>1 DEF DepsInv
    <3>1. mem.st[d] = "done" /\ d \in Subtask
      BY DepsAssumption DEF Ready
    <3>2. d \notin chosen
      BY <3>1 DEF Ready
    <3> QED
      BY <1>1, <3>1, <3>2
  <2> QED
    BY <2>2, <2>3, <2>4 DEF WorkerInv
<1>5. StatusInv' /\ PausedIsBoundary'
  BY <1>2, <1>3 DEF StatusInv, PausedIsBoundary
<1>6. DoneAgrees' /\ InBudget(mem)' /\ InBudget(disk)'
  BY <1>2, <1>3 DEF DoneAgrees, Same, InBudget
<1> QED
  BY <1>4, <1>5, <1>6 DEF Settled

\* Run goes on from a batch only with every worker idle or finished, and what
\* they finished recorded.
LEMMA JoinStaysSettled ==
  ASSUME SInv, JoinBatch PROVE Settled'
<1>1. /\ pc = "join" /\ UNCHANGED <<mem, disk, wpc>> /\ pc' \in {"top", "returned"}
      /\ \A s \in batch : wpc[s] \in Ended
      /\ pc' = "top" => \A s \in batch : wpc[s] \notin {"canceled", "broken"}
  BY DEF JoinBatch, Return
<1>2. \A s \in Subtask : wpc[s] \in {"idle"} \cup Ended
  BY <1>1 DEF SInv, IInv, WorkersInBatch
<1>3. pc' = "top" => \A s \in Subtask : wpc[s] \in {"idle", "finished"}
  BY <1>1, <1>2 DEF SInv, IInv, WorkersInBatch, Ended
<1>4. ASSUME NEW s \in Subtask PROVE WorkerInv(s)'
  <2>1. WorkerInv(s)
    BY DEF SInv, Settled
  <2>2. FlightInv(s)' /\ ErrorInv(s)' /\ DepsInv(s)' /\ BatchInv(s)'
    BY <1>1, <2>1 DEF WorkerInv, FlightInv, ErrorInv, DepsInv, BatchInv
  <2>3. PlaceInv(s)'
    BY <1>1, <1>2, <1>3 DEF PlaceInv
  <2> QED
    BY <2>2, <2>3 DEF WorkerInv
<1>5. StatusInv'
  <2>1. ASSUME NEW s \in Subtask, pc' = "top" PROVE ~ IsInterrupted(mem.st[s])
    BY <1>1, <1>3, <2>1 DEF SInv, Settled, WorkerInv, BatchInv, IsTerminal, IsInterrupted
  <2>2. mem.status = "executing" /\ disk.status = "executing"
    BY <1>1 DEF SInv, Settled, StatusInv
  <2> QED
    BY <1>1, <2>1, <2>2 DEF StatusInv
<1>6. DoneAgrees' /\ InBudget(mem)' /\ InBudget(disk)'
  BY <1>1 DEF SInv, Settled, DoneAgrees, Same, InBudget
<1>7. PausedIsBoundary'
  BY <1>1 DEF SInv, Settled, PausedIsBoundary, Holders
<1> QED
  BY <1>4, <1>5, <1>6, <1>7 DEF Settled

\* What Settled speaks of stays as it is.
LEMMA StillSettled ==
  ASSUME Settled, UNCHANGED <<mem, disk, pc, wpc>> PROVE Settled'
<1>1. \A s \in Subtask : WorkerInv(s)'
  BY DEF Settled, WorkerInv, FlightInv, ErrorInv, BatchInv, PlaceInv, DepsInv, Same
<1>2. DoneAgrees' /\ InBudget(mem)' /\ InBudget(disk)' /\ PausedIsBoundary'
  BY DEF Settled, DoneAgrees, Same, InBudget, PausedIsBoundary, Holders
<1>3. StatusInv'
  BY DEF Settled, StatusInv
<1> QED
  BY <1>1, <1>2, <1>3 DEF Settled

\* A process that comes or goes has the record on disk, and no workers.
LEMMA ReadSettled ==
  ASSUME InBudget(disk), PausedIsBoundary, mem' = disk, disk' = disk,
         pc' \in {"down", "begin"}, \A s \in Subtask : wpc'[s] \in {"idle", "finished"}
  PROVE  Settled'
<1>1. \A s \in Subtask : WorkerInv(s)'
  BY QuietWorkers
<1>2. Holders' = {}
  BY DEF Holders, Holding
<1>3. DoneAgrees' /\ InBudget(mem)' /\ InBudget(disk)' /\ PausedIsBoundary' /\ StatusInv'
  BY <1>2 DEF DoneAgrees, Same, InBudget, PausedIsBoundary, StatusInv
<1> QED
  BY <1>1, <1>3 DEF Settled

\* The watcher and the user touch no record; a process that comes or goes reads
\* the one on disk.
LEMMA OutsideStaysSettled ==
  ASSUME SInv, WatcherStep \/ UserStep \/ Invoke \/ Crash \/ Exit
  PROVE  Settled'
<1>1. CASE WatcherStep \/ UserStep
  <2>1. UNCHANGED <<mem, disk, pc, wpc>>
    BY <1>1 DEF WatcherStep, WatcherClears, WatcherCancels, WatcherExits,
                UserStep, Signal, RequestStop, RequestPause, progVars
  <2> QED
    BY <2>1, StillSettled DEF SInv
<1>2. CASE Invoke \/ Crash \/ Exit
  <2>1. /\ mem' = disk /\ disk' = disk /\ pc' \in {"down", "begin"}
        /\ \A s \in Subtask : wpc'[s] \in {"idle", "finished"}
    BY <1>2 DEF Invoke, Crash, Exit, ProcessGone, SInv, Settled, WorkerInv, PlaceInv
  <2> QED
    BY <2>1, ReadSettled DEF SInv, Settled
<1> QED
  BY <1>1, <1>2

\* The second invariant holds before the first step.
LEMMA InitSettled == Init => Settled
<1> SUFFICES ASSUME Init PROVE Settled
  OBVIOUS
<1>1. /\ mem = disk /\ disk.status = "planned" /\ pc = "down"
      /\ \A s \in Subtask : wpc[s] = "idle" /\ disk.loops[s] = 0 /\ ~ disk.open[s]
  BY DEF Init, PlannedRun, CreatedRun
<1>2. \A s \in Subtask : WorkerInv(s)
  BY <1>1 DEF WorkerInv, FlightInv, ErrorInv, BatchInv, PlaceInv, DepsInv
<1> QED
  BY <1>1, <1>2 DEF Settled, DoneAgrees, Same, InBudget, StatusInv, PausedIsBoundary

\* Every step keeps the second invariant.
LEMMA NextStaysSettled == SInv /\ [Next]_vars => Settled'
<1> SUFFICES ASSUME SInv, [Next]_vars PROVE Settled'
  OBVIOUS
<1>1. CASE MainStep
  BY <1>1, DecideStaysSettled, SpawnStaysSettled, JoinStaysSettled DEF MainStep
<1>2. CASE \E s \in Subtask : WorkerStep(s)
  BY <1>2, WorkerStaysSettled
<1>3. CASE WatcherStep \/ UserStep \/ Invoke \/ Crash \/ Exit
  BY <1>3, OutsideStaysSettled
<1>4. CASE UNCHANGED vars
  BY <1>4, StillSettled DEF vars, progVars, SInv
<1> QED
  BY <1>1, <1>2, <1>3, <1>4 DEF Next, RunStep

\* The second invariant: in every reachable state the two records differ only
\* as the place of each worker allows, whatever saves failed and whenever the
\* process was killed.
THEOREM SettledAlways == Spec => []SInv
<1>1. Init => SInv
  BY InitIInv, InitSettled DEF SInv
<1>2. SInv /\ [Next]_vars => SInv'
  BY NextKeepsIInv, NextStaysSettled DEF SInv
<1> QED
  BY <1>1, <1>2, PTL DEF Spec

\* run.yaml says `paused' only at a boundary, with work left and nothing
\* recorded mid-step: pauseAtBoundary runs between batches, on durable state.
THEOREM PauseAtBoundaries == Spec => []PausedIsBoundary
<1>1. SInv => PausedIsBoundary
  BY DEF SInv, Settled
<1> QED
  BY <1>1, SettledAlways, PTL

\* A subtask keeps open findings only with its whole remediation budget spent,
\* and no sequence of crashes, failed saves and resumes overruns the budget: a
\* cycle is counted in the record before its remediation starts.
THEOREM BudgetHolds == Spec => []FlaggedOnlyAtBudget
<1>1. SInv => FlaggedOnlyAtBudget
  BY DEF SInv, Settled, InBudget, FlaggedOnlyAtBudget
<1> QED
  BY <1>1, SettledAlways, PTL

-----------------------------------------------------------------------------
(* What a step may do to the record on disk.                               *)

\* A worker writes its own entry of the record in memory, and the disk gets that
\* record or nothing.
LEMMA WorkerTouchesOwn ==
  ASSUME mem \in Run, NEW s \in Subtask, WorkerStep(s)
  PROVE  /\ pc = "join" /\ s \in batch /\ wpc[s] \notin {"idle", "finished"}
         /\ disk' = disk \/ disk' = mem'
         /\ mem'.status = mem.status /\ Aside(mem', mem)
         /\ mem'.st[s] \in {mem.st[s], "implementing", "reviewing", "done", "failed"}
         /\ \A t \in Subtask : t # s => /\ mem'.st[t] = mem.st[t]
                                        /\ mem'.loops[t] = mem.loops[t]
                                        /\ mem'.open[t] = mem.open[t]
<1>1. /\ pc = "join" /\ s \in batch
      /\ wpc[s] \in {"spawned", "executing", "review", "reviewing", "remediating", "failing"}
  BY DEF WorkerStep, AgentStep, OwnStep, At, StartSubtask, ExecutorReturns, EnterReview,
         Approve, ProceedFlagged, Remediate, ReviewErrs, RemediationReturns, SettleError
<1>2. \/ UNCHANGED noOwner
      \/ \E v \in {"implementing", "reviewing", "done", "failed"} : \E ok, bad :
           Commit(s, SetSt(s, v), ok, bad)
      \/ \E o \in BOOLEAN : \E ok, bad :
           Commit(s, [SetSt(s, "done") EXCEPT !.open[s] = o], ok, bad)
      \/ \E ok, bad : Commit(s, [SetSt(s, "implementing") EXCEPT !.loops[s] = @ + 1], ok, bad)
  BY DEF WorkerStep, AgentStep, OwnStep, StartSubtask, ExecutorReturns, EnterReview,
         Approve, ProceedFlagged, Remediate, ReviewErrs, RemediationReturns, SettleError
<1>3. CASE UNCHANGED noOwner
  BY <1>1, <1>3 DEF noOwner, Aside
<1>4. ASSUME NEW run, NEW ok, NEW bad, NEW v, NEW n, NEW o,
             Commit(s, run, ok, bad), Writes(run, s, v, n, o),
             v \in {"implementing", "reviewing", "done", "failed"}
      PROVE  /\ disk' = disk \/ disk' = mem'
             /\ mem'.status = mem.status /\ Aside(mem', mem)
             /\ mem'.st[s] \in {"implementing", "reviewing", "done", "failed"}
             /\ \A t \in Subtask : t # s => /\ mem'.st[t] = mem.st[t]
                                            /\ mem'.loops[t] = mem.loops[t]
                                            /\ mem'.open[t] = mem.open[t]
  BY <1>4 DEF Commit, Saved, SaveFails, Writes
<1>5. CASE \E v \in {"implementing", "reviewing", "done", "failed"} : \E ok, bad :
             Commit(s, SetSt(s, v), ok, bad)
  BY <1>1, <1>4, <1>5, SetStWrites DEF SubtaskStatus
<1>6. CASE \E o \in BOOLEAN : \E ok, bad :
             Commit(s, [SetSt(s, "done") EXCEPT !.open[s] = o], ok, bad)
  <2>1. PICK o \in BOOLEAN : \E ok, bad :
             Commit(s, [SetSt(s, "done") EXCEPT !.open[s] = o], ok, bad)
    BY <1>6
  <2>2. Writes([SetSt(s, "done") EXCEPT !.open[s] = o], s, "done", mem.loops[s], o)
    BY SettleWrites
  <2> QED
    BY <1>1, <1>4, <2>1, <2>2
<1>7. CASE \E ok, bad :
             Commit(s, [SetSt(s, "implementing") EXCEPT !.loops[s] = @ + 1], ok, bad)
  BY <1>1, <1>4, <1>7, CountLoopWrites
<1> QED
  BY <1>2, <1>3, <1>5, <1>6, <1>7

\* Run's own steps keep what memory and disk agree is done.
LEMMA MainKeepsDone ==
  ASSUME mem \in Run, MainStep, NEW s \in Subtask, mem.st[s] = "done", Same(s)
  PROVE  /\ disk'.st[s] = "done"
         /\ disk'.loops[s] = disk.loops[s] /\ disk'.open[s] = disk.open[s]
<1>1. \/ disk' = disk
      \/ \E v \in RunStatus : disk' = [mem EXCEPT !.status = v]
      \/ disk' = [ResetInterrupted(mem) EXCEPT !.status = "executing"]
  BY DEF MainStep, Begin, LoopTop, Finalize, PauseAtBoundary, AckPause, Deadlock,
         SpawnBatch, JoinBatch, Saved, SaveFails, RunStatus
<1>2. \A v \in RunStatus : LET run == [mem EXCEPT !.status = v]
                           IN run.st = mem.st /\ run.loops = mem.loops /\ run.open = mem.open
  BY DEF Run
<1>3. LET run == [ResetInterrupted(mem) EXCEPT !.status = "executing"]
      IN  run.st[s] = "done" /\ run.loops = mem.loops /\ run.open = mem.open
  BY DEF Run, ResetInterrupted, IsInterrupted
<1> QED
  BY <1>1, <1>2, <1>3 DEF Same

\* No worker touches a subtask that is done and not in error: its own is not done
\* before its last commit.
LEMMA WorkersKeepDone ==
  ASSUME SInv, NEW t \in Subtask, WorkerStep(t), NEW s \in Subtask,
         disk.st[s] = "done", wpc[s] \notin Erring
  PROVE  /\ disk'.st[s] = "done"
         /\ disk'.loops[s] = disk.loops[s] /\ disk'.open[s] = disk.open[s]
<1>1. Same(s) /\ mem.st[s] = "done" /\ mem \in Run /\ wpc \in [Subtask -> WorkerPC]
  BY DEF SInv, IInv, TypeOK, Settled, DoneAgrees, Same
<1>2. wpc[s] \in {"idle", "finished"}
  BY <1>1 DEF SInv, Settled, WorkerInv, FlightInv, WorkerPC, Erring
<1>3. t # s
  BY <1>1, <1>2, WorkerTouchesOwn
<1> QED
  BY <1>1, <1>3, WorkerTouchesOwn DEF Same

\* What is done in run.yaml, its worker past its error branch, stays done with
\* the same loops and findings: no later batch, resume, crash or late save of a
\* sibling touches it.
THEOREM DoneStays == Spec => DoneIsFinal
<1> DEFINE Final == \A s \in Subtask :
             disk.st[s] = "done" /\ wpc[s] \notin {"failing", "broken", "canceled"} =>
               /\ disk'.st[s] = "done"
               /\ disk'.loops[s] = disk.loops[s] /\ disk'.open[s] = disk.open[s]
<1>1. SInv /\ [Next]_vars => [Final]_vars
  <2> SUFFICES ASSUME SInv, Next, NEW s \in Subtask,
                      disk.st[s] = "done", wpc[s] \notin Erring
               PROVE  /\ disk'.st[s] = "done"
                      /\ disk'.loops[s] = disk.loops[s] /\ disk'.open[s] = disk.open[s]
    BY DEF Erring
  <2>1. CASE MainStep
    <3>1. Same(s) /\ mem.st[s] = "done" /\ mem \in Run
      BY DEF SInv, IInv, TypeOK, Settled, DoneAgrees, Same
    <3> QED
      BY <2>1, <3>1, MainKeepsDone
  <2>2. CASE \E t \in Subtask : WorkerStep(t)
    BY <2>2, WorkersKeepDone
  <2>3. CASE WatcherStep \/ UserStep \/ Invoke \/ Crash \/ Exit
    BY <2>3 DEF WatcherStep, WatcherClears, WatcherCancels, WatcherExits, UserStep, Signal,
                RequestStop, RequestPause, Invoke, Crash, Exit, ProcessGone
  <2> QED
    BY <2>1, <2>2, <2>3 DEF Next, RunStep
<1> QED
  BY <1>1, SettledAlways, PTL DEF Spec, DoneIsFinal

-----------------------------------------------------------------------------
(* The refinement: every step of the engine is a step of TaskGraph, with   *)
(* stageOf for its stages and the slot holders for what is worked on.      *)

\* The stage a status on disk stands for, with no error in the way.
diskStage(st) == IF st \in {"pending", "blocked"} THEN "todo"
                 ELSE IF IsInterrupted(st) THEN "active" ELSE st

Stages == [s \in Subtask |-> stageOf(s)]

\* stageOf, case by case.
StageIs(s) ==
  /\ wpc[s] = "failing" => stageOf(s) = "active"
  /\ wpc[s] = "canceled" =>
       stageOf(s) = IF mem.st[s] = "pending" THEN "todo" ELSE "active"
  /\ wpc[s] = "broken" =>
       stageOf(s) = IF mem.st[s] = "implementing" THEN "todo" ELSE "active"
  /\ wpc[s] \notin Erring => stageOf(s) = diskStage(disk.st[s])

\* The stage a subtask is at, by where its worker is and what run.yaml says.
LEMMA StageCases ==
  ASSUME NEW s \in Subtask PROVE StageIs(s) /\ StageIs(s)'
<1>1. StageIs(s)
  <2>1. wpc[s] = "failing" => stageOf(s) = "active"
    BY DEF stageOf
  <2>2. wpc[s] = "canceled" =>
          stageOf(s) = IF mem.st[s] = "pending" THEN "todo" ELSE "active"
    BY DEF stageOf
  <2>3. wpc[s] = "broken" =>
          stageOf(s) = IF mem.st[s] = "implementing" THEN "todo" ELSE "active"
    BY DEF stageOf
  <2>4. wpc[s] \notin Erring => stageOf(s) = diskStage(disk.st[s])
    BY DEF stageOf, diskStage, Erring, IsInterrupted
  <2> QED
    BY <2>1, <2>2, <2>3, <2>4 DEF StageIs
<1>2. StageIs(s)'
  <2>1. wpc'[s] = "failing" => stageOf(s)' = "active"
    BY DEF stageOf
  <2>2. wpc'[s] = "canceled" =>
          stageOf(s)' = IF mem'.st[s] = "pending" THEN "todo" ELSE "active"
    BY DEF stageOf
  <2>3. wpc'[s] = "broken" =>
          stageOf(s)' = IF mem'.st[s] = "implementing" THEN "todo" ELSE "active"
    BY DEF stageOf
  <2>4. wpc'[s] \notin Erring => stageOf(s)' = diskStage(disk'.st[s])
    BY DEF stageOf, diskStage, Erring, IsInterrupted
  <2> QED
    BY <2>1, <2>2, <2>3, <2>4 DEF StageIs
<1> QED
  BY <1>1, <1>2

\* A stage is one of those TaskGraph knows.
LEMMA StageTypes ==
  ASSUME SInv PROVE Stages \in [Subtask -> Graph!Stage]
<1> SUFFICES ASSUME NEW s \in Subtask PROVE stageOf(s) \in Graph!Stage
  BY DEF Stages
<1>1. disk.st[s] \in SubtaskStatus
  BY DEF SInv, IInv, TypeOK, Run
<1>2. diskStage(disk.st[s]) \in Graph!Stage
  BY <1>1 DEF diskStage, SubtaskStatus, IsInterrupted, Graph!Stage
<1> QED
  BY <1>2, StageCases DEF StageIs, Erring, Graph!Stage

\* What holds a slot is active; its record says so on disk, unless it failed.
LEMMA HoldersActive ==
  ASSUME SInv, NEW s \in Subtask, wpc[s] \in Holding
  PROVE  stageOf(s) = "active"
<1>1. WorkerInv(s) /\ pc = "join"
  BY DEF SInv, Settled, WorkerInv, PlaceInv, Holding, Ended
<1>2. CASE wpc[s] = "failing"
  BY <1>2, StageCases DEF StageIs
<1>3. CASE wpc[s] # "failing"
  <2>1. wpc[s] \notin Erring /\ disk.st[s] \in {"implementing", "reviewing"}
    BY <1>1, <1>3 DEF WorkerInv, FlightInv, BatchInv, Same, Holding, Erring
  <2> QED
    BY <2>1, StageCases DEF StageIs, diskStage, IsInterrupted
<1> QED
  BY <1>2, <1>3

\* What has been spawned may be started: it is to do, its dependencies are done.
LEMMA SpawnedStartable ==
  ASSUME SInv, NEW s \in Subtask, wpc[s] = "spawned"
  PROVE  Graph!Startable(s) /\ stageOf(s) = "todo"
<1>1. WorkerInv(s) /\ pc = "join"
  BY DEF SInv, Settled, WorkerInv, PlaceInv, Ended
<1>2. disk.st[s] = "pending"
  BY <1>1 DEF WorkerInv, FlightInv, BatchInv, Same, Erring
<1>3. stageOf(s) = "todo"
  BY <1>2, StageCases DEF StageIs, diskStage, Erring
<1>4. ASSUME NEW d \in Deps[s] PROVE d \in Subtask /\ stageOf(d) = "done"
  <2>1. wpc[d] = "idle" /\ disk.st[d] = "done" /\ d \in Subtask
    BY <1>1, DepsAssumption DEF WorkerInv, DepsInv
  <2> QED
    BY <2>1, StageCases DEF StageIs, diskStage, IsInterrupted, Erring
<1> QED
  BY <1>3, <1>4 DEF Graph!Startable

\* TaskGraph counts as FiniteSets does.
LEMMA SameCount == Graph!Cardinality(Holders) = Cardinality(Holders)
BY DEF Graph!Cardinality, Cardinality

\* A free slot is one the configuration grants.
LEMMA SlotGranted ==
  ASSUME Cardinality(Holders) < effectiveMaxParallel, Holders # {}
  PROVE  Parallel /\ Graph!Cardinality(Holders) < MaxParallel
<1>1. Cardinality(Holders) \in Nat /\ Cardinality(Holders) # 0
  BY HoldersFinite, FS_CardinalityType, FS_EmptySet
<1>2. effectiveMaxParallel # 1
  BY <1>1
<1>3. Parallel /\ effectiveMaxParallel = MaxParallel
  BY <1>2 DEF effectiveMaxParallel
<1> QED
  BY <1>3, SameCount

\* The ways one worker moves, as the graph sees them.
LEMMA WorkerMoves ==
  ASSUME SInv, NEW s \in Subtask, WorkerStep(s)
  PROVE  \E q \in WorkerPC :
           /\ wpc' = [wpc EXCEPT ![s] = q]
           /\ \/ wpc[s] \in Holding /\ q \in Holding
              \/ wpc[s] \in Holding /\ q = "finished"
              \/ /\ wpc[s] = "spawned" /\ q = "executing"
                 /\ Cardinality(Holders) < effectiveMaxParallel
                 /\ disk'.st[s] = "implementing"
              \/ wpc[s] = "spawned" /\ q = "broken" /\ mem'.st[s] = "implementing"
              \/ wpc[s] = "spawned" /\ q = "canceled" /\ mem' = mem
              \/ wpc[s] = "failing" /\ q = "canceled" /\ mem' = mem
              \/ wpc[s] = "failing" /\ q = "broken" /\ mem'.st[s] = "failed"
<1> USE DEF At, Goto, Commit, Holding, WorkerPC
<1>1. mem \in Run
  BY DEF SInv, IInv, TypeOK
<1>2. \A v \in SubtaskStatus : SetSt(s, v).st[s] = v
  BY <1>1, SetStWrites DEF Writes
<1>3. CASE StartSubtask(s)
  BY <1>2, <1>3 DEF StartSubtask, Saved, SaveFails, noOwner, SubtaskStatus
<1>4. CASE ExecutorReturns(s) \/ ReviewErrs(s) \/ RemediationReturns(s)
  BY <1>4 DEF ExecutorReturns, ReviewErrs, RemediationReturns
<1>5. CASE EnterReview(s) \/ Approve(s) \/ ProceedFlagged(s) \/ Remediate(s)
  BY <1>5 DEF EnterReview, Approve, ProceedFlagged, Remediate
<1>6. CASE SettleError(s)
  BY <1>2, <1>6 DEF SettleError, Saved, SaveFails, noOwner, SubtaskStatus
<1> QED
  BY <1>3, <1>4, <1>5, <1>6 DEF WorkerStep, AgentStep, OwnStep

\* A worker's step changes the stage of its own subtask only: what its save
\* brings to the disk of a sibling is what the sibling's stage says already.
LEMMA SiblingStages ==
  ASSUME SInv, NEW s \in Subtask, WorkerStep(s), NEW t \in Subtask, t # s,
         wpc'[t] = wpc[t]
  PROVE  stageOf(t)' = stageOf(t)
<1>1. /\ mem'.st[t] = mem.st[t] /\ pc = "join"
      /\ disk'.st[t] = disk.st[t] \/ disk'.st[t] = mem.st[t]
  BY WorkerTouchesOwn DEF SInv, IInv, TypeOK
<1>2. wpc[t] \notin Erring => mem.st[t] = disk.st[t]
  BY <1>1 DEF SInv, Settled, WorkerInv, BatchInv, Same
<1>3. StageIs(t) /\ StageIs(t)'
  BY StageCases
<1>4. wpc[t] \in {"failing", "canceled", "broken"} \/ wpc[t] \notin Erring
  BY DEF Erring
<1> QED
  BY <1>1, <1>2, <1>3, <1>4 DEF StageIs, Erring

\* A step of a worker is a step of TaskGraph, or changes no stage.
LEMMA WorkerRefines ==
  ASSUME SInv, SInv', NEW s \in Subtask, WorkerStep(s)
  PROVE  Graph!GraphNext \/ (Stages' = Stages /\ Holders' = Holders)
<1>1. PICK q \in WorkerPC :
           /\ wpc' = [wpc EXCEPT ![s] = q]
           /\ \/ wpc[s] \in Holding /\ q \in Holding
              \/ wpc[s] \in Holding /\ q = "finished"
              \/ /\ wpc[s] = "spawned" /\ q = "executing"
                 /\ Cardinality(Holders) < effectiveMaxParallel
                 /\ disk'.st[s] = "implementing"
              \/ wpc[s] = "spawned" /\ q = "broken" /\ mem'.st[s] = "implementing"
              \/ wpc[s] = "spawned" /\ q = "canceled" /\ mem' = mem
              \/ wpc[s] = "failing" /\ q = "canceled" /\ mem' = mem
              \/ wpc[s] = "failing" /\ q = "broken" /\ mem'.st[s] = "failed"
  BY WorkerMoves
<1>2. /\ wpc \in [Subtask -> WorkerPC] /\ wpc'[s] = q /\ pc = "join" /\ s \in batch
      /\ \A t \in Subtask : t # s => wpc'[t] = wpc[t]
  BY <1>1, WorkerTouchesOwn DEF SInv, IInv, TypeOK
<1>3. ASSUME NEW t \in Subtask, t # s PROVE stageOf(t)' = stageOf(t)
  BY <1>2, <1>3, SiblingStages
<1>4. WorkerInv(s) /\ WorkerInv(s)' /\ pc' = "join"
  <2>1. UNCHANGED pc
    BY DEF WorkerStep, AgentStep, OwnStep, StartSubtask, ExecutorReturns, EnterReview, Approve,
           ProceedFlagged, Remediate, ReviewErrs, RemediationReturns, SettleError, mainAndCtx
  <2> QED
    BY <1>2, <2>1 DEF SInv, Settled
<1>5. StageIs(s)' /\ StageIs(s)
  BY StageCases
<1>6. CASE wpc[s] \in Holding /\ q \in Holding
  <2>1. stageOf(s) = "active"
    BY <1>6, HoldersActive
  <2>2. stageOf(s)' = "active"
    BY <1>2, <1>4, <1>5, <1>6
       DEF StageIs, WorkerInv, FlightInv, BatchInv, Same, Holding, Erring, diskStage, IsInterrupted
  <2>3. Stages' = Stages
    BY <1>3, <2>1, <2>2 DEF Stages
  <2>4. Holders' = Holders
    BY <1>2, <1>6 DEF Holders
  <2> QED
    BY <2>3, <2>4
<1>7. CASE wpc[s] \in Holding /\ q = "finished"
  <2>1. stageOf(s)' \in {"done", "failed"}
    BY <1>2, <1>4, <1>5, <1>7
       DEF StageIs, WorkerInv, BatchInv, Same, Erring, diskStage, IsInterrupted, IsTerminal
  <2>2. Stages' = [Stages EXCEPT ![s] = stageOf(s)']
    BY <1>3 DEF Stages
  <2>3. s \in Holders /\ Holders' = Holders \ {s}
    BY <1>2, <1>7 DEF Holders, Holding
  <2>4. Graph!Settle(s)
    BY <2>1, <2>2, <2>3 DEF Graph!Settle, Stages
  <2> QED
    BY <2>4 DEF Graph!GraphNext
<1>8. CASE /\ wpc[s] = "spawned" /\ q = "executing"
           /\ Cardinality(Holders) < effectiveMaxParallel
           /\ disk'.st[s] = "implementing"
  <2>1. stageOf(s)' = "active"
    BY <1>2, <1>5, <1>8 DEF StageIs, Erring, diskStage, IsInterrupted
  <2>2. Stages' = [Stages EXCEPT ![s] = "active"]
    BY <1>3, <2>1 DEF Stages
  <2>3. Holders' = Holders \cup {s}
    BY <1>2, <1>8 DEF Holders, Holding
  <2>4. \A t \in Holders : ~ Conflict(s, t)
    BY <1>2, <1>8 DEF SInv, IInv, WorkersInBatch, BatchConflictFree, Holders, Holding
  <2>5. Graph!Start(s)
    BY <1>8, <2>2, <2>3, <2>4, SpawnedStartable, SlotGranted DEF Graph!Start, Stages
  <2> QED
    BY <2>5 DEF Graph!GraphNext
<1>9. CASE \/ wpc[s] = "spawned" /\ q = "broken" /\ mem'.st[s] = "implementing"
           \/ wpc[s] = "spawned" /\ q = "canceled" /\ mem' = mem
  <2>1. stageOf(s) = "todo" /\ mem.st[s] = "pending"
    BY <1>4, <1>9, SpawnedStartable DEF WorkerInv, FlightInv
  <2>2. stageOf(s)' = "todo"
    BY <1>2, <1>5, <1>9, <2>1 DEF StageIs
  <2>3. Stages' = Stages
    BY <1>3, <2>1, <2>2 DEF Stages
  <2>4. Holders' = Holders
    BY <1>2, <1>9 DEF Holders, Holding
  <2> QED
    BY <2>3, <2>4
<1>10. CASE \/ wpc[s] = "failing" /\ q = "canceled" /\ mem' = mem
            \/ wpc[s] = "failing" /\ q = "broken" /\ mem'.st[s] = "failed"
  <2>1. stageOf(s) = "active" /\ mem.st[s] # "pending"
    BY <1>4, <1>5, <1>10 DEF StageIs, WorkerInv, ErrorInv, Worked
  <2>2. stageOf(s)' = "active"
    BY <1>2, <1>5, <1>10, <2>1 DEF StageIs
  <2>3. Stages' = Stages
    BY <1>3, <2>1, <2>2 DEF Stages
  <2>4. s \in Holders /\ Holders' = Holders \ {s}
    BY <1>2, <1>10 DEF Holders, Holding
  <2>5. Graph!LetGo(s)
    BY <2>3, <2>4 DEF Graph!LetGo, Stages
  <2> QED
    BY <2>5 DEF Graph!GraphNext
<1> QED
  BY <1>1, <1>6, <1>7, <1>8, <1>9, <1>10

\* Workers without an error, before and after, and a record on disk that says
\* the same: nothing the graph sees has changed.
LEMMA SameStages ==
  ASSUME \A s \in Subtask : /\ wpc[s] \notin Erring /\ wpc'[s] \notin Erring
                            /\ disk'.st[s] = disk.st[s]
  PROVE  Stages' = Stages
<1>1. ASSUME NEW s \in Subtask PROVE stageOf(s)' = stageOf(s)
  BY <1>1, StageCases DEF StageIs
<1> QED
  BY <1>1 DEF Stages

\* Run's own steps: Begin rewinds what was cut off; the others are not seen.
LEMMA MainRefines ==
  ASSUME SInv, MainStep
  PROVE  Graph!GraphNext \/ (Stages' = Stages /\ Holders' = Holders)
<1>1. mem \in Run /\ disk \in Run
  BY DEF SInv, IInv, TypeOK
<1>2. CASE Begin
  <2>1. /\ pc = "begin" /\ wpc' = wpc /\ mem = disk
        /\ \A s \in Subtask : wpc[s] \in {"idle", "finished"}
    BY <1>2 DEF Begin, SInv, Settled, StatusInv, WorkerInv, PlaceInv
  <2>2. Holders = {} /\ Holders' = {}
    BY <2>1 DEF Holders, Holding
  <2>3. CASE disk' = disk
    <3>1. Stages' = Stages
      BY <2>1, <2>3, SameStages DEF Erring
    <3> QED
      BY <2>2, <3>1
  <2>4. CASE disk' = [ResetInterrupted(mem) EXCEPT !.status = "executing"]
    <3>1. \A s \in Subtask :
            disk'.st[s] = IF IsInterrupted(disk.st[s]) THEN "pending" ELSE disk.st[s]
      BY <1>1, <2>1, <2>4 DEF ResetInterrupted, Run
    <3>2. ASSUME NEW s \in Subtask
          PROVE  stageOf(s)' = IF stageOf(s) = "active" THEN "todo" ELSE stageOf(s)
      <4>1. stageOf(s) = diskStage(disk.st[s]) /\ stageOf(s)' = diskStage(disk'.st[s])
        BY <2>1, StageCases DEF StageIs, Erring
      <4>2. disk.st[s] \in SubtaskStatus
        BY <1>1 DEF Run
      <4> QED
        BY <3>1, <4>1, <4>2 DEF diskStage, IsInterrupted, SubtaskStatus
    <3>3. Graph!Rewind
      BY <2>2, <3>2 DEF Graph!Rewind, Stages
    <3> QED
      BY <3>3 DEF Graph!GraphNext
  <2> QED
    BY <1>2, <2>3, <2>4 DEF Begin, Saved, SaveFails
<1>3. CASE JoinBatch
  <2>1. UNCHANGED <<mem, disk, wpc>>
    BY <1>3 DEF JoinBatch
  <2> QED
    BY <2>1 DEF Stages, stageOf, Holders
<1>4. CASE SpawnBatch \/ LoopTop \/ Finalize \/ PauseAtBoundary \/ AckPause \/ Deadlock
  <2>1. /\ pc \in {"top", "decide", "ackPause"}
        /\ \A s \in Subtask : wpc'[s] \in {wpc[s], "spawned", "idle"}
        /\ \A s \in Subtask : wpc[s] \notin Holding => wpc'[s] \notin Holding
    BY <1>4 DEF SpawnBatch, LoopTop, Finalize, PauseAtBoundary, AckPause, Deadlock, Holding
  <2>2. \A s \in Subtask : wpc[s] \in {"idle", "finished"}
    BY <2>1 DEF SInv, Settled, WorkerInv, PlaceInv
  <2>3. disk'.st = disk.st
    <3>1. disk' = disk \/ (pc = "decide" /\ \E v \in RunStatus : disk' = [mem EXCEPT !.status = v])
      BY <1>4 DEF SpawnBatch, LoopTop, Finalize, PauseAtBoundary, AckPause, Deadlock,
                  Saved, SaveFails, RunStatus
    <3>2. pc = "decide" => mem = disk
      BY DEF SInv, IInv, DecidesOnDurableState
    <3> QED
      BY <1>1, <3>1, <3>2 DEF Run
  <2>4. Holders = {} /\ Holders' = {}
    BY <2>1, <2>2 DEF Holders, Holding
  <2>5. Stages' = Stages
    BY <2>1, <2>2, <2>3, SameStages DEF Erring
  <2> QED
    BY <2>4, <2>5
<1> QED
  BY <1>2, <1>3, <1>4 DEF MainStep

\* The end of the process stops everything at once: what a failed save had left
\* open turns out as run.yaml says.
LEMMA GoneRefines ==
  ASSUME SInv, SInv', ProcessGone
  PROVE  Graph!Halt
<1>1. disk' = disk /\ Holders' = {} /\ \A s \in Subtask : wpc'[s] = "idle"
  BY DEF ProcessGone, Holders, Holding
<1>2. ASSUME NEW s \in Subtask
      PROVE  \/ stageOf(s)' = stageOf(s)
             \/ stageOf(s) = "active" /\ stageOf(s)' \in {"done", "failed"}
             \/ Graph!Startable(s) /\ stageOf(s)' = "active"
  <2>1. stageOf(s)' = diskStage(disk.st[s])
    BY <1>1, StageCases DEF StageIs, Erring
  <2>2. WorkerInv(s) /\ StageIs(s) /\ disk.st[s] \in SubtaskStatus
    BY StageCases DEF SInv, Settled, IInv, TypeOK, Run
  <2>3. CASE wpc[s] \notin Erring
    BY <2>1, <2>2, <2>3 DEF StageIs
  <2>4. CASE wpc[s] \in {"failing", "canceled"}
    BY <2>1, <2>2, <2>4 DEF StageIs, WorkerInv, ErrorInv, Worked, diskStage, IsInterrupted
  <2>5. CASE wpc[s] = "broken" /\ mem.st[s] = "failed"
    BY <2>1, <2>2, <2>5 DEF StageIs, WorkerInv, ErrorInv, Worked, diskStage, IsInterrupted
  <2>6. CASE wpc[s] = "broken" /\ mem.st[s] = "implementing"
    <3>1. stageOf(s) = "todo" /\ disk.st[s] \in {"pending", "implementing"}
      BY <2>2, <2>6 DEF StageIs, WorkerInv, ErrorInv
    <3>2. ASSUME NEW d \in Deps[s] PROVE d \in Subtask /\ stageOf(d) = "done"
      <4>1. wpc[d] = "idle" /\ disk.st[d] = "done" /\ d \in Subtask
        BY <2>2, <2>6, DepsAssumption DEF WorkerInv, DepsInv
      <4> QED
        BY <4>1, StageCases DEF StageIs, diskStage, IsInterrupted, Erring
    <3>3. Graph!Startable(s)
      BY <3>1, <3>2 DEF Graph!Startable
    <3> QED
      BY <2>1, <3>1, <3>3 DEF diskStage, IsInterrupted
  <2> QED
    BY <2>2, <2>3, <2>4, <2>5, <2>6 DEF Erring, WorkerInv, ErrorInv
<1>3. Stages' \in [Subtask -> Graph!Stage]
  <2> SUFFICES ASSUME NEW s \in Subtask PROVE stageOf(s)' \in Graph!Stage
    BY DEF Stages
  <2>1. disk'.st[s] \in SubtaskStatus
    BY DEF SInv, IInv, TypeOK, Run
  <2>2. stageOf(s)' = diskStage(disk'.st[s])
    BY <1>1, StageCases DEF StageIs, Erring
  <2> QED
    BY <2>1, <2>2 DEF diskStage, SubtaskStatus, IsInterrupted, Graph!Stage
<1>4. \A s \in Subtask : Stages[s] = stageOf(s) /\ Stages'[s] = stageOf(s)'
  BY DEF Stages
<1> QED
  BY <1>1, <1>2, <1>3, <1>4 DEF Graph!Halt, Stages

\* Every step of the engine is a step of TaskGraph, or changes no stage.
LEMMA NextRefines ==
  ASSUME SInv, SInv', [Next]_vars
  PROVE  Graph!GraphNext \/ (Stages' = Stages /\ Holders' = Holders)
<1>1. CASE MainStep
  BY <1>1, MainRefines
<1>2. CASE \E s \in Subtask : WorkerStep(s)
  BY <1>2, WorkerRefines
<1>3. CASE WatcherStep \/ UserStep \/ UNCHANGED vars
  <2>1. UNCHANGED <<mem, disk, wpc>>
    BY <1>3 DEF WatcherStep, WatcherClears, WatcherCancels, WatcherExits, UserStep, Signal,
                RequestStop, RequestPause, vars, progVars
  <2> QED
    BY <2>1 DEF Stages, stageOf, Holders
<1>4. CASE Invoke
  <2>1. /\ UNCHANGED <<disk, wpc>>
        /\ \A s \in Subtask : wpc[s] \in {"idle", "finished"}
    BY <1>4 DEF Invoke, SInv, Settled, WorkerInv, PlaceInv
  <2>2. Stages' = Stages
    BY <2>1, SameStages DEF Erring
  <2> QED
    BY <2>1, <2>2 DEF Holders
<1>5. CASE Crash \/ Exit
  <2>1. Graph!Halt
    BY <1>5, GoneRefines DEF Crash, Exit
  <2> QED
    BY <2>1 DEF Graph!GraphNext
<1> QED
  BY <1>1, <1>2, <1>3, <1>4, <1>5 DEF Next, RunStep

\* The engine implements TaskGraph: saves that fail, batches, cancellation and
\* crashes included, each of its steps is one the abstract execution allows.
THEOREM EngineImplementsGraph == Spec => ImplementsGraph
<1>1. Init => Graph!GraphInit
  <2> SUFFICES ASSUME Init PROVE Graph!GraphInit
    OBVIOUS
  <2>1. \A s \in Subtask : wpc[s] = "idle" /\ disk.st[s] = "pending"
    BY DEF Init, PlannedRun, CreatedRun
  <2>2. \A s \in Subtask : stageOf(s) = "todo"
    BY <2>1, StageCases DEF StageIs, Erring, diskStage
  <2>3. Holders = {}
    BY <2>1 DEF Holders, Holding
  <2> QED
    BY <2>2, <2>3 DEF Graph!GraphInit
<1>2. SInv /\ SInv' /\ [Next]_vars =>
        [Graph!GraphNext]_<<[s \in Subtask |-> stageOf(s)], Holders>>
  BY NextRefines DEF Stages
<1> QED
  BY <1>1, <1>2, SettledAlways, PTL DEF Spec, ImplementsGraph, Graph!GraphSpec

-----------------------------------------------------------------------------
(***************************************************************************)
(* PART 2.  The run.                                                       *)
(***************************************************************************)

-----------------------------------------------------------------------------
(* The inductive invariant.                                                *)

\* Every subtask of a record is done.
AllDone(run) == \A s \in Subtask : run.st[s] = "done"

\* The whole-change review has not begun.
NotReviewed(run) == run.senior \notin {"running", "done"}

\* What any copy of the record says by itself, whichever phase it was left in.
RecordInv(run) ==
  /\ ~ run.planned =>
       /\ run.status \in {"created", "planning", "failed", "aborted"}
       /\ run.senior = "pending"
       /\ \A s \in Subtask : run.st[s] = "pending"
  /\ run.planned => run.status \notin {"created", "planning"}
  /\ run.status = "seniorReview" => AllDone(run)
  /\ ~ NotReviewed(run) =>
       /\ AllDone(run) /\ SeniorEnabled
       /\ run.status \in {"seniorReview", "completed", "failed", "aborted"}
  /\ run.status = "completed" =>
       /\ AllDone(run)
       /\ run.senior = IF SeniorEnabled THEN "done" ELSE "skipped"
  /\ SeniorMaxLoops >= 0 => run.rounds <= SeniorMaxLoops
  /\ run.seniorOpen => run.senior = "done" /\ run.rounds = SeniorMaxLoops

\* Before the engine, in it, and after it.
Before == {"down", "drive", "plan", "planner", "gate", "enterRun",
           "amendRestore", "amendReload", "amendReset", "amendClear"}
After  == {"toSenior", "senior", "seniorDry", "seniorLoop", "seniorReviewing",
           "seniorRemediating", "complete"}
InReview == {"seniorDry", "seniorLoop", "seniorReviewing", "seniorRemediating"}

\* Where the process is, where its engine is, and what it has read and saved.
PhaseInv ==
  /\ op \in Before => pc = "down"
  /\ op = "running" => pc # "down"
  /\ op # "running" => pc \in {"down", "returned"}
  /\ pc = "down" => result = "none"
  /\ op \notin {"running", "classify", "end"} => mem = disk
  /\ op \in After => /\ mem.planned /\ AllDone(mem)
                    /\ \A s \in Subtask : wpc[s] \in {"idle", "finished"}
  /\ op \in InReview => mem.senior = "running"
  /\ op = "complete" => mem.senior = IF SeniorEnabled THEN "done" ELSE "skipped"
  /\ op \in {"plan", "planner"} => ~ mem.planned
  /\ op \in {"gate", "enterRun", "running"} =>
       /\ mem.planned /\ disk.planned /\ NotReviewed(mem) /\ NotReviewed(disk)
  /\ op \in {"amendRestore", "amendReload", "amendReset"} => mem.status = "paused"
  /\ op = "amendClear" => mem.status = "executing"
  /\ disk.planned => mem.planned

\* What Run returned, until the orchestrator looks at it.
ReturnInv ==
  op = "running" /\ pc = "returned" =>
    /\ result # "none"
    /\ result = "nil" => /\ mem = disk /\ AllDone(mem)
                         /\ \A s \in Subtask : wpc[s] \in {"idle", "finished"}
    /\ result = "failed" => mem.status = "failed"

\* A settled run is driven no further.
VerdictInv ==
  disk.status \in {"completed", "failed"} =>
    \/ op \in {"down", "end"}
    \/ op = "classify" /\ mem.status \in {"completed", "failed"}
    \/ op = "running" /\ pc = "returned" /\ result = "failed"

\* A dry process on a machine that has failed no save.
NoBlocked(run) == \A s \in Subtask : run.st[s] # "blocked"

DryInv ==
  /\ NoBlocked(mem) /\ NoBlocked(disk)
  /\ faults = 0 => mem = disk
  /\ dry => op \notin {"seniorLoop", "seniorReviewing", "seniorRemediating"}
  /\ dry /\ faults = 0 =>
       /\ result # "error"
       /\ \A s \in Subtask : wpc[s] \notin {"reviewing", "remediating", "broken"}
       /\ \A s \in Subtask : wpc[s] = "failing" => Canceled
       /\ op = "classify" => interrupted \/ result = "canceled" \/ mem.status = "failed"

LInv ==
  /\ LifecycleTypeOK /\ IInv /\ (op # "end" => Settled)
  /\ InBudget(disk) /\ PausedIsBoundary
  /\ RecordInv(mem) /\ RecordInv(disk)
  /\ PhaseInv /\ ReturnInv /\ VerdictInv /\ DryInv

-----------------------------------------------------------------------------
(* Types, and what all steps have in common.                               *)

\* The pieces of LInv under their names.
LEMMA LInvParts ==
  ASSUME LInv
  PROVE  /\ LifecycleTypeOK /\ TypeOK /\ IInv /\ mem \in Run /\ disk \in Run
         /\ faults \in Nat /\ wpc \in [Subtask -> WorkerPC]
         /\ (op # "end" => SInv)
         /\ InBudget(disk) /\ PausedIsBoundary /\ RecordInv(mem) /\ RecordInv(disk)
         /\ PhaseInv /\ ReturnInv /\ VerdictInv /\ DryInv
BY DEF LInv, LifecycleTypeOK, IInv, TypeOK, SInv

\* Outside a running engine, no worker is at work.
LEMMA AtRest ==
  ASSUME LInv, op \notin {"running", "classify", "end"}
  PROVE  /\ pc \in {"down", "returned"} /\ mem = disk /\ batch = {} /\ Holders = {}
         /\ \A s \in Subtask : wpc[s] \in {"idle", "finished"}
<1>1. op \in Before \/ op \in After
  BY LInvParts DEF LifecycleTypeOK, Op, Before, After
<1>2. pc \in {"down", "returned"} /\ mem = disk
  BY LInvParts DEF PhaseInv
<1>3. \A s \in Subtask : wpc[s] \in {"idle", "finished"}
  BY <1>1, LInvParts DEF PhaseInv, SInv, Settled, WorkerInv, PlaceInv
<1>4. batch = {} /\ Holders = {}
  BY <1>2, LInvParts DEF IInv, WorkersInBatch
<1> QED
  BY <1>2, <1>3, <1>4

-----------------------------------------------------------------------------
(* The orchestrator's steps.                                               *)

\* How a phase may change the entries of the subtasks: not at all, or by
\* starting them afresh.
SameSubtasks(run, old) ==
  run.st = old.st /\ run.loops = old.loops /\ run.open = old.open

FreshSubtasks(run) ==
  \A s \in Subtask : run.st[s] = "pending" /\ run.loops[s] = 0 /\ ~ run.open[s]

\* The engine's two invariants in a step outside it.
LEMMA OrchestratorKeepsEngine ==
  ASSUME LInv, op \notin {"running", "classify", "end"},
         UNCHANGED <<progVars, dry, requests>>, pauseReq' \in BOOLEAN, stopReq' \in BOOLEAN,
         mem' \in Run, disk' \in {disk, mem'}, faults' \in Nat,
         \/ SameSubtasks(mem', mem)
         \/ FreshSubtasks(mem') /\ (op' = "end" \/ disk' = mem'
                                     \/ \A s \in Subtask : mem.st[s] = "pending"),
         mem'.status = "paused" => mem'.status = mem.status /\ mem'.st = mem.st
  PROVE  IInv' /\ InBudget(disk)' /\ PausedIsBoundary' /\ (op' # "end" => Settled')
<1>1. /\ pc \in {"down", "returned"} /\ pc' = pc /\ mem = disk /\ batch' = {}
      /\ Holders' = {} /\ Holders = {}
      /\ \A s \in Subtask : wpc'[s] \in {"idle", "finished"}
  BY AtRest DEF progVars, Holders
<1>2. TypeOK'
  BY LInvParts DEF TypeOK, progVars
<1>3. IInv'
  BY <1>1, <1>2, LInvParts, OutsideBatch
<1>4. InBudget(mem')
  BY LInvParts, ConfigAssumption, <1>1 DEF InBudget, SameSubtasks, FreshSubtasks
<1>5. InBudget(disk')
  BY <1>4, LInvParts DEF InBudget
<1>6. PausedIsBoundary'
  BY <1>1, LInvParts DEF PausedIsBoundary
<1>7. ASSUME op' # "end" PROVE Settled'
  <2>1. \A s \in Subtask : WorkerInv(s)'
    BY <1>1, QuietWorkers
  <2>2. DoneAgrees'
    BY <1>1, <1>7 DEF DoneAgrees, Same, SameSubtasks, FreshSubtasks
  <2>3. StatusInv'
    BY <1>1 DEF StatusInv
  <2> QED
    BY <1>4, <1>5, <1>6, <2>1, <2>2, <2>3 DEF Settled, InBudget
<1> QED
  BY <1>3, <1>5, <1>6, <1>7 DEF InBudget

\* What LInv asks of the record when the orchestrator goes on to place o.
Fits(run, o) ==
  /\ o \in After => run.planned /\ AllDone(run)
  /\ o \in InReview => run.senior = "running"
  /\ o = "complete" => run.senior = IF SeniorEnabled THEN "done" ELSE "skipped"
  /\ o \in {"plan", "planner"} => ~ run.planned
  /\ o \in {"gate", "enterRun"} => run.planned /\ NotReviewed(run)
  /\ o \in {"amendRestore", "amendReload", "amendReset"} => run.status = "paused"
  /\ o = "amendClear" => run.status = "executing"
  /\ run.status \in {"completed", "failed"} => o = "end"
  /\ dry => o \notin {"seniorLoop", "seniorReviewing", "seniorRemediating"}

\* A step of the orchestrator that saves: go on to ok with the record on disk, or
\* to bad with the change in memory only.
LEMMA PersistKeeps ==
  ASSUME LInv, op \notin {"down", "running", "classify", "end"},
         NEW run \in Run, NEW ok \in Op \ {"running", "classify", "down"},
         NEW bad \in {"classify", "end"},
         Persist(run, ok, bad), UNCHANGED aside,
         ok \in Before => op \in Before,
         \/ SameSubtasks(run, mem)
         \/ FreshSubtasks(run) /\ (bad = "end" \/ \A s \in Subtask : mem.st[s] = "pending"),
         run.status = "paused" => mem.status = "paused" /\ run.st = mem.st,
         mem.planned => run.planned,
         RecordInv(run), NoBlocked(run), Fits(run, ok)
  PROVE  LInv'
<1>1. /\ mem' = run /\ disk' \in {disk, mem'} /\ mem' \in Run
      /\ \/ op' = ok /\ disk' = mem' /\ faults' = faults
         \/ op' = bad /\ disk' = disk /\ faults' = faults + 1
  BY DEF Persist, Saved, SaveFails
<1>2. /\ UNCHANGED <<progVars, dry, requests, pauseReq, stopReq, cmd, work>>
      /\ UNCHANGED <<pc, batch, wpc, result, interrupted, stopFired>>
  BY DEF aside, givenVars, markerVars, progVars
<1>3. faults' \in Nat /\ (disk' # mem' => faults' # 0)
  BY <1>1, LInvParts
<1>4. /\ pc \in {"down", "returned"} /\ mem = disk
      /\ \A s \in Subtask : wpc[s] \in {"idle", "finished"}
  BY AtRest
<1>5. IInv' /\ InBudget(disk)' /\ PausedIsBoundary' /\ (op' # "end" => Settled')
  <2>1. pauseReq' \in BOOLEAN /\ stopReq' \in BOOLEAN
    BY <1>2, LInvParts DEF TypeOK
  <2>2. \/ SameSubtasks(mem', mem)
        \/ FreshSubtasks(mem') /\ (op' = "end" \/ disk' = mem'
                                     \/ \A s \in Subtask : mem.st[s] = "pending")
    BY <1>1
  <2> QED
    BY <1>1, <1>2, <1>3, <2>1, <2>2, OrchestratorKeepsEngine
<1>6. LifecycleTypeOK'
  BY <1>1, <1>2, <1>5, LInvParts DEF LifecycleTypeOK, IInv, Op
<1>7. RecordInv(mem)' /\ RecordInv(disk)'
  BY <1>1, LInvParts DEF RecordInv, AllDone, NotReviewed
<1>8. PhaseInv'
  <2>1. op' = "running" => FALSE
    BY <1>1
  <2>2. op' \in Before => pc' = "down"
    BY <1>1, <1>2, LInvParts DEF PhaseInv, Before
  <2>3. pc' \in {"down", "returned"} /\ (pc' = "down" => result' = "none")
    BY <1>2, <1>4, LInvParts DEF PhaseInv
  <2>4. disk'.planned => mem'.planned
    BY <1>1, <1>4
  <2>5. CASE op' = ok /\ disk' = mem'
    BY <1>1, <1>2, <1>4, <2>1, <2>2, <2>3, <2>4, <2>5
       DEF PhaseInv, Fits, AllDone, NotReviewed
  <2>6. CASE op' = bad
    BY <1>1, <2>1, <2>2, <2>3, <2>4, <2>6 DEF PhaseInv, Before, After, InReview
  <2> QED
    BY <1>1, <2>5, <2>6
<1>9. ReturnInv'
  BY <1>1 DEF ReturnInv
<1>10. VerdictInv'
  <2>1. disk.status \notin {"completed", "failed"}
    BY LInvParts DEF VerdictInv
  <2> QED
    BY <1>1, <2>1 DEF VerdictInv, Fits
<1>11. DryInv'
  <2>1. NoBlocked(mem)' /\ NoBlocked(disk)'
    BY <1>1, LInvParts DEF DryInv, NoBlocked
  <2>2. ASSUME dry', faults' = 0
        PROVE  /\ op' # "classify" /\ result' # "error"
               /\ \A s \in Subtask : wpc'[s] \in {"idle", "finished"}
    <3>1. op' = ok /\ faults = 0 /\ dry
      BY <1>1, <1>2, <2>2, LInvParts
    <3> QED
      BY <1>2, <1>4, <3>1, LInvParts DEF Fits, DryInv
  <2>3. dry' => op' \notin {"seniorLoop", "seniorReviewing", "seniorRemediating"}
    BY <1>1, <1>2 DEF Fits
  <2> QED
    BY <1>3, <2>1, <2>2, <2>3 DEF DryInv
<1> QED
  BY <1>5, <1>6, <1>7, <1>8, <1>9, <1>10, <1>11 DEF LInv

\* A step of the orchestrator that only goes on, to where the record fits.
LEMMA GoKeeps ==
  ASSUME LInv, op \notin {"down", "running", "classify", "end"},
         op' \in Op \ {"running", "down"}, UNCHANGED noOwner,
         UNCHANGED <<progVars, dry, requests, cmd>>,
         pauseReq' \in BOOLEAN, stopReq' \in BOOLEAN, work' \in SUBSET Subtask,
         op' \in Before => op \in Before,
         op' \notin {"end", "classify"} => Fits(mem, op'),
         op' = "classify" => ~ dry \/ interrupted
  PROVE  LInv'
<1>1. UNCHANGED <<mem, disk, faults, pc, batch, wpc, result, interrupted, stopFired>>
  BY DEF noOwner, progVars
<1>2. /\ pc \in {"down", "returned"} /\ mem = disk
      /\ \A s \in Subtask : wpc[s] \in {"idle", "finished"}
  BY AtRest
<1>3. IInv' /\ InBudget(disk)' /\ PausedIsBoundary' /\ (op' # "end" => Settled')
  BY <1>1, LInvParts, OrchestratorKeepsEngine DEF SameSubtasks
<1>4. LifecycleTypeOK'
  BY <1>1, <1>3, LInvParts DEF LifecycleTypeOK, IInv, Op
<1>5. RecordInv(mem)' /\ RecordInv(disk)'
  BY <1>1, LInvParts DEF RecordInv, AllDone, NotReviewed
<1>6. disk.status \notin {"completed", "failed"}
  BY LInvParts DEF VerdictInv
<1>7. PhaseInv'
  <2>1. op' \in Before => pc' = "down"
    BY <1>1, LInvParts DEF PhaseInv, Before
  <2>2. pc' \in {"down", "returned"} /\ (pc' = "down" => result' = "none") /\ op' # "running"
    BY <1>1, <1>2, LInvParts DEF PhaseInv
  <2>3. CASE op' \in {"end", "classify"}
    BY <1>1, <1>2, <2>1, <2>2, <2>3 DEF PhaseInv, Before, After, InReview
  <2>4. CASE op' \notin {"end", "classify"}
    BY <1>1, <1>2, <2>1, <2>2, <2>4 DEF PhaseInv, Fits, AllDone, NotReviewed
  <2> QED
    BY <2>3, <2>4
<1>8. ReturnInv' /\ VerdictInv'
  BY <1>1, <1>6 DEF ReturnInv, VerdictInv
<1>9. DryInv'
  <2>1. NoBlocked(mem)' /\ NoBlocked(disk)' /\ (faults' = 0 => mem' = disk')
    BY <1>1, <1>2, LInvParts DEF DryInv, NoBlocked
  <2>2. ASSUME dry', faults' = 0
        PROVE  /\ result' # "error"
               /\ \A s \in Subtask : wpc'[s] \in {"idle", "finished"}
               /\ op' = "classify" => interrupted'
    <3>1. faults = 0 /\ dry
      BY <1>1, <2>2
    <3> QED
      BY <1>1, <1>2, <3>1, LInvParts DEF Fits, DryInv
  <2>3. dry' => op' \notin {"seniorLoop", "seniorReviewing", "seniorRemediating"}
    BY <1>1 DEF Fits
  <2> QED
    BY <2>1, <2>2, <2>3 DEF DryInv
<1> QED
  BY <1>3, <1>4, <1>5, <1>7, <1>8, <1>9 DEF LInv

\* drive picks the phase the status names, or after an abort the one the record
\* shows to have been reached.
LEMMA DriveKeeps ==
  ASSUME LInv, Drive PROVE LInv'
<1>1. /\ op = "drive" /\ UNCHANGED <<noOwner, progVars, dry, requests, cmd, work>>
      /\ pauseReq' \in BOOLEAN /\ stopReq' \in BOOLEAN
  BY LInvParts DEF Drive, markerVars, noOwner, TypeOK
<1>2. pc = "down" /\ disk.status \notin {"completed", "failed"} /\ mem = disk
  BY <1>1, LInvParts DEF PhaseInv, VerdictInv, Before
<1>3. mem.status \in RunStatus /\ mem.senior \in SeniorReviewStatus /\ mem.planned \in BOOLEAN
  BY LInvParts DEF Run
<1>4. op' \in {"plan", "gate", "enterRun", "senior"} /\ Fits(mem, op')
  <2>1. CASE mem.status = "aborted"
    <3>1. op' = phaseAfterAbort
      BY <2>1 DEF Drive
    <3> QED
      BY <1>2, <2>1, <3>1, LInvParts
         DEF phaseAfterAbort, RecordInv, Fits, NotReviewed, AllDone, Before, After, InReview
  <2>2. CASE mem.status \notin {"aborted", "completed", "failed"}
    <3>1. \/ mem.status \in {"created", "planning"} /\ op' = "plan"
          \/ mem.status = "planned" /\ op' = "gate"
          \/ mem.status \in {"executing", "paused"} /\ op' = "enterRun"
          \/ mem.status = "seniorReview" /\ op' = "senior"
      BY <1>3, <2>2 DEF Drive, RunStatus
    <3> QED
      BY <1>3, <2>2, <3>1, LInvParts
         DEF RecordInv, Fits, NotReviewed, AllDone, Before, After, InReview
  <2> QED
    BY <1>2, <2>1, <2>2
<1> QED
  <2>1. work' \in SUBSET Subtask
    BY <1>1, LInvParts DEF LifecycleTypeOK
  <2> QED
    BY <1>1, <1>4, <2>1, GoKeeps DEF Op, Before

\* A status written by the orchestrator, and nothing else.
LEMMA StatusWrites ==
  ASSUME mem \in Run, NEW v \in RunStatus
  PROVE  LET run == [mem EXCEPT !.status = v]
         IN  run \in Run /\ run.status = v /\ SameSubtasks(run, mem) /\ Aside(run, mem)
BY DEF Run, SameSubtasks, Aside

\* The planner: the status first, then the plan with its subtasks afresh.
LEMMA PlanningKeeps ==
  ASSUME LInv, StartPlanning \/ PlanReady \/ PlanErrs \/ Gate
  PROVE  LInv'
<1>1. /\ mem \in Run /\ RecordInv(mem) /\ NoBlocked(mem) /\ UNCHANGED aside
      /\ op \in {"plan", "planner", "gate"} /\ mem = disk /\ pc = "down"
  BY LInvParts DEF StartPlanning, PlanReady, PlanErrs, Gate, DryInv, PhaseInv, Before
<1>2. mem.status \notin {"completed", "failed"} /\ OnError \in {"classify", "end"}
  BY <1>1, LInvParts DEF VerdictInv, OnError
<1>3. CASE StartPlanning
  <2> DEFINE run == [mem EXCEPT !.status = "planning"]
  <2>1. op = "plan" /\ Persist(run, "planner", OnError) /\ ~ mem.planned
    BY <1>3, LInvParts DEF StartPlanning, PhaseInv
  <2>2. /\ run \in Run /\ run.status = "planning" /\ SameSubtasks(run, mem) /\ Aside(run, mem)
    BY <1>1, StatusWrites DEF RunStatus
  <2> HIDE DEF run
  <2>3. RecordInv(run) /\ NoBlocked(run)
    BY <1>1, <2>1, <2>2
       DEF RecordInv, NoBlocked, AllDone, NotReviewed, SameSubtasks, Aside
  <2>4. Fits(run, "planner")
    BY <2>1, <2>2 DEF Fits, Aside, After, InReview
  <2> QED
    BY <1>1, <1>2, <2>1, <2>2, <2>3, <2>4, PersistKeeps DEF Op, Before, Aside
<1>4. CASE PlanReady
  <2> DEFINE run == [mem EXCEPT !.status = "planned", !.planned = TRUE,
                                !.st     = [s \in Subtask |-> "pending"],
                                !.loops  = [s \in Subtask |-> 0],
                                !.open   = [s \in Subtask |-> FALSE]]
             ok == IF cmd = "plan" THEN "end" ELSE "gate"
  <2>1. op = "planner" /\ Persist(run, ok, OnError) /\ ~ mem.planned
    BY <1>4, LInvParts DEF PlanReady, PhaseInv
  <2>2. /\ run \in Run /\ run.status = "planned" /\ run.planned /\ FreshSubtasks(run)
        /\ run.senior = mem.senior /\ run.rounds = mem.rounds
        /\ run.seniorOpen = mem.seniorOpen
    BY <1>1 DEF Run, RunStatus, SubtaskStatus, FreshSubtasks
  <2> HIDE DEF run
  <2>3. RecordInv(run) /\ NoBlocked(run)
    BY <1>1, <2>1, <2>2 DEF RecordInv, NoBlocked, AllDone, NotReviewed, FreshSubtasks
  <2>4. Fits(run, ok)
    BY <1>1, <2>1, <2>2 DEF Fits, RecordInv, NotReviewed, After, InReview
  <2>5. \A s \in Subtask : mem.st[s] = "pending"
    BY <1>1, <2>1 DEF RecordInv
  <2> QED
    BY <1>1, <1>2, <2>1, <2>2, <2>3, <2>4, <2>5, PersistKeeps DEF Op, Before
<1>5. CASE PlanErrs
  <2>1. work' \in SUBSET Subtask /\ pauseReq' \in BOOLEAN /\ stopReq' \in BOOLEAN
    BY <1>1, LInvParts DEF LifecycleTypeOK, TypeOK, aside, givenVars, markerVars
  <2>2. UNCHANGED <<noOwner, progVars, dry, requests, cmd>> /\ op' = OnError
    BY <1>5 DEF PlanErrs, aside, givenVars
  <2> QED
    BY <1>1, <1>2, <1>5, <2>1, <2>2, GoKeeps DEF PlanErrs, Op, Before
<1>6. CASE Gate
  <2>1. mem.planned /\ NotReviewed(mem) /\ op = "gate"
    BY <1>6, LInvParts DEF Gate, PhaseInv
  <2>2. CASE op' = "end" /\ UNCHANGED noOwner
    <3>1. work' \in SUBSET Subtask /\ pauseReq' \in BOOLEAN /\ stopReq' \in BOOLEAN
      BY <1>1, LInvParts DEF LifecycleTypeOK, TypeOK, aside, givenVars, markerVars
    <3>2. UNCHANGED <<noOwner, progVars, dry, requests, cmd>>
      BY <1>1, <2>2 DEF aside, givenVars
    <3> QED
      BY <2>1, <2>2, <3>1, <3>2, GoKeeps DEF Op, Before
  <2>3. CASE Persist([mem EXCEPT !.status = "executing"], "enterRun", "classify")
    <3> DEFINE run == [mem EXCEPT !.status = "executing"]
    <3>1. /\ run \in Run /\ run.status = "executing" /\ SameSubtasks(run, mem)
          /\ Aside(run, mem)
      BY <1>1, StatusWrites DEF RunStatus
    <3>2. Persist(run, "enterRun", "classify")
      BY <2>3
    <3> HIDE DEF run
    <3>3. RecordInv(run) /\ NoBlocked(run)
      BY <1>1, <2>1, <3>1
         DEF RecordInv, NoBlocked, AllDone, NotReviewed, SameSubtasks, Aside
    <3>4. Fits(run, "enterRun")
      BY <2>1, <3>1 DEF Fits, Aside, NotReviewed, After, InReview
    <3> QED
      BY <1>1, <2>1, <3>1, <3>2, <3>3, <3>4, PersistKeeps DEF Op, Before, Aside
  <2> QED
    BY <1>6, <2>2, <2>3 DEF Gate
<1> QED
  BY <1>3, <1>4, <1>5, <1>6

\* The senior review, entered with every subtask done and left with its budget
\* respected.
LEMMA SeniorKeeps ==
  ASSUME LInv, ToSenior \/ Complete \/ SeniorStep
  PROVE  LInv'
<1>1. /\ mem \in Run /\ RecordInv(mem) /\ NoBlocked(mem) /\ UNCHANGED aside
      /\ op \in After /\ mem = disk /\ AllDone(mem)
  BY LInvParts DEF ToSenior, Complete, SeniorStep, SeniorEnter, SeniorDryRun, SeniorLoop,
       SeniorApproves, SeniorReports, SeniorRemediates, SeniorErrs, SeniorRemediated,
       DryInv, PhaseInv, After
<1>2. mem.status \notin {"completed", "failed"} /\ mem.status # "paused"
  BY <1>1, LInvParts DEF VerdictInv, PausedIsBoundary, AllDone, IsTerminal, After
<1>3. /\ mem.rounds \in Nat /\ SeniorMaxLoops \in Int /\ mem.senior \in SeniorReviewStatus
      /\ mem.status \in RunStatus /\ SeniorEnabled \in BOOLEAN
  BY <1>1, LifecycleAssumption DEF Run
<1>4. work' \in SUBSET Subtask /\ pauseReq' \in BOOLEAN /\ stopReq' \in BOOLEAN
  BY <1>1, LInvParts DEF LifecycleTypeOK, TypeOK, aside, givenVars, markerVars
<1>5. UNCHANGED <<progVars, dry, requests, cmd>>
  BY <1>1 DEF aside, givenVars
<1>6. ASSUME NEW run \in Run, NEW ok \in After \cup {"end"}, Persist(run, ok, "classify"),
             SameSubtasks(run, mem), run.planned = mem.planned,
             run.status \in {mem.status, "seniorReview", "completed"},
             RecordInv(run), Fits(run, ok)
      PROVE  LInv'
  <2>1. NoBlocked(run) /\ run.status # "paused"
    BY <1>1, <1>2, <1>6 DEF NoBlocked, SameSubtasks
  <2>2. ok \notin Before /\ ok \in Op \ {"running", "classify", "down"}
    BY <1>6 DEF After, Before, Op
  <2>3. op \notin {"down", "running", "classify", "end"}
    BY <1>1 DEF After
  <2> QED
    BY <1>1, <1>6, <2>1, <2>2, <2>3, PersistKeeps

<1>7. CASE ToSenior
  <2> DEFINE run == [mem EXCEPT !.status = "seniorReview"]
  <2>1. Persist(run, "senior", "classify") /\ mem.planned
    BY <1>1, <1>7, LInvParts DEF ToSenior, PhaseInv
  <2>2. /\ run \in Run /\ run.status = "seniorReview" /\ SameSubtasks(run, mem) /\ Aside(run, mem)
    BY <1>1, StatusWrites DEF RunStatus
  <2> HIDE DEF run
  <2>3. RecordInv(run)
    BY <1>1, <2>1, <2>2 DEF RecordInv, AllDone, NotReviewed, SameSubtasks, Aside
  <2>4. Fits(run, "senior")
    BY <1>1, <2>1, <2>2 DEF Fits, Aside, SameSubtasks, AllDone, InReview
  <2> QED
    BY <1>6, <2>1, <2>2, <2>3, <2>4 DEF After, Aside
<1>8. CASE Complete
  <2> DEFINE run == [mem EXCEPT !.status = "completed"]
  <2>1. /\ Persist(run, "end", "classify") /\ mem.planned
        /\ mem.senior = IF SeniorEnabled THEN "done" ELSE "skipped"
    BY <1>1, <1>8, LInvParts DEF Complete, PhaseInv
  <2>2. /\ run \in Run /\ run.status = "completed" /\ SameSubtasks(run, mem) /\ Aside(run, mem)
    BY <1>1, StatusWrites DEF RunStatus
  <2> HIDE DEF run
  <2>3. RecordInv(run)
    BY <1>1, <2>1, <2>2 DEF RecordInv, AllDone, NotReviewed, SameSubtasks, Aside
  <2>4. Fits(run, "end")
    BY <2>2 DEF Fits, After, InReview
  <2> QED
    BY <1>6, <2>1, <2>2, <2>3, <2>4 DEF Aside
<1>9. CASE SeniorEnter
  <2>0. mem.planned /\ op = "senior"
    BY <1>1, <1>9, LInvParts DEF PhaseInv, SeniorEnter
  <2>1. CASE /\ ~ SeniorEnabled
             /\ Persist([mem EXCEPT !.senior = "skipped"], "complete", "classify")
    <3> DEFINE run == [mem EXCEPT !.senior = "skipped"]
    <3>1. Persist(run, "complete", "classify")
      BY <2>1
    <3>2. /\ run \in Run /\ run.status = mem.status /\ SameSubtasks(run, mem)
          /\ run.planned = mem.planned /\ run.senior = "skipped"
          /\ run.rounds = mem.rounds /\ run.seniorOpen = mem.seniorOpen
      BY <1>1 DEF Run, SeniorReviewStatus, SameSubtasks
    <3> HIDE DEF run
    <3>3. RecordInv(run)
      BY <1>1, <1>2, <2>0, <2>1, <3>2 DEF RecordInv, AllDone, NotReviewed, SameSubtasks
    <3>4. Fits(run, "complete")
      BY <1>1, <1>2, <2>0, <2>1, <3>2 DEF Fits, SameSubtasks, AllDone, InReview
    <3> QED
      BY <1>6, <3>1, <3>2, <3>3, <3>4 DEF After
  <2>2. CASE SeniorEnabled /\ mem.senior = "done" /\ op' = "complete" /\ UNCHANGED noOwner
    <3>1. Fits(mem, "complete")
      BY <1>1, <1>2, <2>0, <2>2 DEF Fits, InReview
    <3> QED
      BY <1>4, <1>5, <2>0, <2>2, <3>1, GoKeeps DEF Op, Before
  <2>3. CASE /\ SeniorEnabled /\ mem.senior # "done"
             /\ Persist([mem EXCEPT !.status = "seniorReview", !.senior = "running"],
                        IF dry THEN "seniorDry" ELSE "seniorLoop", "classify")
    <3> DEFINE run == [mem EXCEPT !.status = "seniorReview", !.senior = "running"]
               ok == IF dry THEN "seniorDry" ELSE "seniorLoop"
    <3>1. Persist(run, ok, "classify") /\ ok \in After
      BY <2>3 DEF After
    <3>2. /\ run \in Run /\ run.status = "seniorReview" /\ SameSubtasks(run, mem)
          /\ run.planned = mem.planned /\ run.senior = "running"
          /\ run.rounds = mem.rounds /\ run.seniorOpen = mem.seniorOpen
      BY <1>1 DEF Run, SeniorReviewStatus, RunStatus, SameSubtasks
    <3> HIDE DEF run
    <3>3. RecordInv(run)
      BY <1>1, <2>0, <2>3, <3>2 DEF RecordInv, AllDone, NotReviewed, SameSubtasks
    <3>4. Fits(run, ok)
      BY <1>1, <2>0, <3>2 DEF Fits, SameSubtasks, AllDone, Before, After, InReview
    <3> HIDE DEF ok
    <3> QED
      BY <1>6, <3>1, <3>2, <3>3, <3>4
  <2> QED
    BY <1>9, <2>1, <2>2, <2>3 DEF SeniorEnter
<1>10. ASSUME op \in InReview
       PROVE  /\ mem.planned /\ mem.senior = "running" /\ SeniorEnabled /\ ~ mem.seniorOpen
              /\ mem.status \in {"seniorReview", "aborted"}
              /\ SeniorMaxLoops >= 0 => mem.rounds <= SeniorMaxLoops
  BY <1>1, <1>2, <1>10, LInvParts DEF PhaseInv, RecordInv, NotReviewed
<1>11. ASSUME NEW flagged \in BOOLEAN, SeniorDone(flagged), op \in InReview,
              flagged => mem.rounds = SeniorMaxLoops
       PROVE  LInv'
  <2> DEFINE run == [mem EXCEPT !.senior = "done", !.seniorOpen = flagged]
  <2>1. Persist(run, "complete", "classify")
    BY <1>11 DEF SeniorDone
  <2>2. /\ run \in Run /\ run.status = mem.status /\ SameSubtasks(run, mem)
        /\ run.planned = mem.planned /\ run.senior = "done"
        /\ run.rounds = mem.rounds /\ run.seniorOpen = flagged
    BY <1>1 DEF Run, SeniorReviewStatus, SameSubtasks
  <2> HIDE DEF run
  <2>3. RecordInv(run)
    BY <1>1, <1>10, <1>11, <2>2 DEF RecordInv, AllDone, NotReviewed, SameSubtasks
  <2>4. Fits(run, "complete")
    BY <1>1, <1>2, <1>10, <1>11, <2>2 DEF Fits, SameSubtasks, AllDone, InReview
  <2> QED
    BY <1>6, <2>1, <2>2, <2>3, <2>4 DEF After
<1>12. CASE SeniorDryRun \/ SeniorApproves
  BY <1>11, <1>12 DEF SeniorDryRun, SeniorApproves, InReview
<1>13. CASE SeniorReports
  <2>1. PICK flagged \in BOOLEAN : SeniorDone(flagged)
    BY <1>13 DEF SeniorReports
  <2>2. op \in InReview /\ seniorBudgetSpent
    BY <1>13 DEF SeniorReports, InReview
  <2>3. mem.rounds = SeniorMaxLoops
    BY <1>3, <1>10, <2>2 DEF seniorBudgetSpent
  <2> QED
    BY <1>11, <2>1, <2>2, <2>3
<1>14. CASE SeniorRemediates
  <2> DEFINE run == [mem EXCEPT !.rounds = @ + 1]
  <2>1. Persist(run, "seniorRemediating", "classify") /\ op = "seniorReviewing"
    BY <1>14 DEF SeniorRemediates
  <2>2. /\ run \in Run /\ run.status = mem.status /\ SameSubtasks(run, mem)
        /\ run.planned = mem.planned /\ run.senior = mem.senior
        /\ run.rounds = mem.rounds + 1 /\ run.seniorOpen = mem.seniorOpen
    BY <1>1, <1>3 DEF Run, SameSubtasks
  <2>3. SeniorMaxLoops >= 0 => mem.rounds + 1 <= SeniorMaxLoops
    BY <1>3, <1>14 DEF SeniorRemediates, seniorBudgetSpent
  <2>4. ~ dry
    BY <2>1, LInvParts DEF DryInv
  <2> HIDE DEF run
  <2>5. RecordInv(run)
    BY <1>1, <1>10, <2>1, <2>2, <2>3
       DEF RecordInv, AllDone, NotReviewed, SameSubtasks, InReview
  <2>6. Fits(run, "seniorRemediating")
    BY <1>1, <1>2, <1>10, <2>1, <2>2, <2>4 DEF Fits, SameSubtasks, AllDone, InReview
  <2> QED
    BY <1>6, <2>1, <2>2, <2>5, <2>6 DEF After
<1>15. CASE SeniorLoop \/ SeniorErrs \/ SeniorRemediated
  <2>1. /\ op \in {"seniorLoop", "seniorReviewing", "seniorRemediating"}
        /\ UNCHANGED noOwner /\ op' \in {"classify", "seniorReviewing", "seniorLoop"}
    BY <1>15 DEF SeniorLoop, SeniorErrs, SeniorRemediated
  <2>2. ~ dry
    BY <2>1, LInvParts DEF DryInv
  <2>3. op' # "classify" => Fits(mem, op')
    BY <1>1, <1>2, <1>10, <2>1, <2>2 DEF Fits, InReview, Before
  <2> QED
    BY <1>4, <1>5, <2>1, <2>2, <2>3, GoKeeps DEF Op, Before
<1> QED
  BY <1>7, <1>8, <1>9, <1>12, <1>13, <1>14, <1>15 DEF SeniorStep

\* An amend: from a paused run to the same plan afresh, or to the end of the
\* command with the run as it was.
LEMMA AmendKeeps ==
  ASSUME LInv, AmendStep PROVE LInv'
<1>1. /\ mem \in Run /\ RecordInv(mem) /\ NoBlocked(mem) /\ mem = disk /\ pc = "down"
      /\ op \in {"amendRestore", "amendReload", "amendReset", "amendClear"}
  BY LInvParts
     DEF AmendStep, AmendRestore, AmendReload, AmendReset, AmendClear, DryInv, PhaseInv, Before
<1>2. /\ mem.status \in {"paused", "executing"}
      /\ op \in {"amendRestore", "amendReload", "amendReset"} => mem.status = "paused"
      /\ op = "amendClear" => mem.status = "executing"
  BY <1>1, LInvParts DEF PhaseInv
<1>3. mem.planned /\ NotReviewed(mem)
  BY <1>1, <1>2 DEF RecordInv
<1>4. CASE AmendRestore \/ AmendReload \/ AmendClear
  <2>1. /\ UNCHANGED <<noOwner, progVars, dry, requests, cmd>>
        /\ pauseReq' \in BOOLEAN /\ stopReq' \in BOOLEAN /\ work' \in SUBSET Subtask
        /\ op' \in {"amendReload", "amendReset", "enterRun", "end"}
        /\ op' = "enterRun" => op = "amendClear"
        /\ op' \in {"amendReload", "amendReset"} => op # "amendClear"
    BY <1>4, LInvParts
       DEF AmendRestore, AmendReload, AmendClear, LifecycleTypeOK, TypeOK, aside, givenVars,
           markerVars
  <2>2. op' # "end" => Fits(mem, op')
    BY <1>1, <1>2, <1>3, <2>1 DEF Fits, After, InReview
  <2> QED
    BY <1>1, <2>1, <2>2, GoKeeps DEF Op, Before
<1>5. CASE AmendReset
  <2> DEFINE run == [mem EXCEPT !.status = "executing",
                                !.st     = [s \in Subtask |-> "pending"],
                                !.loops  = [s \in Subtask |-> 0],
                                !.open   = [s \in Subtask |-> FALSE],
                                !.senior = "pending", !.rounds = 0, !.seniorOpen = FALSE]
  <2>1. op = "amendReset" /\ Persist(run, "amendClear", "end") /\ UNCHANGED aside
    BY <1>5 DEF AmendReset
  <2>2. /\ run \in Run /\ run.status = "executing" /\ FreshSubtasks(run)
        /\ run.planned = mem.planned /\ run.senior = "pending" /\ run.rounds = 0
        /\ ~ run.seniorOpen
    BY <1>1 DEF Run, RunStatus, SubtaskStatus, SeniorReviewStatus, FreshSubtasks
  <2> HIDE DEF run
  <2>3. RecordInv(run) /\ NoBlocked(run)
    BY <1>3, <2>2, LifecycleAssumption
       DEF RecordInv, NoBlocked, AllDone, NotReviewed, FreshSubtasks
  <2>4. Fits(run, "amendClear")
    BY <2>2 DEF Fits, After, InReview
  <2> QED
    BY <1>3, <2>1, <2>2, <2>3, <2>4, PersistKeeps DEF Op, Before
<1> QED
  BY <1>4, <1>5 DEF AmendStep

-----------------------------------------------------------------------------
(* Into the engine and out of it.                                          *)

\* The engine starts with the record read, planned and not yet reviewed.
LEMMA EnterRunKeeps ==
  ASSUME LInv, EnterRun PROVE LInv'
<1>1. /\ op = "enterRun" /\ op' = "running" /\ pc' = "begin" /\ watcher' = "polling"
      /\ UNCHANGED <<mem, disk, faults, batch, wpc, result, interrupted, stopFired, dry,
                     pauseReq, stopReq, requests, cmd, work>>
  BY DEF EnterRun, noOwner, givenVars, markerVars
<1>2. /\ pc = "down" /\ mem = disk /\ batch = {} /\ Holders = {} /\ result = "none"
      /\ \A s \in Subtask : wpc[s] \in {"idle", "finished"}
      /\ mem.planned /\ NotReviewed(mem)
  BY <1>1, AtRest, LInvParts DEF PhaseInv, Before
<1>3. LifecycleTypeOK'
  BY <1>1, LInvParts DEF LifecycleTypeOK, TypeOK, Op, RunPC
<1>4. IInv'
  BY <1>1, <1>2, <1>3, LInvParts, OutsideBatch DEF LifecycleTypeOK, Holders
<1>5. Settled' /\ InBudget(disk)' /\ PausedIsBoundary'
  <2>1. Settled'
    BY <1>1, <1>2, LInvParts, ReadSettled
  <2> QED
    BY <2>1 DEF Settled
<1>6. RecordInv(mem)' /\ RecordInv(disk)'
  BY <1>1, LInvParts DEF RecordInv, AllDone, NotReviewed
<1>7. PhaseInv'
  BY <1>1, <1>2 DEF PhaseInv, NotReviewed, Before, After, InReview
<1>8. ReturnInv' /\ VerdictInv'
  BY <1>1, LInvParts DEF ReturnInv, VerdictInv
<1>9. DryInv'
  BY <1>1, <1>2, LInvParts DEF DryInv, NoBlocked, Canceled
<1> QED
  BY <1>3, <1>4, <1>5, <1>6, <1>7, <1>8, <1>9 DEF LInv

\* Run has returned: on to the review, to the end, or to a verdict.
LEMMA RunReturnedKeeps ==
  ASSUME LInv, RunReturned PROVE LInv'
<1>1. /\ op = "running" /\ pc = "returned"
      /\ op' = CASE result = "nil"    -> "toSenior"
                 [] result = "paused" -> "end"
                 [] OTHER             -> "classify"
      /\ UNCHANGED <<mem, disk, faults, pc, batch, wpc, result, watcher, interrupted,
                     stopFired, dry, pauseReq, stopReq, requests, cmd, work>>
  BY DEF RunReturned, noOwner, aside, progVars, givenVars, markerVars
<1>2. /\ \/ result = "nil" /\ op' = "toSenior"
         \/ result = "paused" /\ op' = "end"
         \/ result \in {"failed", "canceled", "error"} /\ op' = "classify"
  BY <1>1, LInvParts DEF ReturnInv, TypeOK, Result
<1>3. LifecycleTypeOK'
  BY <1>1, <1>2, LInvParts DEF LifecycleTypeOK, TypeOK, Op
<1>4. IInv' /\ Settled' /\ InBudget(disk)' /\ PausedIsBoundary'
  <2>1. IInv'
    BY <1>1, <1>3, LInvParts, StillIInv DEF LifecycleTypeOK
  <2>2. Settled'
    BY <1>1, LInvParts, StillSettled DEF SInv
  <2> QED
    BY <2>1, <2>2 DEF Settled
<1>5. RecordInv(mem)' /\ RecordInv(disk)'
  BY <1>1, LInvParts DEF RecordInv, AllDone, NotReviewed
<1>6. PhaseInv'
  <2>1. mem.planned /\ (result = "nil" => mem = disk /\ AllDone(mem)
                           /\ \A s \in Subtask : wpc[s] \in {"idle", "finished"})
    BY <1>1, LInvParts DEF PhaseInv, ReturnInv
  <2> QED
    BY <1>1, <1>2, <2>1, LInvParts
       DEF PhaseInv, NotReviewed, AllDone, Before, After, InReview
<1>7. ReturnInv'
  BY <1>2 DEF ReturnInv
<1>8. VerdictInv'
  BY <1>1, <1>2, LInvParts DEF VerdictInv, ReturnInv
<1>9. DryInv'
  <2>1. NoBlocked(mem)' /\ NoBlocked(disk)' /\ (faults' = 0 => mem' = disk')
    BY <1>1, LInvParts DEF DryInv, NoBlocked
  <2>2. ASSUME dry', faults' = 0
        PROVE  /\ result' # "error"
               /\ \A s \in Subtask : wpc'[s] \notin {"reviewing", "remediating", "broken"}
               /\ \A s \in Subtask : wpc'[s] = "failing" => Canceled'
               /\ op' = "classify" => interrupted' \/ result' = "canceled" \/ mem'.status = "failed"
    BY <1>1, <1>2, <2>2, LInvParts DEF DryInv, Canceled, ReturnInv
  <2> QED
    BY <1>2, <2>1, <2>2 DEF DryInv
<1> QED
  BY <1>3, <1>4, <1>5, <1>6, <1>7, <1>8, <1>9 DEF LInv

\* A verdict is written over nothing that is already settled.
LEMMA ClassifyKeeps ==
  ASSUME LInv, Classify PROVE LInv'
<1>1. /\ op = "classify" /\ op' = "end"
      /\ UNCHANGED <<pc, batch, wpc, result, watcher, interrupted, stopFired, dry, pauseReq,
                     stopReq, requests, cmd, work>>
  BY DEF Classify, aside, progVars, givenVars, markerVars
<1>2. \/ UNCHANGED <<mem, disk, faults>>
      \/ \E v \in {"aborted", "failed"} :
           /\ mem.status \notin {"completed", "failed"}
           /\ mem' = [mem EXCEPT !.status = v]
           /\ \/ disk' = mem' /\ faults' = faults
              \/ disk' = disk /\ faults' = faults + 1
           /\ dry /\ faults' = 0 => v = "aborted"
  <2>1. CASE IsTerminalRun(mem.status)
    BY <2>1 DEF Classify, noOwner
  <2>2. CASE ~ IsTerminalRun(mem.status)
    <3> DEFINE v == IF interrupted \/ result = "canceled" THEN "aborted" ELSE "failed"
    <3>1. Saved([mem EXCEPT !.status = v]) \/ SaveFails([mem EXCEPT !.status = v])
      BY <2>2 DEF Classify
    <3>2. mem.status \notin {"completed", "failed"}
      BY <2>2 DEF IsTerminalRun
    <3>3. dry /\ faults = 0 => v = "aborted"
      BY <1>1, <3>2, LInvParts DEF DryInv
    <3>4. v \in {"aborted", "failed"}
      OBVIOUS
    <3> HIDE DEF v
    <3> QED
      BY <3>1, <3>2, <3>3, <3>4, LInvParts DEF Saved, SaveFails
  <2> QED
    BY <2>1, <2>2
<1>3. ASSUME NEW v \in {"aborted", "failed"}, mem.status \notin {"completed", "failed"},
             mem' = [mem EXCEPT !.status = v]
      PROVE  /\ mem' \in Run /\ mem'.status = v /\ SameSubtasks(mem', mem) /\ Aside(mem', mem)
             /\ RecordInv(mem')
  <2>1. mem' \in Run /\ mem'.status = v /\ SameSubtasks(mem', mem) /\ Aside(mem', mem)
    BY <1>3, LInvParts, StatusWrites DEF RunStatus
  <2> QED
    BY <1>3, <2>1, LInvParts DEF RecordInv, AllDone, NotReviewed, SameSubtasks, Aside
<1>4. /\ mem' \in Run /\ disk' \in {disk, mem'} /\ faults' \in Nat
      /\ SameSubtasks(mem', mem) /\ Aside(mem', mem) /\ RecordInv(mem')
      /\ mem'.status \in {mem.status, "aborted", "failed"}
  BY <1>2, <1>3, LInvParts DEF SameSubtasks, Aside
<1>5. /\ pc \in {"down", "returned"} /\ batch = {} /\ Holders = {} /\ SInv
      /\ Holders' = {} /\ InBudget(mem)
  <2>1. pc \in {"down", "returned"} /\ SInv
    BY <1>1, LInvParts DEF PhaseInv
  <2> QED
    BY <1>1, <2>1 DEF SInv, Settled, IInv, WorkersInBatch, Holders
<1>6. LifecycleTypeOK'
  BY <1>1, <1>4, LInvParts DEF LifecycleTypeOK, TypeOK, Op
<1>7. IInv'
  BY <1>1, <1>5, <1>6, LInvParts, OutsideBatch DEF LifecycleTypeOK
<1>8. InBudget(disk)'
  BY <1>4, <1>5, LInvParts DEF InBudget, SameSubtasks
<1>9. PausedIsBoundary'
  <2>1. disk'.status = "paused" => disk' = disk
    BY <1>2, <1>3
  <2> QED
    BY <1>5, <2>1, LInvParts DEF PausedIsBoundary
<1>10. RecordInv(mem)' /\ RecordInv(disk)'
  BY <1>4, LInvParts DEF RecordInv, AllDone, NotReviewed
<1>11. PhaseInv'
  BY <1>1, <1>4, <1>5, LInvParts DEF PhaseInv, Aside, Before, After, InReview
<1>12. ReturnInv' /\ VerdictInv'
  BY <1>1 DEF ReturnInv, VerdictInv
<1>13. DryInv'
  <2>1. NoBlocked(mem') /\ NoBlocked(disk')
    BY <1>4, LInvParts DEF DryInv, NoBlocked, SameSubtasks
  <2>2. faults' = 0 => mem' = disk' /\ faults = 0
    BY <1>2, LInvParts DEF DryInv
  <2> QED
    BY <1>1, <2>1, <2>2, LInvParts DEF DryInv, Canceled, NoBlocked
<1> QED
  BY <1>1, <1>6, <1>7, <1>8, <1>9, <1>10, <1>11, <1>12, <1>13 DEF LInv

-----------------------------------------------------------------------------
(* The engine inside the process.                                          *)

\* What a step of Run does to the two copies of the record.
LEMMA MainTouches ==
  ASSUME mem \in Run, faults \in Nat, MainStep
  PROVE  /\ pc \notin {"down", "returned"} /\ pc' # "down"
         /\ UNCHANGED <<interrupted, stopFired, dry>>
         /\ Aside(mem', mem)
         /\ mem' = mem \/ mem'.status \in {"executing", "paused", "failed"}
         /\ \A s \in Subtask : mem'.st[s] \in {mem.st[s], "pending"}
         /\ \/ UNCHANGED <<mem, disk, faults>>
            \/ disk' = mem' /\ faults' = faults
            \/ disk' = disk /\ faults' # 0
         /\ mem'.status = "failed" => mem' = mem \/ (pc' = "returned" /\ result' \in {"failed", "error"})
         /\ disk'.status = "failed" => disk' = disk \/ (pc' = "returned" /\ result' = "failed")
         /\ disk'.status = "completed" => disk' = disk
<1>1. UNCHANGED <<interrupted, stopFired, dry>> /\ pc' # "down" /\ pc \notin {"down", "returned"}
  BY DEF MainStep, Begin, LoopTop, Finalize, PauseAtBoundary, AckPause, Deadlock, SpawnBatch,
         JoinBatch, Return, givenVars
<1>2. CASE Begin
  <2> DEFINE run == [ResetInterrupted(mem) EXCEPT !.status = "executing"]
  <2>1. /\ run.status = "executing" /\ Aside(run, mem)
        /\ \A s \in Subtask : run.st[s] \in {mem.st[s], "pending"}
    BY ResetType DEF ResetInterrupted, Run, Aside
  <2>2. Saved(run) \/ SaveFails(run)
    BY <1>2 DEF Begin
  <2> HIDE DEF run
  <2> QED
    BY <1>1, <2>1, <2>2 DEF Saved, SaveFails
<1>3. ASSUME NEW v \in {"paused", "failed"},
             LET run == [mem EXCEPT !.status = v]
             IN  \/ Saved(run)
                 \/ SaveFails(run),
             v = "failed" => pc' = "returned" /\ result' \in {"failed", "error"},
             v = "failed" => result' = "failed" \/ disk' = disk
      PROVE  /\ Aside(mem', mem) /\ mem'.status = v /\ mem'.st = mem.st
             /\ \/ disk' = mem' /\ faults' = faults
                \/ disk' = disk /\ faults' # 0
  BY <1>3 DEF Saved, SaveFails, Run, Aside
<1>4. CASE Finalize
  <2>1. CASE UNCHANGED <<mem, disk, faults>>
    BY <1>1, <2>1 DEF Aside
  <2>2. CASE \/ Saved([mem EXCEPT !.status = "failed"]) /\ Return("failed")
             \/ SaveFails([mem EXCEPT !.status = "failed"]) /\ Return("error")
    <3>1. /\ pc' = "returned" /\ result' \in {"failed", "error"}
          /\ result' = "failed" \/ disk' = disk
      BY <2>2 DEF Return, SaveFails
    <3> QED
      BY <1>1, <1>3, <2>2, <3>1
  <2> QED
    BY <1>4, <2>1, <2>2 DEF Finalize
<1>5. CASE PauseAtBoundary
  <2>1. \/ Saved([mem EXCEPT !.status = "paused"])
        \/ SaveFails([mem EXCEPT !.status = "paused"])
    BY <1>5 DEF PauseAtBoundary
  <2> QED
    BY <1>1, <1>3, <2>1
<1>6. CASE Deadlock
  <2>1. /\ \/ Saved([mem EXCEPT !.status = "failed"])
           \/ SaveFails([mem EXCEPT !.status = "failed"])
        /\ pc' = "returned" /\ result' = "failed"
    BY <1>6 DEF Deadlock, Return
  <2> QED
    BY <1>1, <1>3, <2>1
<1>7. CASE LoopTop \/ AckPause \/ SpawnBatch \/ JoinBatch
  <2>1. UNCHANGED <<mem, disk, faults>>
    BY <1>7 DEF LoopTop, AckPause, SpawnBatch, JoinBatch
  <2> QED
    BY <1>1, <2>1 DEF Aside
<1> QED
  BY <1>2, <1>4, <1>5, <1>6, <1>7 DEF MainStep

\* A step of Run, the last one included, which tells its caller the truth.
LEMMA EngineMainKeeps ==
  ASSUME LInv, EngineMain PROVE LInv'
<1>1. /\ MainStep /\ UNCHANGED <<op, cmd, work>> /\ mem \in Run /\ disk \in Run
      /\ faults \in Nat
  BY LInvParts DEF EngineMain
<1>2. /\ pc \notin {"down", "returned"} /\ op = "running" /\ SInv
      /\ mem.planned /\ disk.planned /\ NotReviewed(mem) /\ NotReviewed(disk)
  BY <1>1, MainTouches, LInvParts DEF PhaseInv
<1>3. IInv' /\ Settled'
  BY <1>1, <1>2, LInvParts, SpawnKeepsIInv, JoinKeepsIInv, DecideKeepsIInv, SpawnStaysSettled,
     JoinStaysSettled, DecideStaysSettled DEF MainStep
<1>4. LifecycleTypeOK' /\ InBudget(disk)' /\ PausedIsBoundary'
  BY <1>1, <1>3, LInvParts DEF LifecycleTypeOK, IInv, Settled
<1>5. RecordInv(mem)'
  <2>1. CASE mem' = mem
    BY <2>1, LInvParts DEF RecordInv, AllDone, NotReviewed
  <2>2. CASE mem'.status \in {"executing", "paused", "failed"}
    BY <1>1, <1>2, <2>2, LInvParts, MainTouches DEF RecordInv, NotReviewed, Aside
  <2> QED
    BY <1>1, <2>1, <2>2, MainTouches
<1>6. RecordInv(disk)'
  <2>1. disk' \in {disk, mem'}
    BY <1>1, MainTouches
  <2> QED
    BY <1>5, <2>1, LInvParts DEF RecordInv, AllDone, NotReviewed
<1>7. PhaseInv'
  <2>1. /\ mem'.planned /\ disk'.planned /\ NotReviewed(mem') /\ NotReviewed(disk')
        /\ pc' # "down"
    BY <1>1, <1>2, MainTouches DEF Aside, NotReviewed
  <2> QED
    BY <1>1, <1>2, <2>1 DEF PhaseInv, NotReviewed, Before, After, InReview
<1>8. ReturnInv'
  <2> SUFFICES ASSUME pc' = "returned"
               PROVE  /\ result' # "none"
                      /\ result' = "nil" => /\ mem' = disk' /\ AllDone(mem')
                                            /\ \A s \in Subtask : wpc'[s] \in {"idle", "finished"}
                      /\ result' = "failed" => mem'.status = "failed"
    BY DEF ReturnInv, AllDone
  <2>1. CASE Begin \/ PauseAtBoundary
    BY <2>1 DEF Begin, PauseAtBoundary, Return
  <2>2. CASE LoopTop \/ AckPause \/ JoinBatch
    BY <2>2 DEF LoopTop, AckPause, JoinBatch, Return
  <2>3. CASE SpawnBatch
    BY <2>3 DEF SpawnBatch
  <2>4. CASE Deadlock
    <3>1. result' = "failed" /\ mem' = [mem EXCEPT !.status = "failed"]
      BY <2>4 DEF Deadlock, Return, Saved, SaveFails
    <3> QED
      BY <1>1, <3>1 DEF Run
  <2>5. CASE Finalize /\ SomeFailed
    <3>1. /\ result' \in {"failed", "error"} /\ mem' = [mem EXCEPT !.status = "failed"]
      BY <2>5 DEF Finalize, Return, Saved, SaveFails
    <3> QED
      BY <1>1, <3>1 DEF Run
  <2>6. CASE Finalize /\ ~ SomeFailed
    <3>1. /\ pc = "decide" /\ AllTerminal /\ result' = "nil"
          /\ UNCHANGED <<mem, disk, wpc>>
      BY <2>6 DEF Finalize, Return
    <3>2. mem = disk /\ \A s \in Subtask : wpc[s] \in {"idle", "finished"}
      BY <1>2, <3>1 DEF SInv, IInv, DecidesOnDurableState, Settled, WorkerInv, PlaceInv
    <3>3. AllDone(mem)
      BY <2>6, <3>1 DEF AllTerminal, SomeFailed, IsTerminal, AllDone
    <3> QED
      BY <3>1, <3>2, <3>3 DEF AllDone
  <2> QED
    BY <1>1, <2>1, <2>2, <2>3, <2>4, <2>5, <2>6 DEF MainStep
<1>9. VerdictInv'
  <2>1. disk.status \notin {"completed", "failed"}
    BY <1>2, LInvParts DEF VerdictInv
  <2>2. disk'.status \in {"completed", "failed"} => pc' = "returned" /\ result' = "failed"
    BY <1>1, <2>1, MainTouches
  <2> QED
    BY <1>1, <1>2, <2>2 DEF VerdictInv
<1>10. DryInv'
  <2>1. NoBlocked(mem') /\ NoBlocked(disk')
    BY <1>1, MainTouches, LInvParts DEF DryInv, NoBlocked
  <2>2. faults' = 0 => mem' = disk' /\ faults = 0
    BY <1>1, MainTouches, LInvParts DEF DryInv
  <2>3. UNCHANGED <<interrupted, stopFired, dry, op>>
    BY <1>1, MainTouches
  <2>4. ASSUME dry, faults = 0, faults' = 0
        PROVE  /\ result' # "error"
               /\ \A s \in Subtask : wpc'[s] \notin {"reviewing", "remediating", "broken"}
               /\ \A s \in Subtask : wpc'[s] = "failing" => wpc[s] = "failing"
    <3>1. /\ result # "error"
          /\ \A s \in Subtask : wpc[s] \notin {"reviewing", "remediating", "broken"}
      BY <2>4, LInvParts DEF DryInv
    <3>2. \A run : ~ SaveFails(run)
      BY <2>4 DEF SaveFails
    <3>3. CASE Begin \/ Finalize \/ PauseAtBoundary
      BY <3>1, <3>2, <3>3 DEF Begin, Finalize, PauseAtBoundary, Return
    <3>4. CASE LoopTop \/ AckPause \/ Deadlock
      BY <3>1, <3>4 DEF LoopTop, AckPause, Deadlock, Return
    <3>5. CASE SpawnBatch
      BY <3>1, <3>5 DEF SpawnBatch
    <3>6. CASE JoinBatch
      <4>1. batch \subseteq Subtask
        BY LInvParts DEF TypeOK
      <4> QED
        BY <3>1, <3>6, <4>1 DEF JoinBatch, Return
    <3> QED
      BY <1>1, <3>3, <3>4, <3>5, <3>6 DEF MainStep
  <2> QED
    BY <1>2, <2>1, <2>2, <2>3, <2>4, LInvParts DEF DryInv, Canceled
<1> QED
  BY <1>3, <1>4, <1>5, <1>6, <1>7, <1>8, <1>9, <1>10 DEF LInv

\* While no save fails, the worker of a dry process meets no error but a
\* cancelled context.
LEMMA DryWorker ==
  ASSUME dry, faults \in Nat, faults' = 0, wpc \in [Subtask -> WorkerPC],
         \A t \in Subtask : wpc[t] \notin {"reviewing", "remediating", "broken"},
         \A t \in Subtask : wpc[t] = "failing" => Canceled,
         NEW s \in Subtask, WorkerStep(s)
  PROVE  /\ faults = 0 /\ UNCHANGED <<dry, result, interrupted, stopFired>>
         /\ \A t \in Subtask : wpc'[t] \notin {"reviewing", "remediating", "broken"}
         /\ \A t \in Subtask : wpc'[t] = "failing" => Canceled
<1>1. UNCHANGED mainAndCtx
  BY DEF WorkerStep, AgentStep, OwnStep, StartSubtask, ExecutorReturns, EnterReview, Approve,
         ProceedFlagged, Remediate, ReviewErrs, RemediationReturns, SettleError
<1>2. wpc[s] \notin {"reviewing", "remediating", "broken"}
  OBVIOUS
<1>3. \A run : ~ SaveFails(run)
  BY DEF SaveFails
<1>4. \A run, ok, bad : Commit(s, run, ok, bad) => Goto(s, ok) /\ UNCHANGED faults
  BY <1>3 DEF Commit, Saved
<1>5. /\ UNCHANGED faults
      /\ \E q \in {"executing", "canceled", "review", "failing", "finished"} :
           Goto(s, q) /\ (q = "failing" => Canceled)
  <2>1. CASE StartSubtask(s)
    BY <1>4, <2>1 DEF StartSubtask, noOwner
  <2>2. CASE ExecutorReturns(s)
    BY <2>2 DEF ExecutorReturns, noOwner
  <2>3. CASE EnterReview(s)
    BY <1>4, <2>3 DEF EnterReview, noOwner
  <2>4. CASE SettleError(s)
    BY <1>4, <2>4 DEF SettleError, noOwner
  <2> QED
    BY <1>2, <2>1, <2>2, <2>3, <2>4
       DEF WorkerStep, AgentStep, OwnStep, Approve, ProceedFlagged, Remediate, ReviewErrs,
           RemediationReturns, At
<1> QED
  BY <1>1, <1>5 DEF mainAndCtx, givenVars, Goto

\* A step of a worker.
LEMMA EngineWorkKeeps ==
  ASSUME LInv, NEW s \in Subtask, EngineWork(s) PROVE LInv'
<1>1. /\ WorkerStep(s) /\ UNCHANGED <<op, cmd>> /\ mem \in Run /\ disk \in Run
      /\ faults \in Nat /\ work' \in SUBSET Subtask /\ wpc \in [Subtask -> WorkerPC]
  BY LInvParts DEF EngineWork, LifecycleTypeOK
<1>2. UNCHANGED <<pc, result, interrupted, stopFired, dry>>
  BY <1>1 DEF WorkerStep, AgentStep, OwnStep, StartSubtask, ExecutorReturns, EnterReview,
         Approve, ProceedFlagged, Remediate, ReviewErrs, RemediationReturns, SettleError,
         mainAndCtx, givenVars
<1>3. /\ pc = "join" /\ op = "running" /\ SInv /\ mem.status = "executing"
      /\ disk.status = "executing"
      /\ mem.planned /\ disk.planned /\ NotReviewed(mem) /\ NotReviewed(disk)
  <2>1. pc = "join" /\ op = "running"
    BY <1>1, WorkerTouchesOwn, LInvParts DEF PhaseInv
  <2> QED
    BY <2>1, LInvParts DEF PhaseInv, SInv, Settled, StatusInv
<1>4. IInv' /\ Settled'
  BY <1>1, <1>3, LInvParts, WorkerKeepsIInv, WorkerStaysSettled
<1>5. LifecycleTypeOK' /\ InBudget(disk)' /\ PausedIsBoundary'
  BY <1>1, <1>4, LInvParts DEF LifecycleTypeOK, IInv, Settled
<1>6. /\ disk' \in {disk, mem'} /\ mem'.status = "executing" /\ disk'.status = "executing"
      /\ mem'.planned /\ disk'.planned /\ NotReviewed(mem') /\ NotReviewed(disk')
  BY <1>1, <1>3, WorkerTouchesOwn DEF Aside, NotReviewed
<1>7. RecordInv(mem') /\ RecordInv(disk')
  <2>1. RecordInv(mem')
    BY <1>1, <1>3, <1>6, WorkerTouchesOwn, LInvParts DEF RecordInv, NotReviewed, Aside
  <2> QED
    BY <1>6, <2>1, LInvParts DEF RecordInv, AllDone, NotReviewed
<1>8. PhaseInv'
  BY <1>1, <1>2, <1>3, <1>6 DEF PhaseInv, NotReviewed, Before, After, InReview
<1>9. ReturnInv' /\ VerdictInv'
  BY <1>2, <1>3, <1>6 DEF ReturnInv, VerdictInv
<1>10. DryInv'
  <2>1. NoBlocked(mem') /\ NoBlocked(disk')
    <3>1. NoBlocked(mem')
      BY <1>1, WorkerTouchesOwn, LInvParts DEF DryInv, NoBlocked
    <3> QED
      BY <1>6, <3>1, LInvParts DEF DryInv, NoBlocked
  <2>2. faults' = 0 => mem' = disk' /\ faults = 0
    <3>1. \/ UNCHANGED <<mem, disk, faults>>
          \/ disk' = mem' /\ faults' = faults
          \/ faults' = faults + 1
      BY <1>1 DEF WorkerStep, AgentStep, OwnStep, StartSubtask, ExecutorReturns, EnterReview,
           Approve, ProceedFlagged, Remediate, ReviewErrs, RemediationReturns, SettleError,
           Commit, Saved, SaveFails, noOwner
    <3> QED
      BY <1>1, <3>1, LInvParts DEF DryInv
  <2>3. ASSUME dry', faults' = 0
        PROVE  /\ result' # "error"
               /\ \A t \in Subtask : wpc'[t] \notin {"reviewing", "remediating", "broken"}
               /\ \A t \in Subtask : wpc'[t] = "failing" => Canceled'
    <3>1. dry /\ faults = 0
      BY <1>2, <2>2, <2>3
    <3> QED
      BY <1>1, <1>2, <2>3, <3>1, DryWorker, LInvParts DEF DryInv, Canceled
  <2> QED
    BY <1>1, <1>3, <2>1, <2>2, <2>3 DEF DryInv
<1> QED
  BY <1>4, <1>5, <1>7, <1>8, <1>9, <1>10 DEF LInv

-----------------------------------------------------------------------------
(* The watcher, the user and the machine.                                  *)

\* A step beside the run: the watcher, a signal or a request.
LEMMA AsideKeeps ==
  ASSUME LInv, EngineWatch \/ ProcessSignal \/ Request \/ UNCHANGED allVars
  PROVE  LInv'
<1>1. /\ UNCHANGED <<mem, disk, faults, pc, batch, wpc, result, dry, op, cmd, work>>
      /\ interrupted => interrupted'
      /\ Canceled => Canceled'
      /\ TypeOK'
  <2>1. TypeOK
    BY LInvParts
  <2>2. CASE EngineWatch
    <3>1. /\ UNCHANGED <<mem, disk, faults, pc, batch, wpc, result, dry, pauseReq, requests>>
          /\ UNCHANGED <<interrupted, op, cmd, work>>
          /\ UNCHANGED stopFired \/ stopFired' = TRUE
          /\ UNCHANGED stopReq \/ stopReq' = FALSE
          /\ watcher' \in {"off", "cleared"}
      BY <2>2 DEF EngineWatch, WatcherStep, WatcherClears, WatcherCancels, WatcherExits,
                  givenVars, markerVars
    <3>2. stopFired' \in BOOLEAN /\ stopReq' \in BOOLEAN
      BY <2>1, <3>1 DEF TypeOK
    <3>3. Canceled => Canceled'
      BY <3>1 DEF Canceled
    <3>4. TypeOK'
      BY <2>1, <3>1, <3>2 DEF TypeOK
    <3> QED
      BY <3>1, <3>3, <3>4
  <2>3. CASE ProcessSignal
    <3>1. /\ UNCHANGED <<mem, disk, faults, pc, batch, wpc, result, dry, pauseReq, stopReq>>
          /\ UNCHANGED <<stopFired, watcher, op, cmd, work>> /\ interrupted' = TRUE
          /\ requests' = requests + 1
      BY <2>3 DEF ProcessSignal, Requestable, givenVars, markerVars
    <3> QED
      BY <2>1, <3>1 DEF TypeOK, Canceled
  <2>4. CASE Request
    <3>1. /\ UNCHANGED <<mem, disk, faults, pc, batch, wpc, result, dry, op, cmd, work>>
          /\ UNCHANGED <<stopFired, watcher, interrupted>> /\ requests' = requests + 1
          /\ UNCHANGED pauseReq \/ pauseReq' = TRUE
          /\ UNCHANGED stopReq \/ stopReq' = TRUE
      BY <2>4 DEF Request, RequestStop, RequestPause, Requestable, progVars
    <3>2. pauseReq' \in BOOLEAN /\ stopReq' \in BOOLEAN
      BY <2>1, <3>1 DEF TypeOK
    <3>3. TypeOK'
      BY <2>1, <3>1, <3>2 DEF TypeOK
    <3> QED
      BY <3>1, <3>3 DEF Canceled
  <2>5. CASE UNCHANGED allVars
    BY <2>1, <2>5 DEF TypeOK, Canceled, allVars, vars, progVars, givenVars, markerVars
  <2> QED
    BY <2>2, <2>3, <2>4, <2>5
<1>2. IInv' /\ (op # "end" => Settled')
  BY <1>1, LInvParts, StillIInv, StillSettled DEF SInv
<1>3. PausedIsBoundary' /\ InBudget(disk)' /\ LifecycleTypeOK'
  BY <1>1, LInvParts DEF PausedIsBoundary, InBudget, LifecycleTypeOK, Holders
<1>4. RecordInv(mem)' /\ RecordInv(disk)'
  BY <1>1, LInvParts DEF RecordInv, AllDone, NotReviewed
<1>5. PhaseInv'
  BY <1>1, LInvParts DEF PhaseInv, AllDone, NotReviewed
<1>6. ReturnInv' /\ VerdictInv'
  BY <1>1, LInvParts DEF ReturnInv, VerdictInv, AllDone
<1>7. DryInv'
  BY <1>1, LInvParts DEF DryInv, NoBlocked
<1> QED
  BY <1>1, <1>2, <1>3, <1>4, <1>5, <1>6, <1>7 DEF LInv

\* The process is gone, at any moment: what run.yaml says is all there is.
LEMMA GoneKeeps ==
  ASSUME LInv, ProcessCrash \/ ProcessExit PROVE LInv'
<1>1. /\ ProcessGone /\ op' = "down" /\ UNCHANGED <<cmd, work>>
      /\ faults' \in Nat /\ (faults' = 0 => faults = 0)
  BY LInvParts DEF ProcessCrash, ProcessExit
<1>2. /\ pc' = "down" /\ mem' = disk /\ disk' = disk /\ result' = "none" /\ dry' = FALSE
      /\ \A s \in Subtask : wpc'[s] = "idle"
  BY <1>1 DEF ProcessGone
<1>3. IInv' /\ Settled'
  BY <1>1, <1>2, LInvParts, GoneKeepsIInv, ReadSettled
<1>4. LifecycleTypeOK' /\ InBudget(disk)' /\ PausedIsBoundary'
  BY <1>1, <1>3, LInvParts DEF LifecycleTypeOK, IInv, Settled, Op
<1>5. RecordInv(mem)' /\ RecordInv(disk)'
  BY <1>2, LInvParts DEF RecordInv, AllDone, NotReviewed
<1>6. PhaseInv' /\ ReturnInv' /\ VerdictInv' /\ DryInv'
  BY <1>1, <1>2, LInvParts
     DEF PhaseInv, ReturnInv, VerdictInv, DryInv, NoBlocked, Before, After, InReview
<1> QED
  BY <1>3, <1>4, <1>5, <1>6 DEF LInv

\* A new process reads the record.
LEMMA ReadKeeps ==
  ASSUME LInv, Resume \/ Amend PROVE LInv'
<1>1. /\ op = "down" /\ op' \in {"drive", "amendRestore"} /\ cmd' \in Cmd
      /\ disk.status \notin {"completed", "failed"}
      /\ op' = "amendRestore" => disk.status = "paused"
      /\ mem' = disk /\ UNCHANGED <<disk, faults, progVars, pauseReq, stopReq, work>>
      /\ requests' \in Nat /\ dry' \in BOOLEAN
  <2>1. requests \in Nat /\ DryModes \subseteq BOOLEAN
    BY LInvParts, ConfigAssumption DEF TypeOK
  <2>2. CASE Resume
    BY <2>1, <2>2 DEF Resume, Cmd, markerVars
  <2>3. CASE Amend
    BY <2>1, <2>3 DEF Amend, Requestable, Cmd, markerVars
  <2> QED
    BY <2>2, <2>3
<1>2. /\ pc' = "down" /\ mem = disk /\ mem' = mem /\ result' = "none"
      /\ UNCHANGED <<pc, batch, wpc, result, interrupted, stopFired>>
      /\ \A s \in Subtask : wpc[s] \in {"idle", "finished"}
  <2>1. pc = "down"
    BY <1>1, LInvParts DEF PhaseInv, Before
  <2> QED
    BY <1>1, <2>1, AtRest, LInvParts DEF PhaseInv, progVars
<1>3. LifecycleTypeOK'
  BY <1>1, LInvParts DEF LifecycleTypeOK, TypeOK, progVars, Op
<1>4. IInv' /\ Settled'
  BY <1>1, <1>2, <1>3, LInvParts, StillIInv, StillSettled DEF SInv, LifecycleTypeOK
<1>5. InBudget(disk)' /\ PausedIsBoundary'
  BY <1>4 DEF Settled
<1>6. RecordInv(mem)' /\ RecordInv(disk)'
  BY <1>1, <1>2, LInvParts DEF RecordInv, AllDone, NotReviewed
<1>7. PhaseInv'
  BY <1>1, <1>2, LInvParts DEF PhaseInv, Before, After, InReview
<1>8. ReturnInv' /\ VerdictInv'
  BY <1>1 DEF ReturnInv, VerdictInv
<1>9. DryInv'
  BY <1>1, <1>2, LInvParts DEF DryInv, NoBlocked, Canceled
<1> QED
  BY <1>3, <1>4, <1>5, <1>6, <1>7, <1>8, <1>9 DEF LInv

-----------------------------------------------------------------------------
(* The invariant, from the first state on.                                 *)

\* Create writes a record of the type of run.yaml.
LEMMA CreatedType == CreatedRun \in Run
BY DEF CreatedRun, Run, RunStatus, SubtaskStatus, SeniorReviewStatus

\* A run just created, in a process that has not begun to work.
LEMMA InitLInv ==
  ASSUME LifecycleInit PROVE LInv
<1>1. /\ mem = CreatedRun /\ disk = CreatedRun /\ mem \in Run /\ disk \in Run
      /\ mem.status = "created" /\ ~ mem.planned /\ mem.senior = "pending"
      /\ mem.rounds = 0 /\ ~ mem.seniorOpen
      /\ \A s \in Subtask : mem.st[s] = "pending" /\ mem.loops[s] = 0 /\ ~ mem.open[s]
  BY CreatedType DEF LifecycleInit, CreatedRun
<1>2. /\ pc = "down" /\ batch = {} /\ Holders = {} /\ result = "none" /\ faults = 0
      /\ op \in {"drive", "plan"} /\ cmd \in Cmd /\ work = {}
      /\ \A s \in Subtask : wpc[s] = "idle"
  BY DEF LifecycleInit, Holders, Holding, Cmd
<1>3. LifecycleTypeOK
  <2>1. dry \in BOOLEAN
    BY ConfigAssumption DEF LifecycleInit
  <2>2. TypeOK
    BY <1>1, <2>1 DEF LifecycleInit, TypeOK, RunPC, WorkerPC, Result
  <2> QED
    BY <1>2, <2>2 DEF LifecycleTypeOK, Op
<1>4. IInv
  BY <1>2, <1>3, NoHolders
     DEF IInv, LifecycleTypeOK, WorkersInBatch, BatchConflictFree, BatchDepsDone,
         DirtyMeansError, DecidesOnDurableState
<1>5. Settled
  <2>1. \A s \in Subtask : WorkerInv(s)
    BY <1>1, <1>2 DEF WorkerInv, FlightInv, ErrorInv, BatchInv, PlaceInv, DepsInv
  <2>2. InBudget(mem) /\ InBudget(disk)
    BY <1>1, ConfigAssumption DEF InBudget
  <2> QED
    BY <1>1, <1>2, <2>1, <2>2 DEF Settled, StatusInv, DoneAgrees, PausedIsBoundary
<1>6. RecordInv(mem) /\ RecordInv(disk)
  BY <1>1, LifecycleAssumption DEF RecordInv, NotReviewed
<1>7. PhaseInv
  BY <1>1, <1>2 DEF PhaseInv, Before, After, InReview
<1>8. ReturnInv /\ VerdictInv
  BY <1>1, <1>2 DEF ReturnInv, VerdictInv
<1>9. DryInv
  BY <1>1, <1>2 DEF DryInv, NoBlocked
<1> QED
  BY <1>3, <1>4, <1>5, <1>6, <1>7, <1>8, <1>9 DEF LInv, Settled

\* Every step of the program, of its user and of the machine keeps it.
LEMMA NextKeepsLInv == LInv /\ [LifecycleNext]_allVars => LInv'
<1> SUFFICES ASSUME LInv, [LifecycleNext]_allVars PROVE LInv'
  OBVIOUS
<1>1. CASE ProcessStep
  BY <1>1, DriveKeeps, PlanningKeeps, SeniorKeeps, AmendKeeps, EnterRunKeeps, RunReturnedKeeps,
     ClassifyKeeps DEF ProcessStep
<1>2. CASE EngineStep
  BY <1>2, EngineMainKeeps, EngineWorkKeeps, AsideKeeps DEF EngineStep
<1>3. CASE ProcessCrash \/ ProcessExit
  BY <1>3, GoneKeeps
<1>4. CASE Resume \/ Amend
  BY <1>4, ReadKeeps
<1>5. CASE ProcessSignal \/ Request \/ UNCHANGED allVars
  BY <1>5, AsideKeeps
<1> QED
  BY <1>1, <1>2, <1>3, <1>4, <1>5 DEF LifecycleNext

\* LInv is inductive: it holds in every state of every run, from its creation
\* through crashes, resumes and amends.
THEOREM LifecycleInductive == LifecycleSpec => []LInv
<1>1. LifecycleInit => LInv
  BY InitLInv
<1>2. LInv /\ [LifecycleNext]_allVars => LInv'
  BY NextKeepsLInv
<1> QED
  BY <1>1, <1>2, PTL DEF LifecycleSpec

-----------------------------------------------------------------------------
(* The order of the phases.                                                *)

\* No phase begins, and no run is completed, ahead of the phase before it,
\* wherever a resume picks the run up: what the record says by itself
\* (RecordInv) is enough to tell how far it came.
THEOREM PhasesAlwaysInOrder == LifecycleSpec => []PhasesInOrder
<1>1. LInv => PhasesInOrder
  <2> SUFFICES ASSUME LInv PROVE CompletedMeansReviewed /\ SeniorAfterSubtasks
    BY DEF PhasesInOrder
  <2>1. CompletedMeansReviewed
    BY LInvParts DEF CompletedMeansReviewed, RecordInv, AllDone
  <2>2. disk.senior \in {"running", "done"} => AllDone(disk)
    BY LInvParts DEF RecordInv, NotReviewed
  <2>3. op \in {"seniorLoop", "seniorReviewing"} => AllDone(disk)
    BY LInvParts DEF PhaseInv, After, AllDone
  <2> QED
    BY <2>1, <2>2, <2>3 DEF SeniorAfterSubtasks, AllDone
<1> QED
  BY <1>1, LifecycleInductive, PTL

\* What is proved of the engine under any caller holds under the orchestrator:
\* around the planner, the senior review and the commands that resume and amend.
LifecycleSafety ==
  /\ NoConflictInFlight /\ DepsDurablyDone /\ BoundedParallelism
  /\ DecidesOnDurableState /\ PausedIsBoundary /\ FlaggedOnlyAtBudget

\* The engine keeps its safety properties in the program that drives it.
THEOREM EngineSafeInLifecycle == LifecycleSpec => []LifecycleSafety
<1>1. LInv => LifecycleSafety
  BY LInvParts, IInvIsSafe
     DEF LifecycleSafety, IInv, InBudget, FlaggedOnlyAtBudget
<1> QED
  BY <1>1, LifecycleInductive, PTL

-----------------------------------------------------------------------------
(* What a step may do to the record on disk.                               *)

\* The steps of the orchestrator, but those that start the subtasks afresh, keep
\* the plan and the entries of the subtasks.
LEMMA ProcessWrites ==
  ASSUME LInv, ProcessStep
  PROVE  \/ disk' = disk
         \/ disk'.st = mem.st /\ disk'.planned = mem.planned
         \/ op = "amendReset" /\ disk'.planned = mem.planned
         \/ op = "planner" /\ ~ disk.planned /\ disk'.planned
<1>0. mem \in Run
  BY LInvParts
<1>1. CASE Drive \/ PlanErrs \/ EnterRun \/ RunReturned \/ AmendRestore \/ AmendReload
             \/ AmendClear \/ SeniorLoop \/ SeniorErrs \/ SeniorRemediated
  BY <1>1 DEF Drive, PlanErrs, EnterRun, RunReturned, AmendRestore, AmendReload, AmendClear,
              SeniorLoop, SeniorErrs, SeniorRemediated, noOwner
<1>2. CASE StartPlanning \/ ToSenior \/ Complete
  BY <1>0, <1>2 DEF StartPlanning, ToSenior, Complete, Persist, Saved, SaveFails, Run
<1>3. CASE Gate
  BY <1>0, <1>3 DEF Gate, Persist, Saved, SaveFails, noOwner, Run
<1>4. CASE Classify
  BY <1>0, <1>4 DEF Classify, Saved, SaveFails, noOwner, Run
<1>5. CASE SeniorEnter
  BY <1>0, <1>5 DEF SeniorEnter, Persist, Saved, SaveFails, noOwner, Run
<1>6. CASE SeniorDryRun \/ SeniorApproves \/ SeniorReports
  BY <1>0, <1>6
     DEF SeniorDryRun, SeniorApproves, SeniorReports, SeniorDone, Persist, Saved,
         SaveFails, Run
<1>7. CASE SeniorRemediates
  BY <1>0, <1>7 DEF SeniorRemediates, Persist, Saved, SaveFails, Run
<1>8. CASE PlanReady
  <2>1. op = "planner" /\ ~ disk.planned
    BY <1>8, LInvParts DEF PlanReady, PhaseInv
  <2>2. disk' = disk \/ disk'.planned
    BY <1>0, <1>8 DEF PlanReady, Persist, Saved, SaveFails, Run
  <2> QED
    BY <2>1, <2>2
<1>9. CASE AmendReset
  BY <1>0, <1>9 DEF AmendReset, Persist, Saved, SaveFails, Run
<1> QED
  BY <1>1, <1>2, <1>3, <1>4, <1>5, <1>6, <1>7, <1>8, <1>9
     DEF ProcessStep, SeniorStep, AmendStep

\* The steps beside the orchestrator and the engine write nothing.
LEMMA AsideWrites ==
  ASSUME EngineWatch \/ ProcessCrash \/ ProcessExit \/ ProcessSignal \/ Request \/ Resume
           \/ Amend \/ UNCHANGED allVars
  PROVE  disk' = disk
BY DEF EngineWatch, WatcherStep, WatcherClears, WatcherCancels, WatcherExits, ProcessCrash,
       ProcessExit, ProcessGone, ProcessSignal, Request, RequestStop, RequestPause, Resume,
       Amend, allVars, vars

\* A settled run is written by no step.
LEMMA SettledUntouched ==
  ASSUME LInv, [LifecycleNext]_allVars, disk.status \in {"completed", "failed"}
  PROVE  disk' = disk
<1>1. \/ op \in {"down", "end"}
      \/ op = "classify" /\ mem.status \in {"completed", "failed"}
      \/ op = "running" /\ pc = "returned"
  BY LInvParts DEF VerdictInv
<1>2. pc \notin {"begin", "top", "decide", "join", "ackPause"}
  BY <1>1, LInvParts DEF PhaseInv, Before
<1>3. CASE ProcessStep
  <2>1. RunReturned \/ Classify
    BY <1>1, <1>3
       DEF ProcessStep, Drive, StartPlanning, PlanReady, PlanErrs, Gate, EnterRun, ToSenior,
           Complete, SeniorStep, SeniorEnter, SeniorDryRun, SeniorLoop, SeniorApproves,
           SeniorReports, SeniorRemediates, SeniorErrs, SeniorRemediated, AmendStep,
           AmendRestore, AmendReload, AmendReset, AmendClear
  <2> QED
    BY <1>1, <2>1 DEF RunReturned, Classify, IsTerminalRun, noOwner
<1>4. CASE EngineMain
  BY <1>2, <1>4 DEF EngineMain, MainStep, Begin, LoopTop, Finalize, PauseAtBoundary, AckPause,
                    Deadlock, SpawnBatch, JoinBatch
<1>5. ASSUME NEW s \in Subtask, EngineWork(s) PROVE FALSE
  BY <1>2, <1>5, LInvParts, WorkerTouchesOwn DEF EngineWork
<1> QED
  BY <1>3, <1>4, <1>5, AsideWrites DEF LifecycleNext, EngineStep

\* What is settled is settled for good, a done subtask stays done unless the user
\* amends the plan, and a plan is made once: no resume, crash or late save takes
\* the record in run.yaml back.
THEOREM RecordNeverGoesBack == LifecycleSpec => NeverBackwards
<1>1. ASSUME LInv, LInv', [LifecycleNext]_allVars
      PROVE  SettledStays /\ PlannedStays
  <2>1. CASE disk' = disk
    BY <2>1, <1>1, LInvParts DEF SettledStays, PlannedStays, RecordInv
  <2>2. disk.status \in {"completed", "failed"} => disk' = disk
    BY <1>1, SettledUntouched
  <2>3. disk'.planned => disk'.status # "planning"
    BY <1>1 DEF LInv, RecordInv
  <2>4. CASE ProcessStep /\ disk' # disk
    <3>1. disk.planned => disk'.planned
      BY <1>1, <2>4, ProcessWrites, LInvParts DEF PhaseInv
    <3>2. ASSUME op # "amendReset", NEW s \in Subtask, disk.st[s] = "done",
                 wpc[s] \notin Erring
          PROVE  disk'.st[s] = "done"
      <4>1. op # "end"
        BY <1>1, <2>4, LInvParts
           DEF ProcessStep, Drive, StartPlanning, PlanReady, PlanErrs, Gate, EnterRun,
               RunReturned, ToSenior, Complete, Classify, SeniorStep, SeniorEnter,
               SeniorDryRun, SeniorLoop, SeniorApproves, SeniorReports, SeniorRemediates,
               SeniorErrs, SeniorRemediated, AmendStep, AmendRestore, AmendReload,
               AmendReset, AmendClear
      <4>2. mem.st[s] = "done"
        BY <1>1, <3>2, <4>1, LInvParts DEF SInv, Settled, DoneAgrees, Same
      <4>3. disk.planned
        BY <1>1, <3>2, LInvParts DEF RecordInv
      <4> QED
        BY <1>1, <2>4, <3>2, <4>2, <4>3, ProcessWrites
    <3> QED
      BY <2>2, <2>3, <3>1, <3>2 DEF SettledStays, PlannedStays, Erring
  <2>5. CASE EngineMain
    <3>1. /\ MainStep /\ mem \in Run /\ faults \in Nat /\ pc \notin {"down", "returned"}
          /\ op = "running" /\ SInv /\ mem.planned /\ disk.planned
      BY <1>1, <2>5, MainTouches, LInvParts DEF EngineMain, PhaseInv
    <3>2. disk'.planned
      BY <3>1, MainTouches DEF Aside
    <3>3. ASSUME NEW s \in Subtask, disk.st[s] = "done", wpc[s] \notin Erring
          PROVE  disk'.st[s] = "done"
      <4>1. Same(s) /\ mem.st[s] = "done"
        BY <3>1, <3>3 DEF SInv, Settled, DoneAgrees, Same
      <4> QED
        BY <3>1, <4>1, MainKeepsDone
    <3> QED
      BY <2>2, <2>3, <3>2, <3>3 DEF SettledStays, PlannedStays, Erring
  <2>6. ASSUME NEW t \in Subtask, EngineWork(t)
        PROVE  SettledStays /\ PlannedStays
    <3>1. /\ WorkerStep(t) /\ mem \in Run /\ pc = "join" /\ op = "running" /\ SInv
          /\ mem.planned /\ disk.planned
      <4>1. WorkerStep(t) /\ mem \in Run
        BY <1>1, <2>6, LInvParts DEF EngineWork
      <4>2. pc = "join"
        BY <4>1, WorkerTouchesOwn
      <4> QED
        BY <1>1, <4>1, <4>2, LInvParts DEF PhaseInv
    <3>2. disk'.planned
      BY <3>1, WorkerTouchesOwn DEF Aside
    <3>3. ASSUME NEW s \in Subtask, disk.st[s] = "done", wpc[s] \notin Erring
          PROVE  disk'.st[s] = "done"
      BY <3>1, <3>3, WorkersKeepDone
    <3> QED
      BY <2>2, <2>3, <3>2, <3>3 DEF SettledStays, PlannedStays, Erring
  <2> QED
    BY <1>1, <2>1, <2>4, <2>5, <2>6, AsideWrites DEF LifecycleNext, EngineStep
<1> QED
  BY <1>1, LifecycleInductive, PTL DEF LifecycleSpec, NeverBackwards

-----------------------------------------------------------------------------
(* A dry process.                                                          *)

\* What Planning's validation accepts: among any subtasks, one depends on none
\* of the others.
PlanAcyclic ==
  \A T \in SUBSET Subtask : T # {} => \E s \in T : Deps[s] \cap T = {}

\* When no subtask can start and none is at work, one has failed: only a failed
\* subtask keeps others from starting.
LEMMA StuckOnFailure ==
  ASSUME PlanAcyclic, mem \in Run, NoBlocked(mem),
         \A s \in Subtask : ~ IsInterrupted(mem.st[s]),
         Ready = {}, ~ AllTerminal
  PROVE  SomeFailed
<1> DEFINE T == {s \in Subtask : ~ IsTerminal(mem.st[s])}
<1>1. PICK s \in T : Deps[s] \cap T = {}
  BY DEF PlanAcyclic, AllTerminal
<1>2. mem.st[s] = "pending"
  BY <1>1 DEF NoBlocked, IsInterrupted, IsTerminal, Run, SubtaskStatus
<1>3. PICK d \in Deps[s] : mem.st[d] # "done"
  BY <1>1, <1>2 DEF Ready
<1>4. d \in Subtask /\ d \notin T
  BY <1>1, <1>3, DepsAssumption
<1>5. mem.st[d] = "failed"
  BY <1>3, <1>4 DEF IsTerminal
<1> QED
  BY <1>4, <1>5 DEF SomeFailed

\* What a dry process must not do in a step.
FailsNothing ==
  /\ \A s \in Subtask : disk'.st[s] = "failed" => disk.st[s] = "failed"
  /\ disk'.status = "failed" =>
       disk.status = "failed" \/ \E s \in Subtask : disk.st[s] = "failed"

\* Run, in a dry process and with no save failing.
LEMMA DryMain ==
  ASSUME PlanAcyclic, LInv, EngineMain, faults' = 0
  PROVE  FailsNothing
<1>1. /\ MainStep /\ mem \in Run /\ faults \in Nat /\ NoBlocked(mem)
  BY LInvParts DEF EngineMain, DryInv
<1>2. SInv /\ faults = 0 /\ mem = disk
  <2>1. faults = 0
    BY <1>1, MainTouches
  <2>2. pc \notin {"down", "returned"}
    BY <1>1, MainTouches
  <2> QED
    BY <2>1, <2>2, LInvParts DEF DryInv, PhaseInv
<1>3. disk' = disk \/ disk' = mem'
  BY <1>1, MainTouches
<1>4. \A s \in Subtask : disk'.st[s] = "failed" => disk.st[s] = "failed"
  BY <1>1, <1>2, <1>3, MainTouches
<1>5. CASE Deadlock
  <2>1. \A s \in Subtask : ~ IsInterrupted(mem.st[s])
    BY <1>2, <1>5 DEF Deadlock, SInv, Settled, StatusInv
  <2>2. SomeFailed
    BY <1>1, <1>5, <2>1, StuckOnFailure DEF Deadlock
  <2> QED
    BY <1>2, <1>4, <2>2 DEF SomeFailed, FailsNothing
<1>6. CASE Finalize
  <2>1. SomeFailed \/ disk' = disk
    BY <1>6 DEF Finalize
  <2> QED
    BY <1>2, <1>4, <2>1 DEF SomeFailed, FailsNothing
<1>7. CASE Begin \/ LoopTop \/ PauseAtBoundary \/ AckPause \/ SpawnBatch \/ JoinBatch
  <2>1. disk'.status # "failed" \/ disk' = disk
    BY <1>1, <1>7 DEF Begin, LoopTop, PauseAtBoundary, AckPause, SpawnBatch, JoinBatch, Saved,
                      SaveFails, Run, ResetInterrupted
  <2> QED
    BY <1>4, <2>1 DEF FailsNothing
<1> QED
  BY <1>1, <1>5, <1>6, <1>7 DEF MainStep

\* A worker of a dry process: its error branch is left by the cancelled context.
LEMMA DryWork ==
  ASSUME LInv, dry, faults' = 0, NEW s \in Subtask, EngineWork(s)
  PROVE  FailsNothing
<1>1. /\ WorkerStep(s) /\ mem \in Run /\ faults \in Nat /\ wpc \in [Subtask -> WorkerPC]
  BY LInvParts DEF EngineWork
<1>2. faults = 0 /\ mem = disk
  <2>1. \/ UNCHANGED <<mem, disk, faults>>
        \/ disk' = mem' /\ faults' = faults
        \/ faults' = faults + 1
    BY <1>1 DEF WorkerStep, AgentStep, OwnStep, StartSubtask, ExecutorReturns, EnterReview,
         Approve, ProceedFlagged, Remediate, ReviewErrs, RemediationReturns, SettleError,
         Commit, Saved, SaveFails, noOwner
  <2> QED
    BY <1>1, <2>1, LInvParts DEF DryInv
<1>3. /\ \A t \in Subtask : t # s => mem'.st[t] = mem.st[t]
      /\ mem'.status = mem.status /\ (disk' = disk \/ disk' = mem')
  BY <1>1, WorkerTouchesOwn
<1>4. mem'.st[s] = "failed" => mem.st[s] = "failed"
  <2>1. CASE SettleError(s)
    <3>1. Canceled
      BY <1>2, <2>1, LInvParts DEF DryInv, SettleError, At
    <3> QED
      BY <2>1, <3>1 DEF SettleError, noOwner
  <2>2. CASE StartSubtask(s) \/ EnterReview(s)
    BY <1>1, <2>2 DEF StartSubtask, EnterReview, Commit, Saved, SaveFails, SetSt, noOwner, Run
  <2>3. CASE ExecutorReturns(s) \/ RemediationReturns(s) \/ ReviewErrs(s)
    BY <2>3 DEF ExecutorReturns, RemediationReturns, ReviewErrs, noOwner
  <2>4. CASE Approve(s) \/ ProceedFlagged(s)
    <3>1. \E o \in BOOLEAN : mem' = [SetSt(s, "done") EXCEPT !.open[s] = o]
      BY <2>4 DEF Approve, ProceedFlagged, Commit, Saved, SaveFails
    <3> QED
      BY <1>1, <3>1, SettleWrites DEF Writes
  <2>5. CASE Remediate(s)
    <3>1. mem' = [SetSt(s, "implementing") EXCEPT !.loops[s] = @ + 1]
      BY <2>5 DEF Remediate, Commit, Saved, SaveFails
    <3> QED
      BY <1>1, <3>1, CountLoopWrites DEF Writes
  <2> QED
    BY <1>1, <2>1, <2>2, <2>3, <2>4, <2>5 DEF WorkerStep, OwnStep, AgentStep
<1> QED
  BY <1>2, <1>3, <1>4 DEF FailsNothing

\* The orchestrator of a dry process gives no failed verdict of its own.
LEMMA DryProcess ==
  ASSUME LInv, dry, faults' = 0, ProcessStep
  PROVE  FailsNothing
<1>1. mem \in Run /\ disk \in Run
  BY LInvParts
<1>2. faults = 0 /\ mem = disk
  <2>1. faults' = faults \/ faults' = faults + 1
    BY DEF ProcessStep, Drive, StartPlanning, PlanReady, PlanErrs, Gate, EnterRun, RunReturned,
           ToSenior, Complete, Classify, SeniorStep, SeniorEnter, SeniorDryRun, SeniorLoop,
           SeniorApproves, SeniorReports, SeniorRemediates, SeniorErrs, SeniorRemediated,
           AmendStep, AmendRestore, AmendReload, AmendReset, AmendClear, SeniorDone, Persist,
           Saved, SaveFails, noOwner
  <2> QED
    BY <2>1, LInvParts DEF DryInv
<1>3. CASE Classify
  <2>1. interrupted \/ result = "canceled" \/ mem.status = "failed"
    BY <1>2, <1>3, LInvParts DEF DryInv, Classify
  <2>2. \/ disk' = disk
        \/ disk'.st = disk.st /\ disk'.status = "aborted"
    BY <1>1, <1>2, <1>3, <2>1
       DEF Classify, IsTerminalRun, Saved, SaveFails, noOwner, Run
  <2> QED
    BY <2>2 DEF FailsNothing
<1>4. CASE ~ Classify
  <2>1. \/ disk' = disk
        \/ disk'.status # "failed" \/ disk'.status = mem.status
    BY <1>1, <1>4
       DEF ProcessStep, Drive, StartPlanning, PlanReady, PlanErrs, Gate, EnterRun, RunReturned,
           ToSenior, Complete, SeniorStep, SeniorEnter, SeniorDryRun, SeniorLoop,
           SeniorApproves, SeniorReports, SeniorRemediates, SeniorErrs, SeniorRemediated,
           AmendStep, AmendRestore, AmendReload, AmendReset, AmendClear, SeniorDone, Persist,
           Saved, SaveFails, noOwner, Run
  <2>2. \A s \in Subtask : disk'.st[s] = "failed" => disk.st[s] = "failed"
    <3>1. CASE op = "amendReset" \/ op = "planner"
      <4>1. \/ disk' = disk
            \/ \A s \in Subtask : disk'.st[s] = "pending"
        <5>1. AmendReset \/ PlanReady \/ PlanErrs
          BY <3>1
             DEF ProcessStep, Drive, StartPlanning, Gate, EnterRun, RunReturned, ToSenior,
                 Complete, Classify, SeniorStep, SeniorEnter, SeniorDryRun, SeniorLoop,
                 SeniorApproves, SeniorReports, SeniorRemediates, SeniorErrs,
                 SeniorRemediated, AmendStep, AmendRestore, AmendReload, AmendClear
        <5>2. CASE AmendReset
          <6> DEFINE run == [mem EXCEPT !.status = "executing",
                               !.st     = [s \in Subtask |-> "pending"],
                               !.loops  = [s \in Subtask |-> 0],
                               !.open   = [s \in Subtask |-> FALSE],
                               !.senior = "pending", !.rounds = 0, !.seniorOpen = FALSE]
          <6>1. \A s \in Subtask : run.st[s] = "pending"
            BY <1>1 DEF Run
          <6>2. disk' = disk \/ disk' = run
            BY <5>2 DEF AmendReset, Persist, Saved, SaveFails
          <6> HIDE DEF run
          <6> QED
            BY <6>1, <6>2
        <5>3. CASE PlanReady
          <6> DEFINE run == [mem EXCEPT !.status = "planned", !.planned = TRUE,
                               !.st     = [s \in Subtask |-> "pending"],
                               !.loops  = [s \in Subtask |-> 0],
                               !.open   = [s \in Subtask |-> FALSE]]
          <6>1. \A s \in Subtask : run.st[s] = "pending"
            BY <1>1 DEF Run
          <6>2. disk' = disk \/ disk' = run
            BY <5>3 DEF PlanReady, Persist, Saved, SaveFails
          <6> HIDE DEF run
          <6> QED
            BY <6>1, <6>2
        <5>4. CASE PlanErrs
          BY <5>4 DEF PlanErrs, noOwner
        <5> QED
          BY <5>1, <5>2, <5>3, <5>4
      <4> QED
        BY <4>1
    <3>2. CASE op \notin {"amendReset", "planner"}
      BY <1>2, <3>2, ProcessWrites
    <3> QED
      BY <3>1, <3>2
  <2> QED
    BY <1>2, <2>1, <2>2 DEF FailsNothing
<1> QED
  BY <1>3, <1>4

\* Unless the machine fails a save, a dry process fails no subtask and no run that
\* has no failed subtask, whatever run it resumes and however it is stopped.
\* The plan has no cycle: that is what Planning's validation checks.
THEOREM DryRunsFailNothing == PlanAcyclic => (LifecycleSpec => DryRunFailsNothing)
<1> SUFFICES ASSUME PlanAcyclic PROVE LifecycleSpec => DryRunFailsNothing
  OBVIOUS
<1> DEFINE DryStep ==
      dry /\ faults' = 0 =>
       /\ \A s \in Subtask : disk'.st[s] = "failed" => disk.st[s] = "failed"
       /\ disk'.status = "failed" =>
            disk.status = "failed" \/ \E s \in Subtask : disk.st[s] = "failed"
<1>1. ASSUME LInv, [LifecycleNext]_allVars PROVE DryStep
  <2> SUFFICES ASSUME dry, faults' = 0 PROVE FailsNothing
    BY DEF FailsNothing
  <2>1. CASE disk' = disk
    BY <2>1 DEF FailsNothing
  <2> QED
    BY <1>1, <2>1, DryMain, DryWork, DryProcess, AsideWrites DEF LifecycleNext, EngineStep
<1> QED
  BY <1>1, LifecycleInductive, PTL DEF LifecycleSpec, DryRunFailsNothing

===========================================================================
