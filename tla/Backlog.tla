------------------------------ MODULE Backlog ------------------------------
(***************************************************************************)
(* The backlog runner (internal/backlog: runner.go, dag.go, state.go;      *)
(* internal/cli/backlog.go): a directory of tickets driven through one     *)
(* pipeline run each, over several invocations of `backlog run' that may   *)
(* be interrupted, crash, or fail to save their state.                     *)
(*                                                                         *)
(* A run of the pipeline is an outcome here (RunLifecycle models it):      *)
(* completed clean, completed with unresolved findings, incomplete (failed,*)
(* paused at a review checkpoint, or only planned) or an error.            *)
(***************************************************************************)
EXTENDS Integers, FiniteSets

CONSTANTS
  Tickets,    \* the number of tickets; their ids sort as 1, 2, ...
  DependsOn,  \* the tickets each depends on
  Author,     \* the status its author gave it
  Gates,      \* the gates invocations may use
  Dry,        \* whether invocations may use --dry-run
  MaxFaults   \* bound on interrupts, crashes and failing saves

Ticket     == 1..Tickets
GateMode   == {"manual", "stop-on-finding", "auto"}
Completing == {"clean", "findings"}
Result     == Completing \cup {"incomplete", "error"}

ASSUME GraphAssumption ==
  /\ Tickets \in Nat
  /\ DependsOn \in [Ticket -> SUBSET Ticket]
  /\ Author \in [Ticket -> {"pending", "done", "blocked"}]
ASSUME InvocationAssumption ==
  Gates \subseteq GateMode /\ Dry \subseteq BOOLEAN /\ MaxFaults \in Nat

VARIABLES
  saved,     \* the state file
  state,     \* the state in memory of the running invocation
  pc,        \* where Runner.Run is
  current,   \* the ticket being run, 0 for none
  gate, dry, \* how this invocation was started
  canceled,  \* its context
  last,      \* the outcome of its last ticket
  summary,   \* how the last invocation ended
  faults

command == <<gate, dry, canceled>>
vars    == <<saved, state, pc, current, command, last, summary, faults>>

-----------------------------------------------------------------------------

RunnerStatus == {"ready", "in-progress", "done", "failed", "review"}
Ending == {"none", "aborted", "failed", "review", "paused", "complete", "stuck",
           "saveError", "crashed"}

\* Every variable keeps its type, and a ticket runs exactly while Run waits for it.
TypeOK ==
  /\ saved \in [Ticket -> RunnerStatus] /\ state \in [Ticket -> RunnerStatus]
  /\ pc \in {"idle", "loop", "running"}
  /\ current \in Ticket \cup {0}
  /\ gate \in GateMode /\ dry \in BOOLEAN /\ canceled \in BOOLEAN
  /\ last \in Result \cup {"none"} /\ summary \in Ending
  /\ faults \in 0..MaxFaults
  /\ pc = "running" <=> current # 0
  /\ pc = "running" => state[current] = "in-progress" /\ saved[current] = "in-progress"

\* Mutant of doneSet: a ticket that waits for review counts as done.
doneSet_CountsReview(s) ==
  {t \in Ticket : Author[t] = "done" \/ s[t] \in {"done", "review"}}

\* doneSet: done for the author or for the runner.
doneSet(s) == {t \in Ticket : Author[t] = "done" \/ s[t] = "done"}

\* Mutant of Selectable: a failed ticket is left alone.
Selectable_NotFailed(s) ==
  {t \in Ticket : /\ t \notin doneSet(s) /\ Author[t] = "pending"
                  /\ s[t] # "failed"
                  /\ DependsOn[t] \subseteq doneSet(s)}

\* NextReady's candidates: not done, not parked, dependencies done.
Selectable(s) ==
  {t \in Ticket : /\ t \notin doneSet(s) /\ Author[t] = "pending"
                  /\ DependsOn[t] \subseteq doneSet(s)}

\* NextReady: the first of the selectable tickets, whatever became of it before.
IsNextReady(t) == t \in Selectable(state) /\ \A u \in Selectable(state) : t <= u

Fault == faults < MaxFaults /\ faults' = faults + 1

\* A save that must work, and one whose error is dropped.
Save(s)       == saved' = s /\ UNCHANGED faults
SaveFails     == Fault /\ UNCHANGED saved
BestEffort(s) == Save(s) \/ SaveFails

Finish(how) == pc' = "idle" /\ summary' = how

-----------------------------------------------------------------------------

\* Mutant of LoadState: whatever did not end well starts over, and so does
\* what did.
LoadState_Forgets(s) ==
  [t \in Ticket |-> IF s[t] = "failed" THEN "failed" ELSE "ready"]

\* LoadState: an interrupted ticket is ready again.
LoadState(s) == [t \in Ticket |-> IF s[t] = "in-progress" THEN "ready" ELSE s[t]]

\* backlog run: the graph is built and the state loaded.
Invoke ==
  /\ pc = "idle" /\ pc' = "loop"
  /\ state' = LoadState(saved)
  /\ gate' \in Gates /\ dry' \in Dry /\ canceled' = FALSE
  /\ last' = "none" /\ summary' = "none"
  /\ UNCHANGED <<saved, current, faults>>

\* Ctrl-C.
Interrupt ==
  /\ pc # "idle" /\ ~ canceled /\ canceled' = TRUE /\ Fault
  /\ UNCHANGED <<saved, state, pc, current, gate, dry, last, summary>>

\* The process dies; a dying process writes nothing more.
Crash ==
  /\ pc # "idle" /\ Fault
  /\ Finish("crashed") /\ current' = 0
  /\ UNCHANGED <<saved, state, command, last>>

\* Run: the context, then the selection.
Aborts ==
  /\ pc = "loop" /\ canceled /\ Finish("aborted")
  /\ UNCHANGED <<saved, state, current, command, last, faults>>

NothingReady ==
  /\ pc = "loop" /\ ~ canceled /\ Selectable(state) = {}
  /\ Finish(IF doneSet(state) = Ticket THEN "complete" ELSE "stuck")
  /\ UNCHANGED <<saved, state, current, command, last, faults>>

\* The ticket is marked in progress, durably, before its run starts.
StartTicket(t) ==
  /\ pc = "loop" /\ ~ canceled /\ IsNextReady(t)
  /\ state' = [state EXCEPT ![t] = "in-progress"]
  /\ \/ Save(state') /\ pc' = "running" /\ current' = t /\ UNCHANGED summary
     \/ SaveFails /\ Finish("saveError") /\ UNCHANGED current
  /\ UNCHANGED <<command, last>>

\* finishBacklog looks at what remains before it looks at the pause.
Told(how) == IF how = "paused" /\ doneSet(state') = Ticket THEN "complete" ELSE how

\* Run goes on to the next ticket or returns.
Proceed(how) ==
  IF how = "next" THEN pc' = "loop" /\ UNCHANGED summary ELSE Finish(Told(how))

\* Mutant of Leave: a ticket that could not be saved as done counts all the same.
Leave_BestEffort(t, status, how) ==
  /\ state' = [state EXCEPT ![t] = status] /\ current' = 0
  /\ BestEffort(state') /\ Proceed(how)

\* A ticket leaves with a status.  That it is done must be saved; every other
\* status is saved as far as that works.
Leave(t, status, how) ==
  /\ state' = [state EXCEPT ![t] = status] /\ current' = 0
  /\ IF status = "done"
     THEN \/ Save(state') /\ Proceed(how)
          \/ SaveFails /\ Finish("saveError")
     ELSE BestEffort(state') /\ Proceed(how)

\* Mutant of After: only the manual gate looks at findings.
After_FindingsPass(o) ==
  CASE canceled                              -> <<"ready", "aborted">>
    [] ~ canceled /\ o \notin Completing     -> <<"failed", "failed">>
    [] ~ canceled /\ o = "findings" /\ gate = "manual" -> <<"review", "review">>
    [] OTHER -> <<"done", IF gate = "manual" THEN "paused" ELSE "next">>

\* What Run makes of an outcome: the ticket's status and how it goes on.  The
\* context comes first, then the error and the run's status, then the gate.
After(o) ==
  CASE canceled                              -> <<"ready", "aborted">>
    [] ~ canceled /\ o \notin Completing     -> <<"failed", "failed">>
    [] ~ canceled /\ o = "findings" /\ gate # "auto" -> <<"review", "review">>
    [] OTHER -> <<"done", IF gate = "manual" THEN "paused" ELSE "next">>

\* The ticket's run ends.  A dry run approves everything, so it has no findings.
RunEnds(t, o) ==
  /\ pc = "running" /\ t = current
  /\ dry => o # "findings"
  /\ Leave(t, After(o)[1], After(o)[2])
  /\ last' = o
  /\ UNCHANGED command

RunStep ==
  \/ Aborts \/ NothingReady
  \/ \E t \in Ticket : \/ StartTicket(t)
                      \/ \E o \in Result : RunEnds(t, o)

Init ==
  /\ saved = [t \in Ticket |-> "ready"] /\ state = saved
  /\ pc = "idle" /\ current = 0 /\ last = "none" /\ summary = "none"
  /\ gate \in Gates /\ dry \in Dry /\ canceled = FALSE
  /\ faults = 0

Next == Invoke \/ Interrupt \/ Crash \/ RunStep

\* The runner runs and pipeline runs end.
Spec == Init /\ [][Next]_vars /\ WF_vars(RunStep)

\* The user keeps invoking it, and no ticket is beyond the agents for ever.
PatientSpec ==
  Spec /\ WF_vars(Invoke) /\ \A t \in Ticket : SF_vars(RunEnds(t, "clean"))

-----------------------------------------------------------------------------
(* Properties.                                                             *)

Durable(t) == Author[t] = "done" \/ saved[t] = "done"

\* A ticket only runs on top of tickets that are durably done, so a crash can
\* not leave it built on a ticket that will be run again.
DepsDurablyDone ==
  pc = "running" => \A d \in DependsOn[current] : Durable(d)

\* Done is for ever: no invocation, fault or dry run takes it back or runs the
\* ticket again.
DoneIsFinal ==
  [][\A t \in Ticket : saved[t] = "done" => saved'[t] = "done" /\ current' # t]_vars

\* An invocation goes on to another ticket only as far as its gate lets it.
GateHolds ==
  [][pc = "loop" /\ pc' = "running" =>
       \/ last = "none"
       \/ last = "clean" /\ gate # "manual"
       \/ last = "findings" /\ gate = "auto"]_vars

\* "Backlog complete" is only said of a backlog that a new invocation would
\* find complete.
CompleteIsDurable == summary = "complete" => \A t \in Ticket : Durable(t)

\* Invoked often enough a backlog gets done, through every interruption, even
\* from tickets that failed or left findings.
BacklogCompletes == <>[](\A t \in Ticket : Durable(t))
=============================================================================
