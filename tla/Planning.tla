------------------------------ MODULE Planning ------------------------------
(***************************************************************************)
(* The planning phase of one run (planning.go, subtasks.go): the agent's   *)
(* answer is cut into documents, these are written, the subtasks parsed    *)
(* and validated, the agent is asked a second time if that fails, and the  *)
(* plan is persisted.  The phase runs again after a crash or an abort.     *)
(*                                                                         *)
(* An answer is a sequence of lines: a marker that names a document, or a  *)
(* line of text, which is empty, prose, or an entry of the subtask list.   *)
(* The user does not edit the documents meanwhile (see RunLifecycle.Amend) *)
(***************************************************************************)
EXTENDS Ownership, FiniteSets

CONSTANTS
  FirstAnswers,  \* what the agent may say while the run has no documents,
  LaterAnswers,  \* and once it has some
  DryModes,      \* the values of --dry-run
  Files,         \* the files of the user's tree
  MaxFaults      \* crashes, cancellations and failing calls considered

ASSUME PlanningAssumption ==
  /\ DryModes \subseteq BOOLEAN /\ MaxFaults \in Nat

VARIABLES
  at,        \* where Planner.Plan is; "idle" when no process plans
  dry, viaPlan, canceled,   \* of this process: --dry-run, `plan', its context
  attempt,   \* how often the agent has been asked
  answer,    \* what it said last
  bundle,    \* the documents in that
  written,   \* how many of these are written
  mem,       \* the record in memory: [status, subtasks]
  disk,      \* run.yaml
  docs,      \* <run>/docs
  faults

process == <<dry, viaPlan, canceled, attempt, answer, bundle>>
vars    == <<at, process, written, mem, disk, docs, faults>>

-----------------------------------------------------------------------------
(* The bundle.                                                             *)

\* In the order in which they are written.
requiredDocs == <<"plan", "context", "manualTesting", "subtasks">>
Doc          == {requiredDocs[i] : i \in DOMAIN requiredDocs}

NoDocs      == [doc \in Doc |-> <<>>]

Marker(doc) == [kind |-> "marker", doc |-> doc]
Blank       == [kind |-> "blank"]
Prose(v)    == [kind |-> "prose", text |-> v]
Entry(sub)  == [kind |-> "entry", sub |-> sub]

\* Trailing empty lines go.
normalizeDoc(body) ==
  LET last == SelectLastInSeq(body, LAMBDA line : line # Blank)
  IN  SubSeq(body, 1, last)

\* The text from the last marker of a document to the next marker of any.
Body(raw, doc) ==
  LET markers == {i \in DOMAIN raw : raw[i].kind = "marker"}
      own     == {i \in markers : raw[i].doc = doc}
      start   == Max(own)
      stop    == Min({i \in markers : i > start} \cup {Len(raw) + 1})
  IN  IF own = {} THEN <<>> ELSE normalizeDoc(SubSeq(raw, start + 1, stop - 1))

parseBundle(raw) == [doc \in Doc |-> Body(raw, doc)]

requireAllDocs(b) == \A doc \in Doc : b[doc] # <<>>

-----------------------------------------------------------------------------
(* The subtask list.                                                       *)

\* Mutant of detectCycle: a node on the stack is left alone.
detectCycle_SkipsGray(list) ==
  LET ids     == {e.id : e \in Range(list)}
      deps(s) == (CHOOSE e \in Range(list) : e.id = s).deps
      calls(seq) == [i \in DOMAIN seq |-> <<"visit", seq[i]>>]
      found[x \in Seq({"visit", "leave"} \X ids) \X [ids -> {"white", "gray", "black"}]] ==
        LET stack == x[1]
            color == x[2]
            s     == Head(stack)[2]
            rest  == Tail(stack)
        IN  /\ stack # <<>>
            /\ \/ /\ Head(stack)[1] = "leave"
                  /\ found[<<rest, [color EXCEPT ![s] = "black"]>>]
               \/ /\ Head(stack)[1] = "visit"
                  /\ \/ color[s] # "white" /\ found[<<rest, color>>]
                     \/ /\ color[s] = "white"
                        /\ found[<<calls(deps(s)) \o <<<<"leave", s>>>> \o rest,
                                   [color EXCEPT ![s] = "gray"]>>]
  IN  found[<<calls([i \in DOMAIN list |-> list[i].id]), [s \in ids |-> "white"]>>]

\* Three-colour search, its calls and returns on a stack: gray is being visited,
\* black is done with.
detectCycle(list) ==
  LET ids     == {e.id : e \in Range(list)}
      deps(s) == (CHOOSE e \in Range(list) : e.id = s).deps
      calls(seq) == [i \in DOMAIN seq |-> <<"visit", seq[i]>>]
      found[x \in Seq({"visit", "leave"} \X ids) \X [ids -> {"white", "gray", "black"}]] ==
        LET stack == x[1]
            color == x[2]
            s     == Head(stack)[2]
            rest  == Tail(stack)
        IN  /\ stack # <<>>
            /\ \/ /\ Head(stack)[1] = "leave"
                  /\ found[<<rest, [color EXCEPT ![s] = "black"]>>]
               \/ /\ Head(stack)[1] = "visit"
                  /\ \/ color[s] = "gray"
                     \/ color[s] = "black" /\ found[<<rest, color>>]
                     \/ /\ color[s] = "white"
                        /\ found[<<calls(deps(s)) \o <<<<"leave", s>>>> \o rest,
                                   [color EXCEPT ![s] = "gray"]>>]
  IN  found[<<calls([i \in DOMAIN list |-> list[i].id]), [s \in ids |-> "white"]>>]

\* ValidateDAG returns nil; which error it names otherwise is left out.
ValidateDAG(list) ==
  LET ids == {e.id : e \in Range(list)}
  IN  /\ list # <<>>
      /\ \A e \in Range(list) : e.complete
      /\ Cardinality(ids) = Len(list)
      /\ \A e \in Range(list) : \A dep \in Range(e.deps) : dep # e.id /\ dep \in ids
      /\ ~ detectCycle(list)

\* The list a document holds; the decoder is strict.
Decodes(body) == \A line \in Range(body) : line.kind \in {"entry", "blank"}
List(body) ==
  LET entries == SelectSeq(body, LAMBDA line : line.kind = "entry")
  IN  [i \in DOMAIN entries |-> entries[i].sub]

\* ParseSubtasks succeeds, and what it returns: every subtask is pending.
Parses(body) == Decodes(body) /\ ValidateDAG(List(body))
ParseSubtasks(body) ==
  LET list == List(body)
  IN  [i \in DOMAIN list |->
         [id |-> list[i].id, deps |-> Range(list[i].deps), files |-> list[i].files,
          status |-> "pending"]]

\* --dry-run: one subtask without files, whatever the agent says.
dryRunDocs ==
  LET placeholder == [id |-> "st-01", deps |-> <<>>, files |-> {}, complete |-> TRUE]
  IN  [doc \in Doc |-> IF doc = "subtasks" THEN <<Entry(placeholder)>> ELSE <<Prose(0)>>]

-----------------------------------------------------------------------------
(* Planner.Plan.                                                           *)

Goto(place) == at' = place

\* `plan' returns an error as it is, the orchestrator classifies it.
Err == Goto(IF viaPlan THEN "idle" ELSE "classify")

Fault == faults < MaxFaults /\ faults' = faults + 1

\* Save; a failing one leaves the change in memory.
Save(record, next) ==
  /\ mem' = record
  /\ \/ disk' = record /\ Goto(next) /\ UNCHANGED faults
     \/ Fault /\ Err /\ UNCHANGED disk

MarkPlanning ==
  /\ at = "mark"
  /\ Save([mem EXCEPT !.status = "planning"], "summarize")
  /\ UNCHANGED <<process, written, docs>>

\* The summary of the repository; git may fail, and does on a dead context.
Summarize ==
  /\ at = "summarize"
  /\ \/ ~ canceled /\ Goto("invoke") /\ UNCHANGED faults
     \/ canceled /\ Err /\ UNCHANGED faults
     \/ Fault /\ Err
  /\ UNCHANGED <<process, written, mem, disk, docs>>

\* The agent answers, on a cancelled context too perhaps; what the harness returns
\* of a dry run is ignored.
AgentAnswers ==
  /\ at = "invoke" /\ Goto("parse")
  /\ IF dry THEN answer' = <<>>
     ELSE answer' \in IF docs = NoDocs THEN FirstAnswers ELSE LaterAnswers
  /\ UNCHANGED <<dry, viaPlan, canceled, attempt, bundle, written, mem, disk, docs, faults>>

\* A failed call is an error of its own and not a reason to ask again.
InvocationFails ==
  /\ at = "invoke" /\ Err
  /\ IF canceled THEN UNCHANGED faults ELSE Fault
  /\ UNCHANGED <<process, written, mem, disk, docs>>

\* Mutant of Rejected: the agent is asked until its answer will do.
Rejected_Forever ==
  IF dry THEN Err /\ UNCHANGED attempt ELSE Goto("invoke") /\ attempt' = 2

\* An answer that will not do is asked for again, once.  A document that could
\* not be written counts as such an answer.
Rejected ==
  IF dry THEN Err /\ UNCHANGED attempt
  ELSE IF attempt = 1 THEN Goto("invoke") /\ attempt' = 2
  ELSE Err /\ UNCHANGED attempt

Parse ==
  /\ at = "parse"
  /\ bundle' = IF dry THEN dryRunDocs ELSE parseBundle(answer)
  /\ IF requireAllDocs(bundle')
     THEN Goto("write") /\ written' = 0 /\ UNCHANGED attempt
     ELSE Rejected /\ UNCHANGED written
  /\ UNCHANGED <<dry, viaPlan, canceled, answer, mem, disk, docs, faults>>

\* Mutant of WriteDoc: a document that cannot be written is passed over.
WriteDoc_BestEffort ==
  /\ at = "write" /\ written < Len(requiredDocs)
  /\ LET doc == requiredDocs[written + 1]
     IN  \/ docs' = [docs EXCEPT ![doc] = bundle[doc]] /\ UNCHANGED faults
         \/ Fault /\ docs' \in {docs, [docs EXCEPT ![doc] = <<>>]}
  /\ written' = written + 1
  /\ UNCHANGED <<at, process, mem, disk>>

\* os.WriteFile truncates before it writes: what fails may leave nothing.
WriteDoc ==
  /\ at = "write" /\ written < Len(requiredDocs)
  /\ LET doc == requiredDocs[written + 1]
     IN  \/ /\ docs' = [docs EXCEPT ![doc] = bundle[doc]]
            /\ written' = written + 1 /\ UNCHANGED <<at, attempt, faults>>
         \/ /\ Fault /\ Rejected /\ UNCHANGED written
            /\ docs' \in {docs, [docs EXCEPT ![doc] = <<>>]}
  /\ UNCHANGED <<dry, viaPlan, canceled, answer, bundle, mem, disk>>

Validate ==
  /\ at = "write" /\ written = Len(requiredDocs)
  /\ IF Parses(bundle["subtasks"]) THEN Goto("persist") /\ UNCHANGED attempt ELSE Rejected
  /\ UNCHANGED <<dry, viaPlan, canceled, answer, bundle, written, mem, disk, docs, faults>>

PersistPlan ==
  /\ at = "persist"
  /\ Save([status |-> "planned", subtasks |-> ParseSubtasks(bundle["subtasks"])], "idle")
  /\ UNCHANGED <<process, written, docs>>

-----------------------------------------------------------------------------
(* Around the planner: the processes of the run.                           *)

\* A process takes up a run that has no plan yet: `plan' or `run' the first
\* time, `resume' later (phaseAfterAbort).
Start ==
  /\ at = "idle"
  /\ \/ disk.status \in {"created", "planning"}
     \/ disk.status = "aborted" /\ disk.subtasks = <<>>
  /\ Goto("mark")
  /\ dry' \in DryModes /\ viaPlan' \in {FALSE, disk.status = "created"}
  /\ canceled' = FALSE /\ attempt' = 1
  /\ answer' = <<>> /\ bundle' = NoDocs /\ written' = 0
  /\ mem' = disk
  /\ UNCHANGED <<disk, docs, faults>>

\* An error under a cancelled context is an abort, any other a failure.
Classify ==
  /\ at = "classify" /\ Goto("idle")
  /\ mem' = [mem EXCEPT !.status = IF canceled THEN "aborted" ELSE "failed"]
  /\ \/ disk' = mem' /\ UNCHANGED faults
     \/ Fault /\ UNCHANGED disk
  /\ UNCHANGED <<process, written, docs>>

\* Ctrl-C; `plan' installs no handler and dies of it.
Cancel ==
  /\ at # "idle" /\ ~ viaPlan /\ ~ canceled /\ Fault
  /\ canceled' = TRUE
  /\ UNCHANGED <<at, dry, viaPlan, attempt, answer, bundle, written, mem, disk, docs>>

Crash ==
  /\ at # "idle" /\ Fault /\ Goto("idle")
  /\ UNCHANGED <<process, written, mem, disk, docs>>

Init ==
  /\ at = "idle" /\ dry = FALSE /\ viaPlan = FALSE /\ canceled = FALSE
  /\ attempt = 1 /\ answer = <<>> /\ bundle = NoDocs
  /\ written = 0 /\ faults = 0
  /\ mem = [status |-> "created", subtasks |-> <<>>] /\ disk = mem
  /\ docs = NoDocs

PlanStep == \/ MarkPlanning \/ Summarize \/ AgentAnswers \/ InvocationFails \/ Parse
            \/ WriteDoc \/ Validate \/ PersistPlan \/ Classify

Next == PlanStep \/ Start \/ Cancel \/ Crash

\* The planner and its agent run; a user resumes what has no plan.
Spec == Init /\ [][Next]_vars /\ WF_vars(PlanStep \/ Start)

-----------------------------------------------------------------------------
(* What may be answered, and about what tree.                              *)

\* The documents that can come.
Bundles == {dryRunDocs} \cup {parseBundle(raw) : raw \in FirstAnswers \cup LaterAnswers}

\* A list of subtasks, whatever they are called, wait for and declare.
IsList(list) ==
  /\ list \in Seq(Range(list))
  /\ \A e \in Range(list) :
       /\ e.deps \in Seq(Range(e.deps)) /\ e.complete \in BOOLEAN
       /\ \A p \in e.files : IsPath(p)

ASSUME AnswersAssumption == \A b \in Bundles : IsList(List(b["subtasks"]))

\* A file is no directory of another, and its path is in its shortest form.
ASSUME TreeAssumption ==
  /\ \A f \in Files : IsPath(f) /\ \A i \in DOMAIN f : f[i] \notin {<<>>, Dot, DotDot}
  /\ \A f, g \in Files : IsPrefix(f, g) => f = g

\* The loop of the matcher compares characters before it looks for a wildcard: a
\* `*' in the name of a file is taken by a `*' as by a letter.  And the gateway
\* takes a bracket for a class, which the rest of the code does not.
NoStars == \A f \in Files : \A i \in DOMAIN f : ~ Has(f[i], {"*"})

NoBrackets ==
  LET declared == UNION {UNION {e.files : e \in Range(List(b["subtasks"]))} : b \in Bundles}
  IN  \A p \in declared \cup Files : \A i \in DOMAIN p : ~ Has(p[i], {"[", "]"})

-----------------------------------------------------------------------------
(* Properties.                                                             *)

\* A plan the engine can run to its end: ids name subtasks, dependencies exist,
\* and no set of subtasks waits on itself.
Executable(list) ==
  LET ids     == {e.id : e \in Range(list)}
      deps(s) == UNION {Range(e.deps) : e \in {x \in Range(list) : x.id = s}}
  IN  /\ list # <<>> /\ \A e \in Range(list) : e.complete
      /\ \A i, j \in DOMAIN list : list[i].id = list[j].id => i = j
      /\ \A s \in ids : deps(s) \subseteq ids
      /\ \A S \in SUBSET ids : S # {} => \E s \in S : deps(s) \cap S = {}

\* What is validated is accepted iff the engine can execute it: the three-colour
\* search misses no cycle and takes no diamond for one, whatever the order of the
\* list and of the dependencies.
ValidatesExactly ==
  at = "write" /\ written = Len(requiredDocs) =>
    LET body == bundle["subtasks"]
    IN  Parses(body) <=> Decodes(body) /\ Executable(List(body))

\* A run that holds subtasks, whether planned, failed or aborted, has on disk the
\* four documents of the one answer these were parsed from: no mixture of two
\* attempts or of two processes, and nothing torn.  `amend' reads them again.
DocsMatchPlan ==
  disk.subtasks # <<>> =>
    docs = bundle /\ disk.subtasks = ParseSubtasks(docs["subtasks"])

\* The declared files of a plan that is about to be persisted.
accepted  == IF at = "persist" THEN ParseSubtasks(bundle["subtasks"]) ELSE <<>>
Accepted  == {accepted[i].files : i \in DOMAIN accepted}
AllFiles  == UNION Accepted

\* The matcher agrees with the meaning of a pattern, symbol by symbol.
MatchIsGlob ==
  \A p \in AllFiles, f \in Files : matchGlob(p, f) <=> Denotes(normSlash(p), f)

\* Subtasks said not to overlap, which may run at once, have no file in common in
\* what their passes snapshot and copy back.
OverlapSound ==
  \A mine, other \in Accepted :
    ~ subtasksOverlap(mine, other) =>
      Snapshotted(mine, Files) \cap Snapshotted(other, Files) = {}

\* An edit is never invisible: a path that counts as declared is in the diff of
\* some subtask (whose declarations do not fail it), so what no diff shows is
\* recorded as undeclared.  And no alarm is false: what a diff shows counts as
\* declared, if patterns are written in their shortest form.
DeclaredIsSnapshotted ==
  LET globs     == collectDeclaredGlobs(AllFiles)
      shown     == UNION {Snapshotted(mine, Files) : mine \in Accepted}
      declared  == {f \in Files : pathDeclared(f, globs)}
      fails     == \E mine \in Accepted : Escapes(mine)
      canonical == \A p \in AllFiles : Clean(p) = p
  IN  /\ ~ fails => declared \subseteq shown
      /\ canonical => shown \subseteq declared

\* However often the phase is cut short, a resumed run comes to a verdict on its
\* plan: planned, failed, or aborted with its subtasks kept for execution.
PlanningSettles ==
  <>[](at = "idle" /\ (disk.status \in {"planned", "failed"} \/ disk.subtasks # <<>>))
=============================================================================
