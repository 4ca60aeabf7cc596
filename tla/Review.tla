------------------------------- MODULE Review -------------------------------
(***************************************************************************)
(* What the two review loops hear, keep and hand on (findings.go, loop.go, *)
(* review_subtask.go, senior_review.go): the reviewer's answer and its     *)
(* verdict block, the one re-ask, the round files, the findings carried    *)
(* from the subtasks to the review of the whole change, the remediation    *)
(* files and the report of what is left open, in one run over several      *)
(* processes.                                                              *)
(*                                                                         *)
(* Scheduler and RunLifecycle know of a verdict only whether it approves;  *)
(* here its findings are followed.  Their batches, requests, dry runs and  *)
(* disabled reviews are left out: all pending subtasks run at once.        *)
(***************************************************************************)
EXTENDS RunState, Sequences, SequencesExt, FiniteSets

CONSTANTS
  Senior,       \* the reviewer of the whole change
  Preambles,    \* what a reviewer may write before its verdict block
  Verdicts,     \* the verdicts it may mean
  Garbled,      \* answers that keep no contract
  MaxLoops, SeniorMaxLoops,
  MaxFaults,    \* crashes, cancellations and failing writes considered
  Absent, Torn  \* a file that is not there, and one that was cut off

Reviewed == Subtask \cup {Senior}

ASSUME ReviewAssumption ==
  /\ Senior \notin Subtask /\ IsFiniteSet(Subtask)
  /\ {MaxLoops, SeniorMaxLoops, MaxFaults} \subseteq Nat

VARIABLES
  mem, disk,       \* the record in memory and run.yaml
  proc, canceled,  \* what the process is at, and its context
  pc,              \* where the loop of each change under review is
  asked,           \* how often its reviewer was asked this round
  verdict,         \* what was understood
  carried,         \* the findings of subtasks the senior reviewer is told of
  rounds,          \* the files round-N.md, per change
  fixes, report,   \* remediation-N.md and unresolved.md of the senior review
  faults,
  meant, shown     \* history: what the last answer was meant to say, and the
                   \* carried findings its prompt held

record  == <<mem, disk>>
process == <<proc, canceled>>
answer  == <<asked, verdict, meant, shown>>
files   == <<rounds, fixes, report>>
vars    == <<record, process, pc, answer, carried, files, faults>>

-----------------------------------------------------------------------------
(* An answer is a sequence of lines.  A YAML line stands for the text of   *)
(* one verdict.                                                            *)

Prose     == [kind |-> "prose"]
OpenYAML  == [kind |-> "yaml"]       \* ```yaml
OpenOther == [kind |-> "other"]      \* ```diff
Bare      == [kind |-> "bare"]       \* ```
YAML(v)   == [kind |-> "text", verdict |-> v]

Block(v)  == <<OpenYAML, YAML(v), Bare>>

Malformed == [approved |-> FALSE, findings |-> {}, kind |-> "malformed"]
NoVerdict == [approved |-> FALSE, findings |-> {}, kind |-> "none"]

\* What a reviewer means is a verdict.
ASSUME VerdictAssumption == NoVerdict \notin Verdicts

validSeverities == {"blocker", "major", "minor", "nit"}

\* The last block that is closed: its lines, if there is one.
lastYAMLBlock(lines) ==
  LET scan[i \in 0..Len(lines)] ==
        IF i = 0 THEN [inside |-> FALSE, body |-> <<>>, best |-> <<>>, found |-> FALSE]
        ELSE LET acc == scan[i - 1]
             IN  IF ~ acc.inside
                 THEN IF lines[i] = OpenYAML THEN [acc EXCEPT !.inside = TRUE, !.body = <<>>]
                      ELSE acc
                 ELSE IF lines[i] = Bare
                 THEN [acc EXCEPT !.inside = FALSE, !.found = TRUE, !.best = acc.body]
                 ELSE [acc EXCEPT !.body = Append(@, lines[i])]
  IN  scan[Len(lines)]

\* A block decodes strictly, and every finding has a known severity and a text.
Decodes(block) ==
  /\ Len(block) = 1 /\ block[1].kind = "text"
  /\ \A f \in block[1].verdict.findings : f.severity \in validSeverities /\ f.message # ""

ParseVerdict(lines) ==
  LET last == lastYAMLBlock(lines)
  IN  IF last.found /\ Decodes(last.best) THEN last.best[1].verdict ELSE Malformed

\* What is meant by the last block, without a scan: the lines between a fence that
\* closes one and the first that opens one after the bare fence before.
Opens(lines, i) == {o \in 1..i : lines[o] = OpenYAML /\ \A k \in o + 1..i : lines[k] # Bare}
Closes(lines)   == {c \in 1..Len(lines) : lines[c] = Bare /\ Opens(lines, c - 1) # {}}
BlockAt(lines, c) == SubSeq(lines, Min(Opens(lines, c - 1)) + 1, c - 1)

-----------------------------------------------------------------------------
(* Saves and files.                                                        *)

Goto(r, place) == pc' = [pc EXCEPT ![r] = place]

Fault == faults < MaxFaults /\ faults' = faults + 1

\* A save goes to ok, a failing one leaves the change in memory and goes to bad.
Save(run, r, ok, bad) ==
  /\ mem' = run
  /\ \/ disk' = run /\ Goto(r, ok) /\ UNCHANGED faults
     \/ Fault /\ Goto(r, bad) /\ UNCHANGED disk

\* os.WriteFile truncates first: what fails may leave the old file or a torn one.
Write(old, new, content, r, ok, bad) ==
  \/ new = content /\ Goto(r, ok) /\ UNCHANGED faults
  \/ Fault /\ new \in {old, Torn} /\ Goto(r, bad)

\* 1-based: the review after n remediations is round n + 1.
Round(r) == 1 + IF r = Senior THEN mem.rounds ELSE mem.loops[r]

-----------------------------------------------------------------------------
(* The reviewer (shared by both loops).                                    *)

\* What it may say, and mean by it.
Sayings ==
  {[text |-> p \o Block(v), meant |-> v] : p \in Preambles, v \in Verdicts}
    \cup {[text |-> g, meant |-> NoVerdict] : g \in Garbled}

\* The contract of the prompts: what comes before the block of a verdict leaves no
\* block open, a verdict is worded as it should be, and what keeps no contract has
\* no block at its end that could be taken for one.
Contract ==
  /\ \A p \in Preambles : p \in Seq(Range(p)) /\ Opens(p, Len(p)) = {}
  /\ \A v \in Verdicts : \A f \in v.findings : f.severity \in validSeverities /\ f.message # ""
  /\ \A g \in Garbled :
       g \in Seq(Range(g)) /\ (Closes(g) # {} => ~ Decodes(BlockAt(g, Max(Closes(g)))))

\* Then a verdict is understood as it is meant, whatever comes before its block,
\* and an answer that keeps no contract as none.
Understood ==
  /\ \A p \in Preambles, v \in Verdicts : ParseVerdict(p \o Block(v)) = v
  /\ \A g \in Garbled : ParseVerdict(g) = Malformed

\* An answer that is no verdict is asked for again, once; the round is filed
\* whether the last one is or not, unless it is empty.
Answers(r) ==
  /\ pc[r] = "asking"
  /\ \E say \in Sayings :
       LET v == ParseVerdict(say.text)
       IN  /\ verdict' = [verdict EXCEPT ![r] = v]
           /\ meant' = [meant EXCEPT ![r] = say.meant]
           /\ asked' = [asked EXCEPT ![r] = @ + 1]
           /\ Goto(r, CASE v = Malformed /\ asked[r] = 0           -> "asking"
                        [] v = Malformed /\ asked[r] = 1 /\ say.text = <<>> -> "failing"
                        [] OTHER -> "file")
  /\ shown' = IF r = Senior THEN carried ELSE shown
  /\ UNCHANGED <<record, process, carried, files, faults>>

\* The call fails, on a cancelled context or otherwise; so may the diff before it.
CallFails(r) ==
  /\ pc[r] \in {"asking", "pass"} /\ Goto(r, "failing")
  /\ UNCHANGED <<record, process, answer, carried, files, faults>>

\* An executor pass, the first one of a subtask or a remediation, returns.
PassReturns(r) ==
  /\ pc[r] = "pass" /\ Goto(r, "loop")
  /\ UNCHANGED <<record, process, answer, carried, files, faults>>

\* persistRound; an answer that could not be understood ends the review here.
FileRound(r) ==
  /\ pc[r] = "file"
  /\ \E content \in {verdict[r], Torn, rounds[r][Round(r)]} :
       /\ Write(rounds[r][Round(r)], content, verdict[r], r,
                IF verdict[r] = Malformed THEN "failing" ELSE "decide", "failing")
       /\ rounds' = [rounds EXCEPT ![r][Round(r)] = content]
  /\ UNCHANGED <<record, process, answer, carried, fixes, report>>

-----------------------------------------------------------------------------
(* The loop of a subtask (executeSubtask and the hook).                    *)

Commit(s, run, ok, bad) ==
  /\ Save(run, s, ok, bad)
  /\ UNCHANGED <<process, carried, files>>

StartSubtask(s) ==
  /\ proc = "executing" /\ pc[s] = "idle"
  /\ \/ Commit(s, [mem EXCEPT !.st[s] = "implementing"], "pass", "broken") /\ UNCHANGED answer
     \/ /\ canceled /\ Goto(s, "canceled")
        /\ UNCHANGED <<record, process, answer, carried, files, faults>>

\* A round begins.
EnterReview(s) ==
  /\ s \in Subtask /\ pc[s] = "loop"
  /\ \/ /\ canceled /\ Goto(s, "failing")
        /\ UNCHANGED <<record, process, answer, carried, files, faults>>
     \/ /\ ~ canceled /\ asked' = [asked EXCEPT ![s] = 0]
        /\ Commit(s, [mem EXCEPT !.st[s] = "reviewing"], "asking", "failing")
        /\ UNCHANGED <<verdict, meant, shown>>

Decides(r) == pc[r] = "decide" /\ UNCHANGED answer

Approve(s) ==
  /\ s \in Subtask /\ Decides(s) /\ verdict[s].approved
  /\ Commit(s, [mem EXCEPT !.st[s] = "done", !.unresolved[s] = {}], "finished", "failing")

\* The budget is spent: done, the findings carried forward.
ProceedFlagged(s) ==
  /\ s \in Subtask /\ Decides(s) /\ ~ verdict[s].approved /\ mem.loops[s] >= MaxLoops
  /\ Commit(s, [mem EXCEPT !.st[s] = "done", !.unresolved[s] = verdict[s].findings],
            "finished", "failing")

Remediate(s) ==
  /\ s \in Subtask /\ Decides(s) /\ ~ verdict[s].approved /\ mem.loops[s] < MaxLoops
  /\ Commit(s, [mem EXCEPT !.st[s] = "implementing", !.loops[s] = @ + 1], "pass", "failing")

\* A cancelled context leaves the subtask to be run again, any other error fails
\* it; an error that cannot be saved ends the run.
SettleError(s) ==
  /\ s \in Subtask /\ pc[s] = "failing"
  /\ \/ /\ canceled /\ Goto(s, "canceled")
        /\ UNCHANGED <<record, process, answer, carried, files, faults>>
     \/ /\ ~ canceled /\ UNCHANGED answer
        /\ Commit(s, [mem EXCEPT !.st[s] = "failed"], "finished", "broken")

-----------------------------------------------------------------------------
(* seniorReviewPhase.Run.                                                  *)

\* A save of the phase; an error goes to classify.
Record(run, ok) == Save(run, Senior, ok, "failing")

\* Mutant of carriedFindings: gathered by the process that starts the phase only.
carriedFindings_Once ==
  IF mem.senior = "pending" THEN UNION {mem.unresolved[s] : s \in Subtask} ELSE {}

carriedFindings == UNION {mem.unresolved[s] : s \in Subtask}

SeniorEnter ==
  /\ proc = "senior" /\ pc[Senior] = "idle"
  /\ \/ /\ mem.senior = "done" /\ Goto(Senior, "finished")
        /\ UNCHANGED <<record, carried, faults>>
     \/ /\ mem.senior # "done" /\ carried' = carriedFindings
        /\ Record([mem EXCEPT !.status = "seniorReview", !.senior = "running"], "loop")
  /\ UNCHANGED <<process, answer, files>>

SeniorLoop ==
  /\ pc[Senior] = "loop"
  /\ Goto(Senior, IF canceled THEN "failing" ELSE "asking")
  /\ asked' = [asked EXCEPT ![Senior] = 0]
  /\ UNCHANGED <<record, process, verdict, meant, shown, carried, files, faults>>

SeniorApproves ==
  /\ Decides(Senior) /\ verdict[Senior].approved
  /\ Record([mem EXCEPT !.senior = "done", !.open = {}], "finished")
  /\ UNCHANGED <<process, carried, files>>

\* reportRemaining, then the record.
ReportRemaining ==
  /\ Decides(Senior) /\ ~ verdict[Senior].approved /\ mem.rounds >= SeniorMaxLoops
  /\ \E content \in {verdict[Senior].findings, Torn, report} :
       /\ Write(report, content, verdict[Senior].findings, Senior, "reported", "failing")
       /\ report' = content
  /\ UNCHANGED <<record, process, carried, rounds, fixes>>

SeniorReports ==
  /\ pc[Senior] = "reported"
  /\ Record([mem EXCEPT !.senior = "done", !.open = verdict[Senior].findings], "finished")
  /\ UNCHANGED <<process, answer, carried, files>>

\* Mutant of SeniorRemediates: counted once the remediation is under way.
SeniorRemediates_Uncounted ==
  /\ Decides(Senior) /\ ~ verdict[Senior].approved /\ mem.rounds < SeniorMaxLoops
  /\ mem' = [mem EXCEPT !.rounds = @ + 1] /\ Goto(Senior, "counted")
  /\ UNCHANGED <<disk, process, carried, files, faults>>

\* The cycle is counted, then what it is asked to fix is filed, then it runs.
SeniorRemediates ==
  /\ Decides(Senior) /\ ~ verdict[Senior].approved /\ mem.rounds < SeniorMaxLoops
  /\ Record([mem EXCEPT !.rounds = @ + 1], "counted")
  /\ UNCHANGED <<process, carried, files>>

FileRemediation ==
  /\ pc[Senior] = "counted"
  /\ \E content \in {verdict[Senior].findings, Torn, fixes[mem.rounds]} :
       /\ Write(fixes[mem.rounds], content, verdict[Senior].findings, Senior, "pass", "failing")
       /\ fixes' = [fixes EXCEPT ![mem.rounds] = content]
  /\ UNCHANGED <<record, process, answer, carried, rounds, report>>

SeniorStep == \/ SeniorEnter \/ SeniorLoop \/ SeniorApproves \/ ReportRemaining
              \/ SeniorReports \/ SeniorRemediates \/ FileRemediation

SubtaskStep(s) == \/ StartSubtask(s) \/ EnterReview(s) \/ Approve(s) \/ ProceedFlagged(s)
                  \/ Remediate(s) \/ SettleError(s)

-----------------------------------------------------------------------------
(* The process around the loops (see Scheduler and RunLifecycle).          *)

Proceed(run, next) ==
  /\ mem' = run
  /\ \/ disk' = run /\ proc' = next /\ UNCHANGED faults
     \/ Fault /\ proc' = "classify" /\ UNCHANGED disk
  /\ UNCHANGED <<canceled, pc, answer, carried, files>>

Ended == \A s \in Subtask : pc[s] \in {"finished", "canceled", "broken"}

\* Scheduler.Run returns: an error, a plan that failed, or on to the senior review.
EngineReturns ==
  /\ proc = "executing" /\ Ended
  /\ IF ~ canceled /\ \A s \in Subtask : pc[s] = "finished" /\ mem.st[s] = "done"
     THEN Proceed([mem EXCEPT !.status = "seniorReview"], "senior")
     ELSE proc' = "classify"
          /\ UNCHANGED <<record, canceled, pc, answer, carried, files, faults>>

PhaseReturns ==
  /\ proc = "senior"
  /\ \/ /\ pc[Senior] = "finished"
        /\ Proceed([mem EXCEPT !.status = "completed"], "down")
     \/ /\ pc[Senior] = "failing" /\ proc' = "classify"
        /\ UNCHANGED <<record, canceled, pc, answer, carried, files, faults>>

\* classify saves the whole record, what failed to be saved before included.
Classify ==
  /\ proc = "classify" /\ proc' = "down"
  /\ mem' = IF IsTerminalRun(mem.status) THEN mem
            ELSE [mem EXCEPT !.status = IF canceled THEN "aborted" ELSE "failed"]
  /\ \/ mem' # mem /\ disk' = mem' /\ UNCHANGED faults
     \/ mem' = mem /\ UNCHANGED <<disk, faults>>
     \/ mem' # mem /\ Fault /\ UNCHANGED disk
  /\ UNCHANGED <<canceled, pc, answer, carried, files>>

\* A process takes the run up: the engine rewinds what was cut off and saves, the
\* senior review goes on where it was.
Resume ==
  /\ proc = "down" /\ disk.status \notin {"completed", "failed"}
  /\ canceled' = FALSE
  /\ LET senior == disk.status = "seniorReview" \/ disk.senior \in {"running", "done"}
         run    == IF senior THEN disk
                   ELSE ResetInterrupted([disk EXCEPT !.status = "executing"])
     IN  /\ mem' = run
         /\ \/ disk' = run /\ UNCHANGED faults
               /\ proc' = IF senior THEN "senior" ELSE "executing"
            \/ ~ senior /\ Fault /\ proc' = "classify" /\ UNCHANGED disk
         /\ pc' = [r \in Reviewed |->
                     IF r \in Subtask /\ run.st[r] \in {"done", "failed"} THEN "finished" ELSE "idle"]
  /\ verdict' = [r \in Reviewed |-> NoVerdict] /\ asked' = [r \in Reviewed |-> 0]
  /\ carried' = {}
  /\ UNCHANGED <<files, meant, shown>>

Cancel ==
  /\ proc # "down" /\ ~ canceled /\ Fault /\ canceled' = TRUE
  /\ UNCHANGED <<record, proc, pc, answer, carried, files>>

Crash ==
  /\ proc # "down" /\ Fault /\ proc' = "down"
  /\ UNCHANGED <<record, canceled, pc, answer, carried, files>>

\* A plan is ready.
Init ==
  /\ mem = [status     |-> "planned",
            st         |-> [s \in Subtask |-> "pending"],
            loops      |-> [s \in Subtask |-> 0],
            unresolved |-> [s \in Subtask |-> {}],
            senior |-> "pending", rounds |-> 0, open |-> {}]
  /\ disk = mem
  /\ proc = "down" /\ canceled = FALSE
  /\ pc = [r \in Reviewed |-> "idle"] /\ asked = [r \in Reviewed |-> 0]
  /\ verdict = [r \in Reviewed |-> NoVerdict] /\ meant = verdict
  /\ carried = {} /\ shown = {}
  /\ rounds = [r \in Reviewed |->
                 [n \in 1..1 + (IF r = Senior THEN SeniorMaxLoops ELSE MaxLoops) |-> Absent]]
  /\ fixes = [n \in 1..SeniorMaxLoops |-> Absent] /\ report = Absent
  /\ faults = 0

ReviewerStep(r) == Answers(r) \/ CallFails(r) \/ PassReturns(r) \/ FileRound(r)

Next == \/ /\ proc \in {"executing", "senior"}
           /\ \E r \in Reviewed : ReviewerStep(r)
        \/ proc = "executing" /\ \E s \in Subtask : SubtaskStep(s)
        \/ proc = "senior" /\ SeniorStep
        \/ EngineReturns \/ PhaseReturns \/ Classify
        \/ Resume \/ Cancel \/ Crash

Spec == Init /\ [][Next]_vars

-----------------------------------------------------------------------------
(* Properties.                                                             *)

\* The verdict v of round n of r is what its reviewer meant and what its file
\* shows, and what is left open are its findings, none if it approves.
Judged(r, n, open, budget) ==
  LET v == meant[r]
  IN  /\ v # NoVerdict /\ rounds[r][n + 1] = v
      /\ open = IF v.approved THEN {} ELSE v.findings
      /\ v.approved \/ n = budget

\* A change that run.yaml calls done was judged: through every crash, re-ask,
\* failed save and resume, the record, the file of the round it names and what the
\* reviewer meant agree, and the senior reviewer spoke knowing what the subtasks
\* had left open.
SettledAsJudged ==
  /\ \A s \in Subtask :
       disk.st[s] = "done" => Judged(s, disk.loops[s], disk.unresolved[s], MaxLoops)
  /\ disk.senior = "done" =>
       /\ Judged(Senior, disk.rounds, disk.open, SeniorMaxLoops)
       /\ shown = UNION {disk.unresolved[s] : s \in Subtask}
       /\ ~ meant[Senior].approved => report = disk.open

\* The record of a remediation lists the findings of the round of its number, as
\* filed, and that round is never held again.
RemediationsFiled ==
  \A n \in 1..SeniorMaxLoops :
    fixes[n] \notin {Absent, Torn} =>
      /\ n <= disk.rounds
      /\ rounds[Senior][n] \in Verdicts /\ ~ rounds[Senior][n].approved
      /\ fixes[n] = rounds[Senior][n].findings
=============================================================================
