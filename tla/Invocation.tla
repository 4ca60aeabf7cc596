----------------------------- MODULE Invocation -----------------------------
(***************************************************************************)
(* One call of an agent (internal/harness): the retry loop (retry.go)      *)
(* around the CLI adapter and its preset (cli.go, claude/claude.go) around *)
(* the runner that races the agent process against the context             *)
(* (exec_runner.go, procgroup_unix.go).                                    *)
(*                                                                         *)
(* External: os/exec.  Command.Wait reaps the agent, then waits until      *)
(* nobody holds the write end of its output pipe; a goroutine of its own   *)
(* kills the agent, and only it, when the context is done.  The agent may  *)
(* start a helper process, in its process group or (setsid) outside it,    *)
(* that inherits the pipe or not.                                          *)
(*                                                                         *)
(* A call ends in one of the kinds of errors.go, or in "ok".  What the     *)
(* agent wrote is good, unusable ("bad") or a deliberate error envelope.   *)
(***************************************************************************)
EXTENDS Integers

CONSTANTS
  MaxAttempts,  \* retry.maxAttempts
  HasBackoff,   \* retry.backoff > 0
  HasTimeout,   \* the role or the harness sets a timeout
  HelperKinds   \* what helpers agents start: a subset of Helper

ASSUME MaxAttemptsAssumption == MaxAttempts \in Int
ASSUME FlagsAssumption == HasBackoff \in BOOLEAN /\ HasTimeout \in BOOLEAN

VARIABLES
  at,        \* where Run is, over the three layers
  attempt,   \* the attempt being made
  canceled,  \* the caller's context is cancelled
  expired,   \* the deadline of this attempt has passed
  child,     \* the agent process of this attempt
  cause,     \* how it ended
  helper,    \* the helper process it started
  watch,     \* os/exec's goroutine on the context
  waitVal,   \* what cmd.Wait has sent, "none" before
  outcome    \* the kind of the last attempt's result

inner == <<child, cause, helper, watch, waitVal>>
vars  == <<at, attempt, canceled, expired, inner, outcome>>

-----------------------------------------------------------------------------

\* "kill" and "waited": the case the runner's select has committed to.
Place   == {"attempt", "started", "blocked", "kill", "reap", "waited",
            "decide", "backoff", "returned"}
Cause   == {"none", "good", "bad", "envelope", "nonzero", "killed"}
Outcome == {"none", "ok", "hard", "spawn", "timeout", "badOutput"}

\* A helper is in the agent's process group or away from it, and holds the
\* output pipe or not.
InGroup == {"groupPipe", "groupSilent"}
OnPipe  == {"groupPipe", "awayPipe"}
Helper  == InGroup \cup OnPipe \cup {"awaySilent"}

ASSUME HelperAssumption == HelperKinds \subseteq Helper

\* newRetry floors the budget at one attempt.
attempts == IF MaxAttempts < 1 THEN 1 ELSE MaxAttempts

\* Every variable keeps its type, and the budget bounds the attempts.
TypeOK ==
  /\ at \in Place /\ attempt \in 1..attempts
  /\ canceled \in BOOLEAN /\ expired \in BOOLEAN
  /\ child \in {"none", "running", "exited", "reaped"} /\ cause \in Cause
  /\ helper \in HelperKinds \cup {"none"}
  /\ watch \in {"off", "armed", "killed", "late"}
  /\ waitVal \in {"none", "nil", "exitError", "otherError"}
  /\ outcome \in Outcome

\* FailureKind.Transient
Transient(kind) == kind \in {"spawn", "timeout", "badOutput"}

\* runCtx.Err() # nil
CtxDone == canceled \/ expired

HoldsPipe == helper \in OnPipe

Ended(kind) == at' = "decide" /\ outcome' = kind

-----------------------------------------------------------------------------
(* cliHarness.Run and execRunner.                                          *)

\* The prompt file or an argument template fails before any process: an
\* unclassified error, so a hard one.
PrepareFails ==
  /\ at = "attempt" /\ Ended("hard")
  /\ UNCHANGED <<attempt, canceled, expired, inner>>

\* cmd.Start fails: no such binary, or the context is already done.
StartFails ==
  /\ at = "attempt" /\ Ended("spawn")
  /\ UNCHANGED <<attempt, canceled, expired, inner>>

\* cmd.Start, and the goroutine that waits.
StartAgent ==
  /\ at = "attempt" /\ ~ CtxDone
  /\ at' = "started" /\ child' = "running" /\ watch' = "armed"
  /\ UNCHANGED <<attempt, canceled, expired, cause, helper, waitVal, outcome>>

\* The runner reaches its select: with both channels ready it takes either,
\* with none it blocks until the first (see CommitTo).
EnterSelect ==
  /\ at = "started"
  /\ \/ CtxDone /\ at' = "kill"
     \/ waitVal # "none" /\ at' = "waited"
     \/ ~ CtxDone /\ waitVal = "none" /\ at' = "blocked"
  /\ UNCHANGED <<attempt, canceled, expired, inner, outcome>>

\* A channel becoming ready wakes a blocked select with that case.
CommitTo(case) == at' = IF at = "blocked" THEN case ELSE at

\* Mutant of KillGroup: only the agent is killed.
KillGroup_AgentOnly ==
  /\ at = "kill" /\ at' = "reap"
  /\ IF child = "running" THEN child' = "exited" /\ cause' = "killed"
                          ELSE UNCHANGED <<child, cause>>
  /\ UNCHANGED <<attempt, canceled, expired, helper, watch, waitVal, outcome>>

\* killProcessGroup: the agent and every helper still in its group.
KillGroup ==
  /\ at = "kill" /\ at' = "reap"
  /\ IF child = "running" THEN child' = "exited" /\ cause' = "killed"
                          ELSE UNCHANGED <<child, cause>>
  /\ helper' = IF helper \in InGroup THEN "none" ELSE helper
  /\ UNCHANGED <<attempt, canceled, expired, watch, waitVal, outcome>>

\* Mutant of ReapAfterKill: the runner does not wait for the killed process.
ReapAfterKill_NoWait ==
  /\ at = "reap" /\ Ended("timeout")
  /\ UNCHANGED <<attempt, canceled, expired, inner>>

\* <-waitErr, then timedOut, whether the deadline or the caller ended it.
ReapAfterKill ==
  /\ at = "reap" /\ waitVal # "none" /\ Ended("timeout")
  /\ UNCHANGED <<attempt, canceled, expired, inner>>

\* Mutant of Classify: the exit code is not looked at.
Classify_IgnoresExitCode ==
  /\ at = "waited"
  /\ Ended(CASE waitVal = "otherError"  -> "spawn"
             [] cause = "envelope"      -> "hard"
             [] cause = "bad"           -> "badOutput"
             [] OTHER                   -> "ok")
  /\ UNCHANGED <<attempt, canceled, expired, inner>>

\* The process ended first: its exit code, then its output, decide.
Classify ==
  /\ at = "waited"
  /\ Ended(CASE waitVal = "exitError"  -> "hard"
             [] waitVal = "otherError" -> "spawn"
             [] cause = "good"         -> "ok"
             [] cause = "envelope"     -> "hard"
             [] OTHER                  -> "badOutput")
  /\ UNCHANGED <<attempt, canceled, expired, inner>>

-----------------------------------------------------------------------------
(* os/exec.                                                                *)

\* The context watcher kills the agent (not its group).  A zombie takes the
\* signal as well; once the agent has been reaped there is nothing to kill.
WatchKills ==
  /\ watch = "armed" /\ CtxDone
  /\ watch' = IF child = "reaped" THEN "late" ELSE "killed"
  /\ IF child = "running" THEN child' = "exited" /\ cause' = "killed"
                          ELSE UNCHANGED <<child, cause>>
  /\ UNCHANGED <<at, attempt, canceled, expired, helper, waitVal, outcome>>

Reap ==
  /\ child = "exited" /\ child' = "reaped"
  /\ UNCHANGED <<at, attempt, canceled, expired, cause, helper, watch, waitVal, outcome>>

\* cmd.Wait returns: the agent is reaped, the watcher has answered or is told to
\* go, and the output pipe has no writer left.
WaitReturns ==
  /\ child = "reaped" /\ waitVal = "none" /\ ~ HoldsPipe
  /\ waitVal' = CASE cause \in {"nonzero", "killed"} -> "exitError"
                  [] watch = "killed"                -> "otherError"
                  [] OTHER                           -> "nil"
  /\ watch' = "off" /\ CommitTo("waited")
  /\ UNCHANGED <<attempt, canceled, expired, child, cause, helper, outcome>>

ExecStep == WatchKills \/ Reap \/ WaitReturns

-----------------------------------------------------------------------------
(* The agent and its helper, the caller and the clock.                     *)

AgentExits ==
  /\ child = "running" /\ child' = "exited"
  /\ cause' \in {"good", "bad", "envelope", "nonzero"}
  /\ UNCHANGED <<at, attempt, canceled, expired, helper, watch, waitVal, outcome>>

StartHelper ==
  /\ child = "running" /\ helper = "none"
  /\ helper' \in HelperKinds
  /\ UNCHANGED <<at, attempt, canceled, expired, child, cause, watch, waitVal, outcome>>

HelperExits ==
  /\ helper # "none" /\ helper' = "none"
  /\ UNCHANGED <<at, attempt, canceled, expired, child, cause, watch, waitVal, outcome>>

Cancel ==
  /\ ~ canceled /\ canceled' = TRUE /\ CommitTo("kill")
  /\ UNCHANGED <<attempt, expired, inner, outcome>>

Expire ==
  /\ HasTimeout /\ ~ expired /\ at \in {"attempt", "started", "blocked"}
  /\ expired' = TRUE /\ CommitTo("kill")
  /\ UNCHANGED <<attempt, canceled, inner, outcome>>

Environment == AgentExits \/ StartHelper \/ HelperExits \/ Cancel

-----------------------------------------------------------------------------
(* retryHarness.Run                                                        *)

\* Mutant of Decide: any failure is worth another attempt.
Decide_AnyFailure ==
  /\ at = "decide"
  /\ at' = IF \/ outcome = "ok"
              \/ attempt = attempts
              \/ canceled
           THEN "returned" ELSE "backoff"
  /\ UNCHANGED <<attempt, canceled, expired, inner, outcome>>

\* Success and hard failures return at once; so does the last attempt, and a
\* cancelled caller.
Decide ==
  /\ at = "decide"
  /\ at' = IF \/ outcome = "ok"
              \/ ~ Transient(outcome)
              \/ attempt = attempts
              \/ canceled
           THEN "returned" ELSE "backoff"
  /\ UNCHANGED <<attempt, canceled, expired, inner, outcome>>

\* ctxSleep: with a delay the timer and the context race; without one a
\* cancelled context always wins.  The next attempt has a deadline of its own.
BackOff ==
  /\ at = "backoff"
  /\ \/ /\ canceled /\ at' = "returned"
        /\ UNCHANGED <<attempt, expired, inner>>
     \/ /\ ~ canceled \/ HasBackoff
        /\ at' = "attempt" /\ attempt' = attempt + 1 /\ expired' = FALSE
        /\ child' = "none" /\ cause' = "none" /\ helper' = "none"
        /\ watch' = "off" /\ waitVal' = "none"
  /\ UNCHANGED <<canceled, outcome>>

CallStep == \/ PrepareFails \/ StartFails \/ StartAgent \/ EnterSelect
            \/ KillGroup \/ ReapAfterKill \/ Classify \/ Decide \/ BackOff

Init ==
  /\ at = "attempt" /\ attempt = 1 /\ canceled \in BOOLEAN /\ expired = FALSE
  /\ child = "none" /\ cause = "none" /\ helper = "none"
  /\ watch = "off" /\ waitVal = "none" /\ outcome = "none"

Next == CallStep \/ ExecStep \/ Expire \/ Environment

\* The program's goroutines run and time passes; no agent ever has to end.
Fairness == WF_vars(CallStep) /\ WF_vars(ExecStep) /\ WF_vars(Expire)

Spec == Init /\ [][Next]_vars /\ Fairness

-----------------------------------------------------------------------------
(* Properties.                                                             *)

\* When an attempt has its outcome, its process is reaped and nobody writes its
\* output any more: the caller may read the buffers and snapshot the tree.
CallQuiesces ==
  at \in {"decide", "backoff", "returned"} =>
    child \in {"none", "reaped"} /\ ~ HoldsPipe

\* Success is only ever what an agent that ended by itself had to say: no
\* partial output of a killed or failing agent is taken for a result.
OkIsGenuine == outcome = "ok" => cause = "good"

\* What an agent answered before its deadline, a result or a refusal, is never
\* followed by another attempt, through all three layers and whenever the
\* caller cancels.
AnswerIsFinal ==
  [][attempt' # attempt /\ ~ expired =>
       cause \notin {"good", "envelope", "nonzero"}]_vars

\* With a deadline every call comes back, whatever the agent does, and so does
\* without one a call that is cancelled: every wait of the engine on an agent
\* ends.  This rests on the helper not leaving the agent's group with the output
\* pipe: such a helper survives the kill, and cmd.Wait has no bound of its own.
CallReturns ==
  [](helper # "awayPipe") /\ (HasTimeout \/ <>canceled) => <>(at = "returned")

=============================================================================
