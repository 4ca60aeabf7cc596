-------------------------- MODULE InvocationProofs --------------------------
(***************************************************************************)
(* Proofs about Invocation: types and the attempt budget, the quiescence   *)
(* of an attempt that has its outcome, genuine success and final answers,  *)
(* for every budget, every set of helpers, with or without timeout and     *)
(* backoff.                                                                *)
(***************************************************************************)
EXTENDS Invocation, TLAPS

USE MaxAttemptsAssumption, FlagsAssumption, HelperAssumption

Answers == {"good", "envelope", "nonzero"}

\* What each place of Run knows of the processes.
PlaceInv ==
  /\ at = "attempt" => child = "none" /\ cause = "none" /\ helper = "none" /\ waitVal = "none"
  /\ at \in {"kill", "reap"} => CtxDone
  /\ at = "waited" => waitVal # "none"
  /\ at = "backoff" => Transient(outcome) /\ attempt < attempts

\* What a sent waitVal says: the agent is reaped, the pipe closed, and the exit
\* status follows the cause, an unclassified error only ever the context.
WaitInv ==
  /\ child = "none" => cause = "none"
  /\ waitVal # "none" => child = "reaped" /\ ~ HoldsPipe
  /\ waitVal = "nil" => cause # "nonzero"
  /\ waitVal = "otherError" => CtxDone
  /\ watch = "killed" => CtxDone

\* A transient outcome of an agent that did answer is the context's doing.
Unanswered ==
  /\ at = "decide" /\ Transient(outcome) => CtxDone \/ cause \notin Answers
  /\ at = "backoff" => expired \/ cause \notin Answers

\* Success is kept until Run returns it, of a process that is gone.
Genuine ==
  outcome = "ok" => /\ cause = "good" /\ child = "reaped"
                    /\ at \in {"decide", "returned"}

IInv == TypeOK /\ PlaceInv /\ WaitInv /\ CallQuiesces /\ Unanswered /\ Genuine

\* The budget is a positive number.
LEMMA BudgetPositive == attempts \in Nat /\ attempts >= 1
BY DEF attempts

\* Run starts inside the invariant.
LEMMA InitIInv == Init => IInv
<1> SUFFICES ASSUME Init PROVE IInv
  OBVIOUS
<1>1. TypeOK
  <2>1. attempt \in 1..attempts
    BY BudgetPositive DEF Init
  <2> QED
    BY <2>1 DEF Init, TypeOK, Place, Cause, Outcome
<1>2. PlaceInv /\ WaitInv
  BY DEF Init, PlaceInv, WaitInv, HoldsPipe, OnPipe
<1>3. CallQuiesces /\ Unanswered /\ Genuine
  BY DEF Init, CallQuiesces, Unanswered, Genuine
<1> QED
  BY <1>1, <1>2, <1>3 DEF IInv

\* Every step keeps the invariant: one step of the proof per action.
LEMMA NextIInv == IInv /\ [Next]_vars => IInv'
<1> SUFFICES ASSUME IInv, [Next]_vars PROVE IInv'
  OBVIOUS
<1> USE BudgetPositive
    DEF IInv, TypeOK, PlaceInv, WaitInv, CallQuiesces, Unanswered, Genuine,
        Place, Cause, Outcome, HoldsPipe, OnPipe, InGroup, Helper, Answers,
        Transient, CtxDone, inner, Ended, CommitTo
<1>1. CASE PrepareFails
  BY <1>1 DEF PrepareFails
<1>2. CASE StartFails
  BY <1>2 DEF StartFails
<1>3. CASE StartAgent
  BY <1>3 DEF StartAgent
<1>4. CASE EnterSelect
  BY <1>4 DEF EnterSelect
<1>5. CASE KillGroup
  BY <1>5 DEF KillGroup
<1>6. CASE ReapAfterKill
  BY <1>6 DEF ReapAfterKill
<1>7. CASE Classify
  BY <1>7 DEF Classify
<1>8. CASE Decide
  BY <1>8 DEF Decide
<1>9. CASE BackOff
  <2>1. CASE at' = "returned" /\ UNCHANGED <<attempt, canceled, expired, inner, outcome>>
    BY <1>9, <2>1 DEF BackOff
  <2>2. CASE /\ at' = "attempt" /\ attempt' = attempt + 1 /\ expired' = FALSE
             /\ child' = "none" /\ cause' = "none" /\ helper' = "none"
             /\ watch' = "off" /\ waitVal' = "none"
             /\ UNCHANGED <<canceled, outcome>>
    <3>1. attempt' \in 1..attempts
      <4>1. attempt \in 1..attempts /\ attempt < attempts
        BY <1>9 DEF BackOff
      <4> QED
        BY <2>2, <4>1, BudgetPositive
    <3>2. TypeOK'
      BY <2>2, <3>1
    <3>3. Transient(outcome)
      BY <1>9 DEF BackOff
    <3> QED
      BY <2>2, <3>2, <3>3
  <2> QED
    BY <1>9, <2>1, <2>2 DEF BackOff
<1>10. CASE WatchKills
  BY <1>10 DEF WatchKills
<1>11. CASE Reap
  BY <1>11 DEF Reap
<1>12. CASE WaitReturns
  BY <1>12 DEF WaitReturns
<1>13. CASE AgentExits
  BY <1>13 DEF AgentExits
<1>14. CASE StartHelper
  BY <1>14 DEF StartHelper
<1>15. CASE HelperExits
  BY <1>15 DEF HelperExits
<1>16. CASE Cancel
  BY <1>16 DEF Cancel
<1>17. CASE Expire
  BY <1>17 DEF Expire
<1>18. CASE UNCHANGED vars
  BY <1>18 DEF vars
<1> QED
  BY <1>1, <1>2, <1>3, <1>4, <1>5, <1>6, <1>7, <1>8, <1>9, <1>10, <1>11, <1>12,
     <1>13, <1>14, <1>15, <1>16, <1>17, <1>18
     DEF Next, CallStep, ExecStep, Environment

\* The invariant of every call.
THEOREM InvocationInvariant == Spec => []IInv
BY InitIInv, NextIInv, PTL DEF Spec

\* Types, and never more attempts than the budget.
THEOREM TypeCorrect == Spec => []TypeOK
<1>1. IInv => TypeOK
  BY DEF IInv
<1> QED
  BY <1>1, InvocationInvariant, PTL

\* When an attempt has its outcome its process is reaped and nobody writes its
\* output any more.
THEOREM Quiescence == Spec => []CallQuiesces
<1>1. IInv => CallQuiesces
  BY DEF IInv
<1> QED
  BY <1>1, InvocationInvariant, PTL

\* Success is only ever what an agent that ended by itself had to say.
THEOREM GenuineSuccess == Spec => []OkIsGenuine
<1>1. IInv => OkIsGenuine
  BY DEF IInv, Genuine, OkIsGenuine
<1> QED
  BY <1>1, InvocationInvariant, PTL

\* An answer given before the deadline is never followed by another attempt.
THEOREM FinalAnswer == Spec => AnswerIsFinal
<1>1. IInv /\ [Next]_vars =>
        [attempt' # attempt /\ ~ expired => cause \notin Answers]_vars
  <2> SUFFICES ASSUME IInv, Next, attempt' # attempt, ~ expired
               PROVE  cause \notin Answers
    BY DEF vars
  <2>1. BackOff
    BY DEF Next, CallStep, ExecStep, Environment, PrepareFails, StartFails, StartAgent,
           EnterSelect, KillGroup, ReapAfterKill, Classify, Decide, WatchKills, Reap,
           WaitReturns, AgentExits, StartHelper, HelperExits, Cancel, Expire
  <2> QED
    BY <2>1 DEF BackOff, IInv, Unanswered
<1> QED
  BY <1>1, InvocationInvariant, PTL DEF Spec, AnswerIsFinal, Answers
=============================================================================
