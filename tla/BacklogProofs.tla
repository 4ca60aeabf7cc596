--------------------------- MODULE BacklogProofs ---------------------------
(***************************************************************************)
(* Proofs about Backlog, for every graph of tickets, every gate and any    *)
(* number of faults: what is done is done for ever, a ticket only runs on  *)
(* durable dependencies, and "complete" is only said of a durable backlog. *)
(***************************************************************************)
EXTENDS Backlog, TLAPS

\* While an invocation runs, memory and file agree on what is done.
AgreeOnDone ==
  pc # "idle" => \A t \in Ticket : state[t] = "done" <=> saved[t] = "done"

IInv == TypeOK /\ AgreeOnDone /\ DepsDurablyDone /\ CompleteIsDurable

\* The first invocation starts inside the invariant.
LEMMA InitIInv == Init => IInv
<1> SUFFICES ASSUME Init PROVE IInv
  OBVIOUS
<1> USE GraphAssumption, InvocationAssumption
<1>1. TypeOK
  <2>1. saved \in [Ticket -> RunnerStatus] /\ state \in [Ticket -> RunnerStatus]
    BY DEF Init, RunnerStatus
  <2>2. faults \in 0..MaxFaults
    BY DEF Init
  <2>3. gate \in GateMode /\ dry \in BOOLEAN /\ canceled \in BOOLEAN
    BY DEF Init
  <2> QED
    BY <2>1, <2>2, <2>3 DEF Init, TypeOK, Ending
<1> QED
  BY <1>1 DEF Init, IInv, AgreeOnDone, DepsDurablyDone, CompleteIsDurable

\* The status of a ticket whose run has ended.
LEMMA AfterTypes ==
  ASSUME NEW o \in Result
  PROVE  /\ After(o)[1] \in RunnerStatus \ {"in-progress"}
         /\ After(o)[2] \in {"aborted", "failed", "review", "paused", "next"}
BY DEF After, RunnerStatus, Result, Completing

\* The end of a ticket keeps the invariant, whatever its run came to.
LEMMA RunEndsIInv ==
  ASSUME IInv, NEW t \in Ticket, NEW o \in Result, RunEnds(t, o)
  PROVE  IInv'
<1> USE GraphAssumption, InvocationAssumption
<1> DEFINE status == After(o)[1]
           how == After(o)[2]
<1>1. /\ status \in RunnerStatus \ {"in-progress"}
      /\ how \in {"aborted", "failed", "review", "paused", "next"}
  BY AfterTypes
<1>2. /\ Leave(t, status, how) /\ pc = "running" /\ t = current /\ last' = o
      /\ UNCHANGED command
  BY DEF RunEnds
<1> HIDE DEF status, how
<1>3. /\ state' = [state EXCEPT ![t] = status] /\ current' = 0
      /\ saved' \in {saved, state'}
      /\ faults' \in 0..MaxFaults
      /\ pc' \in {"idle", "loop"}
      /\ (pc' = "loop" => summary' = summary)
      /\ (pc' = "idle" =>
            summary' \in {"aborted", "failed", "review", "paused", "complete", "saveError"})
      /\ (status = "done" /\ pc' = "loop" => saved' = state')
  BY <1>1, <1>2
     DEF Leave, Save, SaveFails, BestEffort, Fault, Proceed, Told, Finish, IInv, TypeOK
<1>4. TypeOK'
  BY <1>1, <1>2, <1>3 DEF IInv, TypeOK, command, RunnerStatus, Ending, Ticket
<1>5. AgreeOnDone'
  BY <1>1, <1>2, <1>3 DEF IInv, TypeOK, AgreeOnDone
<1>6. DepsDurablyDone'
  BY <1>3 DEF DepsDurablyDone
<1>7. CompleteIsDurable'
  <2>1. saved[t] # "done"
    BY <1>2 DEF IInv, TypeOK, RunEnds, AgreeOnDone
  <2>2. \A u \in Ticket : Durable(u) => Durable(u)'
    BY <1>1, <1>2, <1>3, <2>1 DEF IInv, TypeOK, AgreeOnDone, Durable
  <2>3. CASE pc' = "idle" /\ summary' = "complete"
    \* Only the manual gate after the last ticket, with the ticket saved as done.
    <3>1. how = "paused" /\ doneSet(state') = Ticket
      BY <1>1, <1>2, <2>3 DEF Leave, Proceed, Told, Finish
    <3>2. status = "done"
      BY <3>1 DEF status, how, After
    <3>3. saved' = state'
      BY <1>2, <2>3, <3>2 DEF Leave, Save, Finish
    <3> QED
      BY <3>1, <3>3 DEF CompleteIsDurable, doneSet, Durable
  <2> QED
    BY <1>3, <2>2, <2>3 DEF IInv, CompleteIsDurable
<1> QED
  BY <1>4, <1>5, <1>6, <1>7 DEF IInv

\* So does the start of one: it is saved as what is in memory, nothing else.
LEMMA StartTicketIInv ==
  ASSUME IInv, NEW t \in Ticket, StartTicket(t)
  PROVE  IInv'
<1> USE GraphAssumption, InvocationAssumption
<1>1. /\ pc = "loop" /\ state' = [state EXCEPT ![t] = "in-progress"]
      /\ UNCHANGED <<command, last>>
      /\ t \in Selectable(state)
  BY DEF StartTicket, IsNextReady
<1>2. /\ state[t] # "done"
      /\ \A d \in DependsOn[t] : Author[d] = "done" \/ state[d] = "done"
  BY <1>1 DEF Selectable, doneSet
<1>3. CASE saved' = state' /\ UNCHANGED faults /\ pc' = "running" /\ current' = t
           /\ UNCHANGED summary
  <2>1. TypeOK'
    BY <1>1, <1>3 DEF IInv, TypeOK, command, RunnerStatus, Ticket
  <2>2. AgreeOnDone'
    BY <1>3 DEF AgreeOnDone
  <2>3. DepsDurablyDone'
    BY <1>1, <1>2, <1>3 DEF IInv, TypeOK, DepsDurablyDone, Durable
  <2>4. CompleteIsDurable'
    BY <1>1, <1>2, <1>3 DEF IInv, TypeOK, CompleteIsDurable, Durable, AgreeOnDone
  <2> QED
    BY <2>1, <2>2, <2>3, <2>4 DEF IInv
<1>4. CASE SaveFails /\ Finish("saveError") /\ UNCHANGED current
  <2>1. TypeOK'
    BY <1>1, <1>4 DEF IInv, TypeOK, command, RunnerStatus, SaveFails, Fault, Finish, Ending
  <2> QED
    BY <2>1, <1>4
       DEF IInv, AgreeOnDone, DepsDurablyDone, CompleteIsDurable, SaveFails, Finish
<1> QED
  BY <1>3, <1>4 DEF StartTicket, Save

\* Every step keeps the invariant.
LEMMA NextIInv == IInv /\ [Next]_vars => IInv'
<1> SUFFICES ASSUME IInv, [Next]_vars PROVE IInv'
  OBVIOUS
<1> USE GraphAssumption, InvocationAssumption
<1>1. CASE Invoke
  <2>1. TypeOK'
    BY <1>1 DEF Invoke, LoadState, IInv, TypeOK, RunnerStatus, GateMode, Ending
  <2>2. AgreeOnDone'
    BY <1>1 DEF Invoke, LoadState, IInv, TypeOK, AgreeOnDone
  <2> QED
    BY <1>1, <2>1, <2>2 DEF Invoke, IInv, DepsDurablyDone, CompleteIsDurable
<1>2. CASE Interrupt
  <2>1. TypeOK'
    BY <1>2 DEF Interrupt, Fault, IInv, TypeOK
  <2> QED
    BY <1>2, <2>1
       DEF Interrupt, IInv, AgreeOnDone, DepsDurablyDone, CompleteIsDurable, Durable
<1>3. CASE Crash
  <2>1. TypeOK'
    BY <1>3 DEF Crash, Fault, Finish, IInv, TypeOK, Ending, command
  <2> QED
    BY <1>3, <2>1 DEF Crash, Finish, IInv, AgreeOnDone, DepsDurablyDone, CompleteIsDurable
<1>4. CASE Aborts
  <2>1. TypeOK'
    BY <1>4 DEF Aborts, Finish, IInv, TypeOK, Ending, command
  <2> QED
    BY <1>4, <2>1 DEF Aborts, Finish, IInv, AgreeOnDone, DepsDurablyDone, CompleteIsDurable
<1>5. CASE NothingReady
  <2>1. TypeOK'
    BY <1>5 DEF NothingReady, Finish, IInv, TypeOK, Ending, command
  <2>2. CompleteIsDurable'
    BY <1>5 DEF NothingReady, Finish, IInv, CompleteIsDurable, Durable, AgreeOnDone, doneSet
  <2> QED
    BY <1>5, <2>1, <2>2 DEF NothingReady, Finish, IInv, AgreeOnDone, DepsDurablyDone
<1>6. ASSUME NEW t \in Ticket, StartTicket(t) PROVE IInv'
  BY <1>6, StartTicketIInv
<1>7. ASSUME NEW t \in Ticket, NEW o \in Result, RunEnds(t, o) PROVE IInv'
  BY <1>7, RunEndsIInv
<1>8. CASE UNCHANGED vars
  BY <1>8 DEF vars, command, IInv, TypeOK, AgreeOnDone, DepsDurablyDone, CompleteIsDurable, Durable
<1> QED
  BY <1>1, <1>2, <1>3, <1>4, <1>5, <1>6, <1>7, <1>8 DEF Next, RunStep

\* The invariant of every sequence of invocations.
THEOREM BacklogInvariant == Spec => []IInv
BY InitIInv, NextIInv, PTL DEF Spec

\* Types, and that a ticket runs exactly while Run waits for it.
THEOREM TypeCorrect == Spec => []TypeOK
<1>1. IInv => TypeOK
  BY DEF IInv
<1> QED
  BY <1>1, BacklogInvariant, PTL

\* A ticket only runs on top of tickets that are durably done.
THEOREM DependenciesDurable == Spec => []DepsDurablyDone
<1>1. IInv => DepsDurablyDone
  BY DEF IInv
<1> QED
  BY <1>1, BacklogInvariant, PTL

\* "Backlog complete" is only said of a durable backlog.
THEOREM CompletionDurable == Spec => []CompleteIsDurable
<1>1. IInv => CompleteIsDurable
  BY DEF IInv
<1> QED
  BY <1>1, BacklogInvariant, PTL

\* Done is for ever, and a done ticket is not run again.
THEOREM DoneFinal == Spec => DoneIsFinal
<1> DEFINE Kept(t) == saved[t] = "done" => saved'[t] = "done" /\ current' # t
<1>1. IInv /\ [Next]_vars => [\A t \in Ticket : Kept(t)]_vars
  <2> SUFFICES ASSUME IInv, Next, NEW u \in Ticket, saved[u] = "done"
               PROVE  saved'[u] = "done" /\ current' # u
    OBVIOUS
  <2>0. current # u
    BY GraphAssumption DEF IInv, TypeOK, Ticket
  <2>1. CASE UNCHANGED <<saved, current>>
    BY <2>0, <2>1
  <2>2. CASE Crash
    BY <2>2, GraphAssumption DEF Crash, Ticket
  <2>3. ASSUME NEW t \in Ticket, StartTicket(t)
        PROVE  saved'[u] = "done" /\ current' # u
    <3>1. state[u] = "done" /\ t # u
      BY <2>3 DEF StartTicket, IsNextReady, Selectable, doneSet, IInv, AgreeOnDone
    <3> QED
      BY <2>0, <2>3, <3>1 DEF StartTicket, Save, SaveFails, IInv, TypeOK
  <2>4. ASSUME NEW t \in Ticket, NEW o \in Result, RunEnds(t, o)
        PROVE  saved'[u] = "done" /\ current' # u
    <3>1. /\ pc = "running" /\ t = current
          /\ Leave(t, After(o)[1], After(o)[2])
      BY <2>4 DEF RunEnds
    <3>2. state[u] = "done" /\ t # u /\ current' = 0
      BY <2>0, <3>1 DEF Leave, IInv, AgreeOnDone
    <3>3. saved' = saved \/ saved' = [state EXCEPT ![t] = After(o)[1]]
      BY <3>1 DEF Leave, Save, SaveFails, BestEffort
    <3> QED
      BY <3>2, <3>3, GraphAssumption DEF IInv, TypeOK, Ticket
  <2> QED
    BY <2>1, <2>2, <2>3, <2>4 DEF Next, RunStep, Invoke, Interrupt, Aborts, NothingReady
<1> QED
  BY <1>1, BacklogInvariant, PTL DEF Spec, DoneIsFinal

\* Between two tickets the outcome of the last one is known, and lets Run go on.
GateOpen ==
  pc = "loop" => \/ last = "none"
                 \/ last = "clean" /\ gate # "manual"
                 \/ last = "findings" /\ gate = "auto"

\* An invocation goes on to another ticket only as far as its gate lets it,
\* cancelled or not, whichever saves fail.
THEOREM GatesHold == Spec => GateHolds
<1>1. Init => GateOpen
  BY DEF Init, GateOpen
<1>2. IInv /\ GateOpen /\ [Next]_vars => GateOpen'
  <2> SUFFICES ASSUME IInv, GateOpen, [Next]_vars PROVE GateOpen'
    OBVIOUS
  <2>1. CASE Invoke \/ Crash \/ Aborts \/ NothingReady
    BY <2>1 DEF Invoke, Crash, Aborts, NothingReady, Finish, GateOpen
  <2>2. CASE Interrupt \/ UNCHANGED vars
    BY <2>2 DEF Interrupt, vars, command, GateOpen
  <2>3. ASSUME NEW t \in Ticket, StartTicket(t) PROVE GateOpen'
    BY <2>3 DEF StartTicket, Save, SaveFails, Finish, GateOpen
  <2>4. ASSUME NEW t \in Ticket, NEW o \in Result, RunEnds(t, o) PROVE GateOpen'
    <3>1. /\ Leave(t, After(o)[1], After(o)[2])
          /\ last' = o /\ UNCHANGED command
      BY <2>4 DEF RunEnds
    <3>2. pc' = "loop" => After(o)[2] = "next"
      BY <3>1 DEF Leave, Proceed, Finish
    <3>3. After(o)[2] = "next" =>
            o \in Completing /\ gate # "manual" /\ (o = "findings" => gate = "auto")
      BY DEF After
    <3> QED
      BY <3>1, <3>2, <3>3 DEF GateOpen, Completing, command
  <2> QED
    BY <2>1, <2>2, <2>3, <2>4 DEF Next, RunStep
<1>3. IInv /\ GateOpen /\ [Next]_vars =>
        [pc = "loop" /\ pc' = "running" =>
           \/ last = "none"
           \/ last = "clean" /\ gate # "manual"
           \/ last = "findings" /\ gate = "auto"]_vars
  BY DEF GateOpen
<1> QED
  BY <1>1, <1>2, <1>3, BacklogInvariant, PTL DEF Spec, GateHolds
=============================================================================
