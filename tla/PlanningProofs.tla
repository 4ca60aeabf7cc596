--------------------------- MODULE PlanningProofs ---------------------------
(***************************************************************************)
(* Proofs about Planning, for every answer an agent may give, every tree   *)
(* and any number of crashes, cancellations and failing calls.             *)
(*                                                                         *)
(* First, a run that holds subtasks has the documents these were parsed    *)
(* from; how an answer is cut up and a list is read does not matter there. *)
(* Then what the recursive functions of the plan compute: the three-colour *)
(* search finds every cycle and nothing else, the matcher matches what a   *)
(* pattern denotes, cleaning a path leaves no empty segment and no `.'.    *)
(* From that follow the properties of validation, overlap and declaration. *)
(*                                                                         *)
(* An induction is the choice of a least number for which a statement      *)
(* fails (LeastNumber); that a recursive definition has a solution is the  *)
(* fixed point of a monotone function on sets of arguments (FixedPoint).   *)
(***************************************************************************)
EXTENDS Planning, FiniteSetTheorems, SequenceTheorems, TLAPS

-----------------------------------------------------------------------------
(* The inductive invariant.                                                *)

\* The record has a plan.
Planned(run) == run.subtasks # <<>>

\* What an answer is cut into, and what is on disk: a value for each document.
IsDocs(d) == DOMAIN d = Doc /\ d = [doc \in Doc |-> d[doc]]

\* Types, as far as the argument goes.
PlanTyped ==
  /\ at \in {"idle", "mark", "summarize", "invoke", "parse", "write", "persist", "classify"}
  /\ viaPlan \in BOOLEAN /\ written \in Nat
  /\ IsDocs(docs) /\ IsDocs(bundle)
  /\ DOMAIN mem = {"status", "subtasks"} /\ DOMAIN disk = {"status", "subtasks"}

\* What has been written of this answer is on disk; all of it once it is accepted.
WrittenInv ==
  /\ at = "write" =>
       \A i \in DOMAIN requiredDocs : i <= written => docs[requiredDocs[i]] = bundle[requiredDocs[i]]
  /\ at = "persist" => docs = bundle

\* A record with a plan was parsed from what is on disk, and the planner does not
\* take it up again: it is not `created' or `planning'.
RecordInv(run) ==
  Planned(run) =>
    /\ docs = bundle /\ run.subtasks = ParseSubtasks(docs["subtasks"])
    /\ run.status \in {"planned", "aborted", "failed"}

\* The process whose record has a plan is at its end.
PInv ==
  /\ PlanTyped /\ WrittenInv /\ RecordInv(mem) /\ RecordInv(disk)
  /\ Planned(mem) => at \in {"classify", "idle"}
  /\ Planned(disk) => at = "idle"

-----------------------------------------------------------------------------
(* The steps of the planner.                                               *)

\* The documents, one by one.
LEMMA FourDocs ==
  /\ DOMAIN requiredDocs = 1..4 /\ Len(requiredDocs) = 4
  /\ Doc = {"plan", "context", "manualTesting", "subtasks"}
  /\ \A i \in 1..4 : requiredDocs[i] \in Doc
  /\ \A doc \in Doc : \E i \in 1..4 : requiredDocs[i] = doc
  /\ \A i, j \in 1..4 : requiredDocs[i] = requiredDocs[j] => i = j
<1>1. DOMAIN requiredDocs = 1..4 /\ Len(requiredDocs) = 4
  BY DEF requiredDocs
<1>2. /\ requiredDocs[1] = "plan" /\ requiredDocs[2] = "context"
      /\ requiredDocs[3] = "manualTesting" /\ requiredDocs[4] = "subtasks"
  BY DEF requiredDocs
<1>3. Doc = {"plan", "context", "manualTesting", "subtasks"}
  BY <1>1, <1>2 DEF Doc
<1> QED
  BY <1>1, <1>2, <1>3

\* Documents that agree one by one are the same.
LEMMA DocsAgree ==
  ASSUME NEW d, NEW e, IsDocs(d), IsDocs(e), \A doc \in Doc : d[doc] = e[doc]
  PROVE  d = e
  BY DEF IsDocs

\* Writing one document leaves a value for each.
LEMMA DocWritten ==
  ASSUME NEW d, IsDocs(d), NEW doc \in Doc, NEW body
  PROVE  /\ IsDocs([d EXCEPT ![doc] = body])
         /\ \A e \in Doc : [d EXCEPT ![doc] = body][e] = IF e = doc THEN body ELSE d[e]
  BY DEF IsDocs

\* The planner marks the run, collects its summary and asks the agent.
LEMMA AskingKeepsPInv ==
  ASSUME PInv, MarkPlanning \/ Summarize \/ AgentAnswers \/ InvocationFails
  PROVE  PInv'
<1>1. /\ at \in {"mark", "summarize", "invoke"} /\ at' \in {"summarize", "invoke", "parse", "idle", "classify"}
      /\ UNCHANGED <<viaPlan, bundle, written, docs>>
      /\ mem' \in {mem, [mem EXCEPT !.status = "planning"]}
      /\ disk' \in {disk, mem'}
  BY DEF PInv, PlanTyped, MarkPlanning, Summarize, AgentAnswers, InvocationFails, Save, Goto, Err,
         process
<1>2. ~ Planned(mem) /\ ~ Planned(disk)
  BY <1>1 DEF PInv
<1>3. ~ Planned(mem') /\ ~ Planned(disk') /\ DOMAIN mem' = DOMAIN mem /\ DOMAIN disk' = DOMAIN disk
  BY <1>1, <1>2 DEF PInv, PlanTyped, Planned
<1> QED
  BY <1>1, <1>3 DEF PInv, PlanTyped, WrittenInv, RecordInv

\* The answer is cut up: nothing is written yet.
LEMMA ParseKeepsPInv ==
  ASSUME PInv, Parse
  PROVE  PInv'
<1>1. /\ at = "parse" /\ at' \in {"write", "invoke", "idle", "classify"}
      /\ at' = "write" => written' = 0
      /\ written' \in {0, written}
      /\ bundle' = IF dry THEN dryRunDocs ELSE parseBundle(answer)
      /\ UNCHANGED <<viaPlan, docs, mem, disk>>
  BY DEF Parse, Rejected, Err, Goto
<1>2. IsDocs(bundle')
  BY <1>1 DEF IsDocs, dryRunDocs, parseBundle
<1>3. ~ Planned(mem) /\ ~ Planned(disk)
  BY <1>1 DEF PInv
<1> QED
  BY <1>1, <1>2, <1>3, FourDocs DEF PInv, PlanTyped, WrittenInv, RecordInv

\* A document is written, or the answer rejected for the failing write.
LEMMA WriteDocKeepsPInv ==
  ASSUME PInv, WriteDoc
  PROVE  PInv'
<1>1. PICK doc \in Doc : doc = requiredDocs[written + 1] /\ written + 1 \in 1..4
  BY FourDocs DEF PInv, PlanTyped, WriteDoc
<1>2. /\ at = "write" /\ UNCHANGED <<viaPlan, bundle, mem, disk>>
      /\ \/ docs' = [docs EXCEPT ![doc] = bundle[doc]] /\ written' = written + 1 /\ at' = at
         \/ /\ at' \in {"invoke", "idle", "classify"} /\ written' = written
            /\ docs' \in {docs, [docs EXCEPT ![doc] = <<>>]}
  BY <1>1 DEF WriteDoc, Rejected, Err, Goto
<1>3. ~ Planned(mem) /\ ~ Planned(disk)
  BY <1>2 DEF PInv
<1>4. written \in Nat /\ IsDocs(docs)
  BY DEF PInv, PlanTyped
<1>5. IsDocs(docs')
  <2>1. \A body : IsDocs([docs EXCEPT ![doc] = body])
    BY <1>4, DocWritten
  <2> QED
    BY <1>2, <1>4, <2>1
<1>6. WrittenInv'
  <2>1. CASE at' = "write"
    <3>1. docs' = [docs EXCEPT ![doc] = bundle[doc]] /\ written' = written + 1
      BY <1>2, <2>1
    <3>2. ASSUME NEW i \in 1..4, i <= written + 1
          PROVE  docs'[requiredDocs[i]] = bundle[requiredDocs[i]]
      <4>1. CASE i = written + 1
        BY <1>1, <1>4, <3>1, <4>1, DocWritten
      <4>2. CASE i # written + 1
        <5>1. i <= written /\ requiredDocs[i] \in Doc \ {doc}
          BY <1>1, <1>4, <3>2, <4>2, FourDocs
        <5>2. docs[requiredDocs[i]] = bundle[requiredDocs[i]]
          BY <1>2, <5>1, FourDocs DEF PInv, WrittenInv
        <5> QED
          BY <1>4, <3>1, <5>1, <5>2, DocWritten
      <4> QED
        BY <4>1, <4>2
    <3> QED
      BY <1>2, <2>1, <3>1, <3>2, FourDocs DEF WrittenInv
  <2>2. CASE at' # "write"
    BY <1>2, <2>2 DEF WrittenInv
  <2> QED
    BY <2>1, <2>2
<1> QED
  BY <1>2, <1>3, <1>4, <1>5, <1>6 DEF PInv, PlanTyped, RecordInv

\* All four are written: the answer is accepted or rejected.
LEMMA ValidateKeepsPInv ==
  ASSUME PInv, Validate
  PROVE  PInv'
<1>1. /\ at = "write" /\ written = 4 /\ at' \in {"persist", "invoke", "idle", "classify"}
      /\ UNCHANGED <<viaPlan, bundle, written, mem, disk, docs>>
  BY FourDocs DEF Validate, Rejected, Err, Goto
<1>2. ~ Planned(mem) /\ ~ Planned(disk)
  BY <1>1 DEF PInv
<1>3. docs = bundle
  <2>1. \A i \in 1..4 : docs[requiredDocs[i]] = bundle[requiredDocs[i]]
    BY <1>1, FourDocs DEF PInv, WrittenInv
  <2> QED
    BY <2>1, FourDocs, DocsAgree DEF PInv, PlanTyped
<1> QED
  BY <1>1, <1>2, <1>3 DEF PInv, PlanTyped, WrittenInv, RecordInv

\* The plan is saved, or the record that holds it is left in memory.
LEMMA PersistPlanKeepsPInv ==
  ASSUME PInv, PersistPlan
  PROVE  PInv'
<1>1. /\ at = "persist" /\ at' \in {"idle", "classify"}
      /\ UNCHANGED <<viaPlan, bundle, written, docs>>
      /\ mem' = [status |-> "planned", subtasks |-> ParseSubtasks(bundle["subtasks"])]
      /\ (disk' = mem' /\ at' = "idle") \/ disk' = disk
  BY DEF PersistPlan, Save, Err, Goto, process
<1>2. docs = bundle /\ ~ Planned(disk)
  BY <1>1 DEF PInv, WrittenInv
<1>3. RecordInv(mem)'
  BY <1>1, <1>2 DEF RecordInv
<1>4. RecordInv(disk)' /\ (Planned(disk)' => at' = "idle")
  BY <1>1, <1>2, <1>3 DEF RecordInv, Planned
<1>5. DOMAIN mem' = {"status", "subtasks"} /\ DOMAIN disk' = {"status", "subtasks"}
  BY <1>1 DEF PInv, PlanTyped
<1> QED
  BY <1>1, <1>3, <1>4, <1>5 DEF PInv, PlanTyped, WrittenInv

-----------------------------------------------------------------------------
(* The steps around it.                                                    *)

\* A process takes the run up: it has no plan.
LEMMA StartKeepsPInv ==
  ASSUME PInv, Start
  PROVE  PInv'
<1>1. /\ at = "idle" /\ at' = "mark" /\ viaPlan' \in BOOLEAN /\ written' = 0 /\ bundle' = NoDocs
      /\ mem' = disk /\ UNCHANGED <<disk, docs>>
      /\ disk.status \in {"created", "planning"} \/ disk.subtasks = <<>>
  BY DEF Start, Goto
<1>2. ~ Planned(disk)
  BY <1>1 DEF PInv, RecordInv, Planned
<1>3. IsDocs(bundle')
  BY <1>1 DEF IsDocs, NoDocs
<1> QED
  BY <1>1, <1>2, <1>3 DEF PInv, PlanTyped, WrittenInv, RecordInv, Planned

\* The error is classified, the record saved with whatever it holds.
LEMMA ClassifyKeepsPInv ==
  ASSUME PInv, Classify
  PROVE  PInv'
<1>1. /\ at = "classify" /\ at' = "idle" /\ UNCHANGED <<viaPlan, bundle, written, docs>>
      /\ mem' = [mem EXCEPT !.status = IF canceled THEN "aborted" ELSE "failed"]
      /\ disk' \in {mem', disk}
  BY DEF Classify, Goto, process
<1>2. /\ DOMAIN mem' = {"status", "subtasks"} /\ mem'.subtasks = mem.subtasks
      /\ mem'.status \in {"aborted", "failed"}
  BY <1>1 DEF PInv, PlanTyped
<1>3. RecordInv(mem)'
  BY <1>1, <1>2 DEF PInv, RecordInv, Planned
<1>4. RecordInv(disk)'
  BY <1>1, <1>3 DEF PInv, RecordInv, Planned
<1>5. DOMAIN disk' = {"status", "subtasks"}
  BY <1>1, <1>2 DEF PInv, PlanTyped
<1> QED
  BY <1>1, <1>2, <1>3, <1>4, <1>5 DEF PInv, PlanTyped, WrittenInv

\* A cancellation, a crash, a step of nobody.
LEMMA AsideKeepsPInv ==
  ASSUME PInv, Cancel \/ Crash \/ UNCHANGED vars
  PROVE  PInv'
<1>1. /\ UNCHANGED <<viaPlan, bundle, written, mem, disk, docs>>
      /\ at' = at \/ at' = "idle"
  BY DEF Cancel, Crash, Goto, process, vars
<1> QED
  BY <1>1 DEF PInv, PlanTyped, WrittenInv, RecordInv, Planned

-----------------------------------------------------------------------------
(* The theorems.                                                           *)

\* The invariant.
THEOREM PlanInductive == Spec => []PInv
<1>1. Init => PInv
  <2> SUFFICES ASSUME Init PROVE PInv
    OBVIOUS
  <2>1. IsDocs(NoDocs)
    BY DEF NoDocs, IsDocs
  <2>2. PlanTyped
    BY <2>1 DEF Init, PlanTyped
  <2> QED
    BY <2>2 DEF Init, PInv, WrittenInv, RecordInv, Planned
<1>2. PInv /\ [Next]_vars => PInv'
  BY AskingKeepsPInv, ParseKeepsPInv, WriteDocKeepsPInv, ValidateKeepsPInv, PersistPlanKeepsPInv,
     StartKeepsPInv, ClassifyKeepsPInv, AsideKeepsPInv DEF Next, PlanStep
<1> QED
  BY <1>1, <1>2, PTL DEF Spec

\* A run that holds subtasks, whether planned, failed or aborted, has on disk the
\* four documents of the one answer these were parsed from (planning.go), whatever
\* the agent answered and wherever the phase was cut short.
THEOREM DocsAreThePlans == Spec => []DocsMatchPlan
<1>1. PInv => DocsMatchPlan
  BY DEF PInv, RecordInv, Planned, DocsMatchPlan
<1> QED
  BY <1>1, PlanInductive, PTL

-----------------------------------------------------------------------------
(* What recursion needs: least elements, and fixed points.                 *)

\* A set of numbers has a least one.
LEMMA LeastNumber ==
  ASSUME NEW T \in SUBSET Nat, T # {}
  PROVE  \E n \in T : \A m \in T : n <= m
<1> DEFINE R     == StrictSubsetOrdering(Nat)
           Up(n) == 0 .. n
           Ups   == {Up(n) : n \in T}
<1>1. IsWellFoundedOn(R, FiniteSubsetsOf(Nat))
  BY FS_StrictSubsetOrderingWellFounded
<1>2. Ups \subseteq FiniteSubsetsOf(Nat) /\ Ups # {}
  <2>1. \A n \in T : IsFiniteSet(Up(n))
    BY FS_Interval
  <2>2. \A n \in T : Up(n) \in SUBSET Nat
    OBVIOUS
  <2> HIDE DEF Up
  <2> QED
    BY <2>1, <2>2 DEF FiniteSubsetsOf
<1>3. \E s \in Ups : \A t \in Ups : <<t, s>> \notin R
  <2> HIDE DEF R, Ups
  <2> QED
    BY <1>1, <1>2, WFMin
<1>4. PICK n \in T : \A m \in T : <<Up(m), Up(n)>> \notin R
  BY <1>3
<1>5. ASSUME NEW m \in T, m < n PROVE FALSE
  <2>1. Up(m) \subseteq Up(n) /\ Up(m) # Up(n) /\ Up(m) \in SUBSET Nat /\ Up(n) \in SUBSET Nat
    BY <1>5
  <2>2. <<Up(m), Up(n)>> \in R
    BY <2>1 DEF StrictSubsetOrdering
  <2> QED
    BY <1>4, <2>2
<1> QED
  BY <1>4, <1>5

\* A monotone function on sets has a fixed point.
LEMMA FixedPoint ==
  ASSUME NEW D, NEW G \in [SUBSET D -> SUBSET D],
         \A U, V \in SUBSET D : U \subseteq V => G[U] \subseteq G[V]
  PROVE  \E L \in SUBSET D : G[L] = L
<1> DEFINE L == {x \in D : \A U \in SUBSET D : G[U] \subseteq U => x \in U}
<1>1. G[L] \subseteq L
  <2>1. ASSUME NEW U \in SUBSET D, G[U] \subseteq U PROVE G[L] \subseteq U
    BY <2>1
  <2> QED
    BY <2>1
<1>2. L \subseteq G[L]
  BY <1>1
<1>3. L \in SUBSET D
  OBVIOUS
<1> HIDE DEF L
<1> QED
  BY <1>1, <1>2, <1>3

-----------------------------------------------------------------------------
(* detectCycle, as an equation.                                            *)

Ids(list) == {e.id : e \in Range(list)}
DepsOf(list, s) == (CHOOSE e \in Range(list) : e.id = s).deps
Calls(seq) == [i \in DOMAIN seq |-> <<"visit", seq[i]>>]

Stacks(list) == Seq({"visit", "leave"} \X Ids(list))
Colorings(list) == [Ids(list) -> {"white", "gray", "black"}]


States(list) == Stacks(list) \X Colorings(list)

SearchStep(list, found, x) ==
  LET stack == x[1]
      color == x[2]
      s     == Head(stack)[2]
      rest  == Tail(stack)
  IN  /\ stack # <<>>
      /\ \/ /\ Head(stack)[1] = "leave"
            /\ found[<<rest, [color EXCEPT ![s] = "black"]>>]
         \/ /\ Head(stack)[1] = "visit"
            /\ \/ color[s] = "gray"
               \/ color[s] = "black" /\ found[<<rest, color>>]
               \/ /\ color[s] = "white"
                  /\ found[<<Calls(DepsOf(list, s)) \o <<<<"leave", s>>>> \o rest,
                             [color EXCEPT ![s] = "gray"]>>]

Search(list) ==
  CHOOSE found : found = [x \in States(list) |-> SearchStep(list, found, x)]

\* The search starts from every subtask, in the order of the list.
LEMMA DetectCycleIsSearch ==
  ASSUME NEW list
  PROVE  detectCycle(list)
           = Search(list)[<<Calls([i \in DOMAIN list |-> list[i].id]),
                            [s \in Ids(list) |-> "white"]>>]
BY SMT DEF detectCycle, Search, SearchStep, Ids, DepsOf, Calls, States, Stacks, Colorings

\* Every subtask's dependencies are a sequence of subtasks.
Closed(list) == \A s \in Ids(list) : DepsOf(list, s) \in Seq(Ids(list))

\* What the search goes on with.
LEMMA SearchGoesOn ==
  ASSUME NEW list, Closed(list), NEW stack \in Stacks(list), NEW color \in Colorings(list),
         stack # <<>>
  PROVE  LET s == Head(stack)[2]
         IN  /\ Head(stack)[1] \in {"visit", "leave"} /\ s \in Ids(list)
             /\ Tail(stack) \in Stacks(list)
             /\ [color EXCEPT ![s] = "black"] \in Colorings(list)
             /\ [color EXCEPT ![s] = "gray"] \in Colorings(list)
             /\ Calls(DepsOf(list, s)) \o <<<<"leave", s>>>> \o Tail(stack) \in Stacks(list)
<1> DEFINE Fr == {"visit", "leave"} \X Ids(list)
           s  == Head(stack)[2]
<1>1. Head(stack) \in Fr /\ Tail(stack) \in Seq(Fr)
  BY DEF Stacks
<1>2. s \in Ids(list) /\ Head(stack)[1] \in {"visit", "leave"}
  BY <1>1
<1>3. <<<<"leave", s>>>> \in Seq(Fr)
  BY <1>2
<1>4. Calls(DepsOf(list, s)) \in Seq(Fr)
  <2>1. DepsOf(list, s) \in Seq(Ids(list))
    BY <1>2 DEF Closed
  <2>2. \A i \in DOMAIN DepsOf(list, s) : <<"visit", DepsOf(list, s)[i]>> \in Fr
    BY <2>1
  <2>3. DOMAIN DepsOf(list, s) = 1 .. Len(DepsOf(list, s)) /\ Len(DepsOf(list, s)) \in Nat
    BY <2>1
  <2> HIDE DEF Fr
  <2> QED
    BY <2>2, <2>3 DEF Calls
<1>5. Calls(DepsOf(list, s)) \o <<<<"leave", s>>>> \o Tail(stack) \in Seq(Fr)
  <2> HIDE DEF Fr, s
  <2> QED
    BY <1>1, <1>3, <1>4
<1> QED
  BY <1>1, <1>2, <1>5 DEF Stacks, Colorings



\* The same step, of a set of the states from which a cycle is found.
FindsIn(list, U, x) ==
  LET stack == x[1]
      color == x[2]
      s     == Head(stack)[2]
      rest  == Tail(stack)
  IN  /\ stack # <<>>
      /\ \/ /\ Head(stack)[1] = "leave"
            /\ <<rest, [color EXCEPT ![s] = "black"]>> \in U
         \/ /\ Head(stack)[1] = "visit"
            /\ \/ color[s] = "gray"
               \/ color[s] = "black" /\ <<rest, color>> \in U
               \/ /\ color[s] = "white"
                  /\ <<Calls(DepsOf(list, s)) \o <<<<"leave", s>>>> \o rest,
                       [color EXCEPT ![s] = "gray"]>> \in U

\* The recursion is well defined: there is a set of the states from which a cycle is
\* found.
LEMMA SearchEquation ==
  ASSUME NEW list, Closed(list)
  PROVE  \E L \in SUBSET States(list) :
           /\ \A x \in States(list) : x \in L <=> FindsIn(list, L, x)
           /\ [x \in States(list) |-> x \in L]
                = [x \in States(list) |-> SearchStep(list, [z \in States(list) |-> z \in L], x)]
<1> DEFINE D    == States(list)
           F(U) == [x \in D |-> x \in U]
           P(U, x) == FindsIn(list, U, x)
           G    == [U \in SUBSET D |-> {x \in D : P(U, x)}]
<1>1. ASSUME NEW U \in SUBSET D, NEW x \in D
      PROVE  SearchStep(list, F(U), x) = FindsIn(list, U, x)
  <2> DEFINE s    == Head(x[1])[2]
             next == Calls(DepsOf(list, s)) \o <<<<"leave", s>>>> \o Tail(x[1])
             y1   == <<Tail(x[1]), [x[2] EXCEPT ![s] = "black"]>>
             y2   == <<Tail(x[1]), x[2]>>
             y3   == <<next, [x[2] EXCEPT ![s] = "gray"]>>
  <2>1. CASE x[1] # <<>>
    <3>1. x[1] \in Stacks(list) /\ x[2] \in Colorings(list)
      BY DEF States
    <3>2. y1 \in D /\ y2 \in D /\ y3 \in D
      BY <2>1, <3>1, SearchGoesOn DEF States
    <3>3. \A y \in D : F(U)[y] = (y \in U)
      OBVIOUS
    <3> HIDE DEF F, D
    <3>4. F(U)[y1] = (y1 \in U) /\ F(U)[y2] = (y2 \in U) /\ F(U)[y3] = (y3 \in U)
      BY <3>2, <3>3
    <3> QED
      BY <3>4, Zenon DEF SearchStep, FindsIn
  <2>2. CASE x[1] = <<>>
    BY <2>2 DEF SearchStep, FindsIn
  <2> QED
    BY <2>1, <2>2
<1>2. \E L \in SUBSET D : G[L] = L
  <2>1. G \in [SUBSET D -> SUBSET D]
    OBVIOUS
  <2>2. ASSUME NEW U \in SUBSET D, NEW V \in SUBSET D, U \subseteq V, NEW x, P(U, x)
        PROVE  P(V, x)
    BY <2>2 DEF FindsIn
  <2>3. \A U, V \in SUBSET D : U \subseteq V => G[U] \subseteq G[V]
    <3> HIDE DEF P, D
    <3> QED
      BY <2>2
  <2> HIDE DEF G, D
  <2> QED
    BY <2>1, <2>3, FixedPoint
<1>3. PICK L \in SUBSET D : G[L] = L
  BY <1>2
<1>4. \A x \in D : x \in L <=> P(L, x)
  <2> HIDE DEF P, D
  <2> QED
    BY <1>3
<1>5. F(L) = [x \in D |-> SearchStep(list, F(L), x)]
  <2>1. \A x \in D : SearchStep(list, F(L), x) = (x \in L)
    <3> TAKE x \in D
    <3>1. SearchStep(list, F(L), x) = FindsIn(list, L, x)
      BY <1>1
    <3>2. FindsIn(list, L, x) \in BOOLEAN
      BY DEF FindsIn
    <3>3. FindsIn(list, L, x) <=> x \in L
      BY <1>4
    <3> HIDE DEF D, F
    <3> QED
      BY <3>1, <3>2, <3>3
  <2> QED
    BY <2>1, Zenon
<1> QED
  BY <1>4, <1>5

\* The search, as an equation.
LEMMA SearchIsSet ==
  ASSUME NEW list, Closed(list)
  PROVE  \A x \in States(list) : Search(list)[x] = SearchStep(list, Search(list), x)
<1> DEFINE Q(f) == f = [x \in States(list) |-> SearchStep(list, f, x)]
<1>1. PICK L : Q([x \in States(list) |-> x \in L])
  BY SearchEquation
<1>2. Search(list) = CHOOSE f : Q(f)
  BY DEF Search
<1>3. Q(Search(list))
  <2> HIDE DEF Q
  <2> QED
    BY <1>1, <1>2, Zenon
<1> QED
  BY <1>3

-----------------------------------------------------------------------------
(* What the search has established at each of its states.                  *)

Waits(list, s) == Range(DepsOf(list, s))

\* Some subtasks wait on each other.
Cyclic(list) ==
  \E S \in SUBSET Ids(list) : S # {} /\ \A s \in S : Waits(list, s) \cap S # {}

Leaves(stack, k) == stack[k][1] = "leave"

Entered(list, stack, color) ==
  /\ \A s \in Ids(list) :
       color[s] = "gray" <=> \E k \in DOMAIN stack : Leaves(stack, k) /\ stack[k][2] = s
  /\ \A k, m \in DOMAIN stack :
       Leaves(stack, k) /\ Leaves(stack, m) /\ stack[k][2] = stack[m][2] => k = m

Finished(list, color) ==
  /\ \A s \in Ids(list) : color[s] = "black" => \A d \in Waits(list, s) : color[d] = "black"
  /\ \A S \in SUBSET Ids(list) :
       /\ S # {}
       /\ \A s \in S : color[s] = "black"
       => \E s \in S : Waits(list, s) \cap S = {}

Awaited(list, stack, color) ==
  \A k \in DOMAIN stack : Leaves(stack, k) =>
    \A d \in Waits(list, stack[k][2]) :
      color[d] = "black" \/ \E m \in DOMAIN stack : m < k /\ stack[m][2] = d

Covered(list, stack, color) ==
  \A s \in Ids(list) : color[s] = "black" \/ \E k \in DOMAIN stack : stack[k][2] = s

Path(list, stack) ==
  \A k, m \in DOMAIN stack : k < m /\ Leaves(stack, m) =>
    \/ \E j \in DOMAIN stack : k < j /\ j < m /\ Leaves(stack, j)
    \/ stack[k][2] \in Waits(list, stack[m][2])

SearchInv(list, x) ==
  /\ Entered(list, x[1], x[2]) /\ Finished(list, x[2]) /\ Awaited(list, x[1], x[2])
  /\ Covered(list, x[1], x[2]) /\ Path(list, x[1])

\* Dependencies are ids.
LEMMA WaitsAreIds ==
  ASSUME NEW list, Closed(list), NEW s \in Ids(list)
  PROVE  Waits(list, s) \subseteq Ids(list)
<1>1. DepsOf(list, s) \in Seq(Ids(list))
  BY DEF Closed
<1> QED
  BY <1>1 DEF Waits, Range

\* The entries of a stack.
LEMMA StackType ==
  ASSUME NEW list, NEW stack \in Stacks(list)
  PROVE  /\ Len(stack) \in Nat /\ DOMAIN stack = 1 .. Len(stack)
         /\ \A k \in 1 .. Len(stack) : stack[k] = <<stack[k][1], stack[k][2]>>
                                       /\ stack[k][1] \in {"visit", "leave"}
                                       /\ stack[k][2] \in Ids(list)
<1>1. \A k \in 1 .. Len(stack) : stack[k] \in {"visit", "leave"} \X Ids(list)
  BY DEF Stacks
<1> QED
  BY <1>1 DEF Stacks

\* A return takes the first entry off.
LEMMA Popped ==
  ASSUME NEW list, NEW stack \in Stacks(list), stack # <<>>
  PROVE  /\ Len(Tail(stack)) = Len(stack) - 1 /\ Len(stack) > 0
         /\ \A k \in 1 .. Len(stack) - 1 : Tail(stack)[k] = stack[k + 1]
         /\ Head(stack) = stack[1]
BY DEF Stacks

\* The dependencies d of a subtask s, and its return, in place of the first entry.
Pushes(new, d, s, stack) ==
  /\ Len(d) \in Nat /\ DOMAIN d = 1 .. Len(d)
  /\ Len(new) = Len(d) + Len(stack)
  /\ \A k \in 1 .. Len(d) : new[k] = <<"visit", d[k]>>
  /\ new[Len(d) + 1] = <<"leave", s>>
  /\ \A k \in 2 .. Len(stack) : new[Len(d) + k] = stack[k]

\* A call puts the dependencies and its own return on.
LEMMA Pushed ==
  ASSUME NEW list, Closed(list), NEW stack \in Stacks(list), stack # <<>>, NEW s \in Ids(list)
  PROVE  Pushes(Calls(DepsOf(list, s)) \o <<<<"leave", s>>>> \o Tail(stack), DepsOf(list, s),
                s, stack)
<1> DEFINE Fr == {"visit", "leave"} \X Ids(list)
           d  == DepsOf(list, s)
           c  == Calls(d)
           l  == <<<<"leave", s>>>>
           t  == Tail(stack)
<1>1. d \in Seq(Ids(list)) /\ Len(d) \in Nat /\ DOMAIN d = 1 .. Len(d)
  BY DEF Closed
<1>2. c \in Seq(Fr) /\ Len(c) = Len(d) /\ \A k \in 1 .. Len(d) : c[k] = <<"visit", d[k]>>
  <2>1. \A k \in 1 .. Len(d) : <<"visit", d[k]>> \in Fr
    BY <1>1
  <2>2. c = [k \in 1 .. Len(d) |-> <<"visit", d[k]>>]
    BY <1>1 DEF Calls
  <2> HIDE DEF Fr, d, c
  <2> QED
    BY <1>1, <2>1, <2>2
<1>3. l \in Seq(Fr) /\ Len(l) = 1 /\ l[1] = <<"leave", s>>
  OBVIOUS
<1>4. t \in Seq(Fr) /\ Len(t) = Len(stack) - 1 /\ Len(stack) \in Nat
      /\ \A k \in 1 .. Len(stack) - 1 : t[k] = stack[k + 1]
  BY Popped DEF Stacks
<1> HIDE DEF Fr, d, c, l, t
<1>5. c \o l \in Seq(Fr) /\ Len(c \o l) = Len(d) + 1
      /\ (\A k \in 1 .. Len(d) : (c \o l)[k] = c[k]) /\ (c \o l)[Len(d) + 1] = l[1]
  <2>1. \A i \in 1 .. Len(c) + Len(l) : (c \o l)[i] = IF i <= Len(c) THEN c[i] ELSE l[i - Len(c)]
    BY <1>2, <1>3, ConcatProperties
  <2>2. c \o l \in Seq(Fr) /\ Len(c \o l) = Len(c) + Len(l)
    BY <1>2, <1>3, ConcatProperties
  <2> QED
    BY <1>1, <1>2, <1>3, <2>1, <2>2
<1>6. Len(c \o l \o t) = Len(d) + Len(stack)
      /\ (\A k \in 1 .. Len(d) + 1 : (c \o l \o t)[k] = (c \o l)[k])
      /\ \A k \in 2 .. Len(stack) : (c \o l \o t)[Len(d) + k] = t[k - 1]
  <2> DEFINE p == c \o l
  <2>0. p \in Seq(Fr) /\ Len(p) = Len(d) + 1
    BY <1>5
  <2> HIDE DEF p
  <2>1. \A i \in 1 .. Len(p) + Len(t) : (p \o t)[i] = IF i <= Len(p) THEN p[i] ELSE t[i - Len(p)]
    BY <1>4, <2>0, ConcatProperties
  <2>2. Len(p \o t) = Len(p) + Len(t)
    BY <1>4, <2>0, ConcatProperties
  <2>3. Len(p \o t) = Len(d) + Len(stack)
    BY <1>1, <1>4, <2>0, <2>2
  <2>4. \A k \in 1 .. Len(d) + 1 : (p \o t)[k] = p[k]
    BY <1>1, <1>4, <2>0, <2>1
  <2>5. ASSUME NEW k \in 2 .. Len(stack) PROVE (p \o t)[Len(d) + k] = t[k - 1]
    <3>1. Len(d) + k \in 1 .. Len(p) + Len(t) /\ ~(Len(d) + k <= Len(p))
          /\ Len(d) + k - Len(p) = k - 1
      BY <1>1, <1>4, <2>0
    <3> QED
      BY <2>1, <3>1
  <2> QED
    BY <2>3, <2>4, <2>5 DEF p
<1>7. \A k \in 2 .. Len(stack) : t[k - 1] = stack[k]
  BY <1>4
<1>8. \A k \in 1 .. Len(d) : (c \o l \o t)[k] = <<"visit", d[k]>>
  BY <1>1, <1>2, <1>5, <1>6
<1>9. Pushes(c \o l \o t, d, s, stack)
  <2> DEFINE u == c \o l \o t
  <2>1. u[Len(d) + 1] = <<"leave", s>>
    BY <1>1, <1>3, <1>5, <1>6
  <2>2. \A k \in 2 .. Len(stack) : u[Len(d) + k] = stack[k]
    BY <1>6, <1>7, Zenon
  <2>3. Len(u) = Len(d) + Len(stack) /\ \A k \in 1 .. Len(d) : u[k] = <<"visit", d[k]>>
    BY <1>6, <1>8
  <2> QED
    BY <1>1, <2>1, <2>2, <2>3, Zenon DEF Pushes
<1> QED
  BY <1>9 DEF c, d, l, t

\* Taking the first entry off, at a return or from a finished subtask, keeps what the
\* search has established.
LEMMA PopKeepsInv ==
  ASSUME NEW list, Closed(list), NEW stack \in Stacks(list), NEW color \in Colorings(list),
         stack # <<>>, SearchInv(list, <<stack, color>>),
         Head(stack)[1] = "leave" \/ color[Head(stack)[2]] = "black"
  PROVE  LET s == Head(stack)[2]
         IN  /\ Head(stack)[1] = "leave" => color[s] = "gray"
             /\ SearchInv(list, <<Tail(stack), [color EXCEPT ![s] = "black"]>>)
<1> DEFINE n == Len(stack)
           s == stack[1][2]
           t == Tail(stack)
           c == [color EXCEPT ![s] = "black"]
<1>1. n \in Nat /\ n > 0 /\ DOMAIN stack = 1 .. n /\ Head(stack) = stack[1]
      /\ s \in Ids(list) /\ (stack[1][1] = "leave" \/ color[s] = "black")
  BY StackType, Popped
<1>2. \A k \in 1 .. n : stack[k][2] \in Ids(list)
  BY StackType
<1>3. t \in Stacks(list)
  BY SearchGoesOn
<1>4. DOMAIN t = 1 .. n - 1 /\ \A k \in 1 .. n - 1 : t[k] = stack[k + 1]
  BY <1>3, StackType, Popped
<1>5. \A r \in Ids(list) : c[r] = IF r = s THEN "black" ELSE color[r]
  BY DEF Colorings
<1>6. \A r \in Ids(list) : Waits(list, r) \subseteq Ids(list)
  BY WaitsAreIds
<1>7. Entered(list, stack, color) /\ Finished(list, color) /\ Awaited(list, stack, color)
      /\ Covered(list, stack, color) /\ Path(list, stack)
  BY DEF SearchInv
<1>8. stack[1][1] = "leave" => color[s] = "gray"
  BY <1>1, <1>7 DEF Entered, Leaves
<1>9. \A d \in Waits(list, s) : color[d] = "black"
  BY <1>1, <1>7 DEF Awaited, Leaves, Finished
<1> HIDE DEF n, s, t, c
<1>10. Entered(list, t, c)
  <2>1. ASSUME NEW r \in Ids(list)
        PROVE  c[r] = "gray" <=> \E k \in DOMAIN t : Leaves(t, k) /\ t[k][2] = r
    <3>1. CASE r = s
      <4>1. \A k \in 2 .. n : ~(Leaves(stack, k) /\ stack[k][2] = s)
        <5>1. CASE stack[1][1] = "leave"
          BY <1>1, <1>7, <5>1 DEF Entered, Leaves, s
        <5>2. CASE color[s] = "black"
          BY <1>1, <1>7, <5>2 DEF Entered
        <5> QED
          BY <1>1, <5>1, <5>2
      <4> QED
        BY <1>1, <1>4, <1>5, <3>1, <4>1 DEF Leaves
    <3>2. CASE r # s /\ color[r] = "gray"
      <4>1. PICK k \in 1 .. n : Leaves(stack, k) /\ stack[k][2] = r
        BY <1>1, <1>7, <3>2 DEF Entered
      <4>2. k # 1
        BY <3>2, <4>1 DEF s
      <4>3. k - 1 \in 1 .. n - 1 /\ t[k - 1] = stack[k]
        BY <1>1, <1>4, <4>2
      <4> QED
        BY <1>4, <1>5, <3>2, <4>1, <4>3 DEF Leaves
    <3>3. CASE r # s /\ color[r] # "gray"
      <4>1. \A k \in 1 .. n : ~(Leaves(stack, k) /\ stack[k][2] = r)
        BY <1>1, <1>7, <3>3 DEF Entered
      <4> QED
        BY <1>1, <1>4, <1>5, <3>3, <4>1 DEF Leaves
    <3> QED
      BY <3>1, <3>2, <3>3
  <2>2. ASSUME NEW k \in 1 .. n - 1, NEW m \in 1 .. n - 1, Leaves(t, k), Leaves(t, m),
               t[k][2] = t[m][2]
        PROVE  k = m
    <3>1. k + 1 \in 1 .. n /\ m + 1 \in 1 .. n
      BY <1>1
    <3>2. k + 1 = m + 1
      <4>1. Leaves(stack, k + 1) /\ Leaves(stack, m + 1) /\ stack[k + 1][2] = stack[m + 1][2]
        BY <1>4, <2>2 DEF Leaves
      <4> QED
        BY <1>1, <1>7, <3>1, <4>1 DEF Entered
    <3> QED
      BY <3>2
  <2> QED
    BY <1>4, <2>1, <2>2 DEF Entered
<1>11. Finished(list, c)
  <2>1. \A r \in Ids(list) : c[r] = "black" => \A d \in Waits(list, r) : c[d] = "black"
    BY <1>5, <1>6, <1>7, <1>9 DEF Finished
  <2>2. ASSUME NEW S \in SUBSET Ids(list), S # {}, \A r \in S : c[r] = "black"
        PROVE  \E r \in S : Waits(list, r) \cap S = {}
    <3> DEFINE R == S \ {s}
    <3>0. CASE color[s] = "black"
      BY <1>5, <1>7, <2>2, <3>0 DEF Finished
    <3>1. CASE R = {} /\ color[s] # "black"
      BY <1>1, <1>8, <1>9, <2>2, <3>1
    <3>2. CASE R # {} /\ color[s] # "black"
      <4>1. R \in SUBSET Ids(list) /\ \A r \in R : color[r] = "black"
        BY <1>5, <2>2
      <4>2. PICK r \in R : Waits(list, r) \cap R = {}
        BY <1>7, <3>2, <4>1 DEF Finished
      <4>3. s \notin Waits(list, r)
        BY <1>1, <1>7, <1>8, <3>2, <4>1 DEF Finished
      <4> QED
        BY <4>2, <4>3
    <3> QED
      BY <3>0, <3>1, <3>2
  <2> QED
    BY <2>1, <2>2 DEF Finished
<1>12. Awaited(list, t, c)
  <2> SUFFICES ASSUME NEW k \in 1 .. n - 1, Leaves(t, k),
                      NEW d \in Waits(list, t[k][2]), c[d] # "black"
               PROVE  \E m \in 1 .. n - 1 : m < k /\ t[m][2] = d
    BY <1>4 DEF Awaited
  <2>1. k + 1 \in 1 .. n /\ t[k] = stack[k + 1] /\ Leaves(stack, k + 1)
    BY <1>1, <1>4 DEF Leaves
  <2>2. d \in Ids(list) /\ d # s /\ color[d] # "black"
    BY <1>2, <1>5, <1>6, <2>1
  <2>3. PICK m \in 1 .. n : m < k + 1 /\ stack[m][2] = d
    BY <1>1, <1>7, <2>1, <2>2 DEF Awaited
  <2>4. m # 1
    BY <2>2, <2>3 DEF s
  <2>5. m - 1 \in 1 .. n - 1 /\ m - 1 < k /\ t[m - 1] = stack[m]
    BY <1>1, <1>4, <2>3, <2>4
  <2> QED
    BY <2>3, <2>5
<1>13. Covered(list, t, c)
  <2> SUFFICES ASSUME NEW r \in Ids(list), c[r] # "black"
               PROVE  \E k \in 1 .. n - 1 : t[k][2] = r
    BY <1>4 DEF Covered
  <2>1. r # s /\ color[r] # "black"
    BY <1>5
  <2>2. PICK k \in 1 .. n : stack[k][2] = r
    BY <1>1, <1>7, <2>1 DEF Covered
  <2>3. k # 1
    BY <2>1, <2>2 DEF s
  <2>4. k - 1 \in 1 .. n - 1 /\ t[k - 1] = stack[k]
    BY <1>1, <1>4, <2>3
  <2> QED
    BY <2>2, <2>4
<1>14. Path(list, t)
  <2> SUFFICES ASSUME NEW k \in 1 .. n - 1, NEW m \in 1 .. n - 1, k < m, Leaves(t, m),
                      t[k][2] \notin Waits(list, t[m][2])
               PROVE  \E j \in 1 .. n - 1 : k < j /\ j < m /\ Leaves(t, j)
    BY <1>4 DEF Path
  <2>1. k + 1 \in 1 .. n /\ t[k] = stack[k + 1] /\ m + 1 \in 1 .. n /\ t[m] = stack[m + 1]
    BY <1>1, <1>4
  <2>2. PICK j \in 1 .. n : k + 1 < j /\ j < m + 1 /\ Leaves(stack, j)
    BY <1>1, <1>7, <2>1 DEF Path, Leaves
  <2>3. j - 1 \in 1 .. n - 1 /\ k < j - 1 /\ j - 1 < m /\ t[j - 1] = stack[j]
    BY <1>1, <1>4, <2>2
  <2> QED
    BY <2>2, <2>3 DEF Leaves
<1> QED
  BY <1>1, <1>8, <1>10, <1>11, <1>12, <1>13, <1>14 DEF SearchInv, s, t, c

\* A call keeps what the search has established.
LEMMA PushKeepsInv ==
  ASSUME NEW list, Closed(list), NEW stack \in Stacks(list), NEW color \in Colorings(list),
         stack # <<>>, SearchInv(list, <<stack, color>>),
         Head(stack)[1] = "visit", color[Head(stack)[2]] = "white"
  PROVE  LET s == Head(stack)[2]
         IN  SearchInv(list, <<Calls(DepsOf(list, s)) \o <<<<"leave", s>>>> \o Tail(stack),
                               [color EXCEPT ![s] = "gray"]>>)
<1> DEFINE n == Len(stack)
           s == stack[1][2]
           d == DepsOf(list, s)
           l == Len(d)
           t == Calls(d) \o <<<<"leave", s>>>> \o Tail(stack)
           c == [color EXCEPT ![s] = "gray"]
<1>1. n \in Nat /\ n > 0 /\ DOMAIN stack = 1 .. n /\ Head(stack) = stack[1]
      /\ s \in Ids(list) /\ stack[1][1] = "visit" /\ color[s] = "white"
  BY StackType, Popped
<1>2. \A k \in 1 .. n : stack[k][2] \in Ids(list)
  BY StackType
<1>3. t \in Stacks(list)
  BY <1>1, SearchGoesOn
<1>4. /\ l \in Nat /\ DOMAIN d = 1 .. l /\ DOMAIN t = 1 .. l + n
      /\ \A k \in 1 .. l : t[k] = <<"visit", d[k]>>
      /\ t[l + 1] = <<"leave", s>>
      /\ \A k \in 2 .. n : t[l + k] = stack[k]
  <2>1. DOMAIN t = 1 .. Len(t)
    BY <1>3, StackType
  <2>2. /\ l \in Nat /\ DOMAIN d = 1 .. l /\ Len(t) = l + n
        /\ \A k \in 1 .. l : t[k] = <<"visit", d[k]>>
        /\ t[l + 1] = <<"leave", s>>
        /\ \A k \in 2 .. n : t[l + k] = stack[k]
    <3>1. Pushes(t, d, s, stack)
      BY <1>1, Pushed, Zenon
    <3> QED
      BY <3>1, Zenon DEF Pushes
  <2> QED
    BY <2>1, <2>2
<1>5. \A r \in Ids(list) : c[r] = IF r = s THEN "gray" ELSE color[r]
  BY DEF Colorings
<1>6. \A r \in Ids(list) : Waits(list, r) \subseteq Ids(list)
  BY WaitsAreIds
<1>7. Entered(list, stack, color) /\ Finished(list, color) /\ Awaited(list, stack, color)
      /\ Covered(list, stack, color) /\ Path(list, stack)
  BY DEF SearchInv
<1>8. \A e : e \in Waits(list, s) <=> \E k \in 1 .. l : d[k] = e
  BY <1>4 DEF Waits, Range
<1>9. \A k \in 1 .. n : ~(Leaves(stack, k) /\ stack[k][2] = s)
  BY <1>1, <1>7 DEF Entered
<1> HIDE DEF n, s, d, l, t, c
\* Where an entry of the new stack comes from.
<1>10. ASSUME NEW k \in 1 .. l + n, Leaves(t, k)
       PROVE  (k = l + 1 /\ t[k][2] = s) \/ (k - l \in 2 .. n /\ t[k] = stack[k - l])
  <2>1. CASE k \in 1 .. l
    BY <1>4, <1>10, <2>1 DEF Leaves
  <2>2. CASE k = l + 1
    BY <1>4, <2>2
  <2>3. CASE k > l + 1
    <3>1. k - l \in 2 .. n /\ k = l + (k - l)
      BY <1>1, <1>4, <2>3
    <3> QED
      BY <1>4, <3>1
  <2> QED
    BY <1>1, <1>4, <2>1, <2>2, <2>3
\* And where an old entry is.
<1>11. ASSUME NEW k \in 2 .. n
       PROVE  l + k \in 1 .. l + n /\ t[l + k] = stack[k] /\ l + k > l + 1
  BY <1>1, <1>4
<1>12. l + 1 \in 1 .. l + n /\ Leaves(t, l + 1) /\ t[l + 1][2] = s
  BY <1>1, <1>4 DEF Leaves
<1>13. Entered(list, t, c)
  <2>1. ASSUME NEW r \in Ids(list)
        PROVE  c[r] = "gray" <=> \E k \in DOMAIN t : Leaves(t, k) /\ t[k][2] = r
    <3>1. CASE r = s
      BY <1>4, <1>5, <1>12, <3>1
    <3>2. CASE r # s /\ color[r] = "gray"
      <4>1. PICK k \in 1 .. n : Leaves(stack, k) /\ stack[k][2] = r
        BY <1>1, <1>7, <3>2 DEF Entered
      <4>2. k \in 2 .. n
        BY <1>1, <3>2, <4>1 DEF s
      <4> QED
        BY <1>4, <1>5, <1>11, <3>2, <4>1, <4>2 DEF Leaves
    <3>3. CASE r # s /\ color[r] # "gray"
      <4>1. \A k \in 1 .. n : ~(Leaves(stack, k) /\ stack[k][2] = r)
        BY <1>1, <1>7, <3>3 DEF Entered
      <4>2. ASSUME NEW k \in 1 .. l + n, Leaves(t, k), t[k][2] = r PROVE FALSE
        <5>1. k - l \in 2 .. n /\ t[k] = stack[k - l]
          BY <1>10, <3>3, <4>2
        <5> QED
          BY <1>1, <4>1, <4>2, <5>1 DEF Leaves
      <4> QED
        BY <1>4, <1>5, <3>3, <4>2
    <3> QED
      BY <3>1, <3>2, <3>3
  <2>2. ASSUME NEW k \in 1 .. l + n, NEW m \in 1 .. l + n, Leaves(t, k), Leaves(t, m),
               t[k][2] = t[m][2]
        PROVE  k = m
    <3>1. CASE k - l \in 2 .. n /\ t[k] = stack[k - l] /\ m - l \in 2 .. n /\ t[m] = stack[m - l]
      <4>1. Leaves(stack, k - l) /\ Leaves(stack, m - l) /\ stack[k - l][2] = stack[m - l][2]
        BY <2>2, <3>1 DEF Leaves
      <4>2. k - l = m - l
        BY <1>1, <1>7, <3>1, <4>1 DEF Entered
      <4> QED
        BY <1>1, <1>4, <4>2
    <3>2. CASE k = l + 1 /\ t[k][2] = s /\ m - l \in 2 .. n /\ t[m] = stack[m - l]
      BY <1>1, <1>9, <2>2, <3>2 DEF Leaves
    <3>3. CASE m = l + 1 /\ t[m][2] = s /\ k - l \in 2 .. n /\ t[k] = stack[k - l]
      BY <1>1, <1>9, <2>2, <3>3 DEF Leaves
    <3> QED
      BY <1>10, <2>2, <3>1, <3>2, <3>3
  <2> QED
    BY <1>4, <2>1, <2>2 DEF Entered
<1>14. Finished(list, c)
  <2>1. \A r \in Ids(list) : c[r] = "black" <=> color[r] = "black"
    BY <1>1, <1>5
  <2> QED
    BY <1>6, <1>7, <2>1 DEF Finished
<1>15. Awaited(list, t, c)
  <2> SUFFICES ASSUME NEW k \in 1 .. l + n, Leaves(t, k),
                      NEW e \in Waits(list, t[k][2]), c[e] # "black"
               PROVE  \E m \in 1 .. l + n : m < k /\ t[m][2] = e
    BY <1>4 DEF Awaited
  <2>1. CASE k = l + 1 /\ t[k][2] = s
    <3>1. PICK m \in 1 .. l : d[m] = e
      BY <1>8, <2>1
    <3> QED
      BY <1>1, <1>4, <2>1, <3>1
  <2>2. CASE k - l \in 2 .. n /\ t[k] = stack[k - l]
    <3>1. k - l \in 1 .. n /\ Leaves(stack, k - l) /\ stack[k - l][2] \in Ids(list)
      BY <1>1, <1>2, <2>2 DEF Leaves
    <3>2. e \in Waits(list, stack[k - l][2]) /\ e \in Ids(list)
      BY <1>6, <2>2, <3>1
    <3>3. color[e] # "black"
      BY <1>1, <1>5, <3>2
    <3>4. PICK m \in 1 .. n : m < k - l /\ stack[m][2] = e
      BY <1>1, <1>7, <3>1, <3>2, <3>3 DEF Awaited
    <3>5. CASE m = 1
      <4>1. l + 1 < k /\ e = s
        BY <1>1, <1>4, <2>2, <3>4, <3>5 DEF s
      <4> QED
        BY <1>12, <4>1
    <3>6. CASE m # 1
      <4>1. m \in 2 .. n /\ l + m < k
        BY <1>1, <1>4, <3>4, <3>6
      <4> QED
        BY <1>11, <3>4, <4>1
    <3> QED
      BY <3>5, <3>6
  <2> QED
    BY <1>10, <2>1, <2>2
<1>16. Covered(list, t, c)
  <2> SUFFICES ASSUME NEW r \in Ids(list), c[r] # "black"
               PROVE  \E k \in 1 .. l + n : t[k][2] = r
    BY <1>4 DEF Covered
  <2>1. CASE r = s
    BY <1>12, <2>1
  <2>2. CASE r # s
    <3>1. PICK k \in 1 .. n : stack[k][2] = r
      BY <1>1, <1>5, <1>7, <2>2 DEF Covered
    <3>2. k \in 2 .. n
      BY <1>1, <2>2, <3>1 DEF s
    <3> QED
      BY <1>11, <3>1, <3>2
  <2> QED
    BY <2>1, <2>2
<1>17. Path(list, t)
  <2> SUFFICES ASSUME NEW k \in 1 .. l + n, NEW m \in 1 .. l + n, k < m, Leaves(t, m),
                      \A j \in 1 .. l + n : k < j /\ j < m => ~ Leaves(t, j)
               PROVE  t[k][2] \in Waits(list, t[m][2])
    BY <1>4 DEF Path
  <2>1. CASE m = l + 1 /\ t[m][2] = s
    BY <1>4, <1>8, <2>1
  <2>2. CASE m - l \in 2 .. n /\ t[m] = stack[m - l]
    <3>1. k >= l + 1
      BY <1>1, <1>4, <1>12, <2>2
    <3> DEFINE o == k - l
    <3>2. o \in 1 .. n /\ o < m - l /\ m - l \in 1 .. n
      BY <1>1, <1>4, <2>2, <3>1
    <3>3. ASSUME NEW j \in 1 .. n, o < j, j < m - l, Leaves(stack, j) PROVE FALSE
      <4>1. j \in 2 .. n /\ k < l + j /\ l + j < m
        BY <1>1, <1>4, <3>2, <3>3
      <4> QED
        BY <1>11, <3>3, <4>1 DEF Leaves
    <3>4. stack[o][2] \in Waits(list, stack[m - l][2])
      <4>1. Leaves(stack, m - l)
        BY <2>2 DEF Leaves
      <4> HIDE DEF o
      <4> QED
        BY <1>1, <1>7, <3>2, <3>3, <4>1 DEF Path
    <3>5. t[k][2] = stack[o][2]
      <4>1. CASE k = l + 1
        BY <1>1, <1>4, <1>12, <4>1 DEF s
      <4>2. CASE k > l + 1
        <5>1. o \in 2 .. n /\ k = l + o
          BY <1>1, <1>4, <3>2, <4>2
        <5> QED
          BY <1>11, <5>1
      <4> QED
        BY <1>1, <1>4, <3>1, <4>1, <4>2
    <3> QED
      BY <2>2, <3>4, <3>5
  <2> QED
    BY <1>10, <2>1, <2>2
<1> QED
  BY <1>1, <1>13, <1>14, <1>15, <1>16, <1>17 DEF SearchInv, s, t, c, d

\* When everything has returned, nothing waits on itself.
LEMMA EmptyVerdict ==
  ASSUME NEW list, NEW color \in Colorings(list), SearchInv(list, <<<<>>, color>>)
  PROVE  ~ Cyclic(list)
<1>1. \A s \in Ids(list) : color[s] = "black"
  BY DEF SearchInv, Covered
<1> QED
  BY <1>1 DEF SearchInv, Finished, Cyclic

\* A subtask met while it is being visited waits on itself.
LEMMA GrayVerdict ==
  ASSUME NEW list, NEW stack \in Stacks(list), NEW color \in Colorings(list), stack # <<>>,
         SearchInv(list, <<stack, color>>),
         Head(stack)[1] = "visit", color[Head(stack)[2]] = "gray"
  PROVE  Cyclic(list)
<1> DEFINE n == Len(stack)
           s == stack[1][2]
<1>1. n \in Nat /\ n > 0 /\ DOMAIN stack = 1 .. n /\ s \in Ids(list)
      /\ ~ Leaves(stack, 1) /\ color[s] = "gray" /\ \A k \in 1 .. n : stack[k][2] \in Ids(list)
  BY StackType, Popped DEF Leaves
<1>2. PICK m \in 1 .. n : Leaves(stack, m) /\ stack[m][2] = s
  BY <1>1 DEF SearchInv, Entered
<1> DEFINE S == {stack[k][2] : k \in {j \in 1 .. m : Leaves(stack, j)}}
<1>3. S \in SUBSET Ids(list) /\ s \in S
  BY <1>1, <1>2
<1>4. ASSUME NEW k \in 1 .. m, Leaves(stack, k)
      PROVE  Waits(list, stack[k][2]) \cap S # {}
  <2>1. k # 1 /\ k \in 1 .. n
    BY <1>1, <1>2, <1>4
  <2>2. CASE \E j \in 1 .. n : j < k /\ Leaves(stack, j)
    <3> DEFINE T == {k - j : j \in {i \in 1 .. n : i < k /\ Leaves(stack, i)}}
    <3>1. T \in SUBSET Nat /\ T # {}
      BY <1>1, <2>1, <2>2
    <3>2. PICK g \in T : \A h \in T : g <= h
      <4> HIDE DEF T
      <4> QED
        BY <3>1, LeastNumber
    <3>3. PICK j \in 1 .. n : j < k /\ Leaves(stack, j) /\ g = k - j
      BY <3>2
    <3>4. ASSUME NEW i \in 1 .. n, j < i, i < k, Leaves(stack, i) PROVE FALSE
      <4>1. k - i \in T
        BY <3>4
      <4>2. ~(g <= k - i)
        BY <1>1, <2>1, <3>3, <3>4
      <4> QED
        BY <3>2, <4>1, <4>2
    <3>5. stack[j][2] \in Waits(list, stack[k][2])
      BY <1>1, <1>4, <2>1, <3>3, <3>4 DEF SearchInv, Path
    <3>6. stack[j][2] \in S
      BY <1>2, <1>1, <3>3
    <3> QED
      BY <3>5, <3>6
  <2>3. CASE \A j \in 1 .. n : j < k => ~ Leaves(stack, j)
    <3>1. s \in Waits(list, stack[k][2])
      BY <1>1, <1>4, <2>1, <2>3 DEF SearchInv, Path
    <3> QED
      BY <1>3, <3>1
  <2> QED
    BY <2>2, <2>3
<1>5. \A r \in S : Waits(list, r) \cap S # {}
  BY <1>4
<1> HIDE DEF S
<1> QED
  BY <1>3, <1>5 DEF Cyclic

-----------------------------------------------------------------------------
(* The search ends, and tells.                                             *)

Unvisited(list, color) == {s \in Ids(list) : color[s] = "white"}

\* From a state with what the search has established, a cycle is found iff there is
\* one: of the states for which this fails, one with the fewest unvisited subtasks and,
\* of these, the shortest stack has a step to another one.
LEMMA SearchDecides ==
  ASSUME NEW list, Closed(list), IsFiniteSet(Ids(list)), NEW U \in SUBSET States(list),
         \A x \in States(list) : x \in U <=> FindsIn(list, U, x)
  PROVE  \A x \in States(list) : SearchInv(list, x) => (x \in U <=> Cyclic(list))
<1> DEFINE Bad    == {x \in States(list) : SearchInv(list, x) /\ ~(x \in U <=> Cyclic(list))}
           W(x)   == Cardinality(Unvisited(list, x[2]))
           Worst  == {W(x) : x \in Bad}
<1> SUFFICES ASSUME Bad # {} PROVE FALSE
  OBVIOUS
<1>1. \A x \in States(list) : IsFiniteSet(Unvisited(list, x[2])) /\ W(x) \in Nat
  <2> TAKE x \in States(list)
  <2>1. Unvisited(list, x[2]) \subseteq Ids(list)
    BY DEF Unvisited
  <2>2. IsFiniteSet(Unvisited(list, x[2]))
    BY <2>1, FS_Subset
  <2> QED
    BY <2>2, FS_CardinalityType
<1>2. PICK w \in Worst : \A v \in Worst : w <= v
  <2>1. Worst \in SUBSET Nat /\ Worst # {}
    BY <1>1
  <2> HIDE DEF Worst
  <2> QED
    BY <2>1, LeastNumber
<1> DEFINE Least == {x \in Bad : W(x) = w}
           Lens  == {Len(x[1]) : x \in Least}
<1>3. PICK l \in Lens : \A m \in Lens : l <= m
  <2>1. \A x \in States(list) : Len(x[1]) \in Nat
    BY DEF States, Stacks
  <2>2. Lens \in SUBSET Nat /\ Lens # {}
    BY <1>2, <2>1
  <2> HIDE DEF Lens
  <2> QED
    BY <2>2, LeastNumber
<1>4. PICK x \in Least : Len(x[1]) = l
  BY <1>3
<1>5. ASSUME NEW y \in States(list), SearchInv(list, y), y \in U <=> x \in U,
             W(y) < W(x) \/ (W(y) = W(x) /\ Len(y[1]) < Len(x[1]))
      PROVE  FALSE
  <2>1. y \in Bad
    BY <1>4, <1>5
  <2>2. W(y) \in Worst
    BY <2>1
  <2>3. w <= W(y) /\ w = W(x) /\ w \in Nat /\ W(y) \in Nat
    BY <1>1, <1>2, <1>4, <2>2
  <2>4. W(y) = W(x) /\ Len(y[1]) < l
    <3> HIDE DEF W
    <3> QED
      BY <1>4, <1>5, <2>3
  <2>5. y \in Least
    BY <2>1, <2>3, <2>4
  <2>6. l <= Len(y[1])
    BY <1>3, <2>5
  <2>7. Len(y[1]) \in Nat /\ l \in Nat
    BY <1>4 DEF States, Stacks
  <2> QED
    BY <2>4, <2>6, <2>7
<1> DEFINE stack == x[1]
           color == x[2]
           s     == Head(stack)[2]
           rest  == Tail(stack)
           black == [color EXCEPT ![s] = "black"]
           gray  == [color EXCEPT ![s] = "gray"]
           call  == Calls(DepsOf(list, s)) \o <<<<"leave", s>>>> \o rest
<1>6. stack \in Stacks(list) /\ color \in Colorings(list) /\ x = <<stack, color>>
      /\ SearchInv(list, <<stack, color>>) /\ x \in States(list)
  BY <1>4 DEF States
<1>7. x \in U <=> FindsIn(list, U, x)
  BY <1>6
<1>8. CASE stack = <<>>
  <2>1. x \notin U
    BY <1>7, <1>8 DEF FindsIn
  <2> QED
    BY <1>4, <1>6, <1>8, <2>1, EmptyVerdict
<1>9. CASE stack # <<>>
  <2>1. /\ Head(stack)[1] \in {"visit", "leave"} /\ s \in Ids(list)
        /\ <<rest, black>> \in States(list) /\ <<call, gray>> \in States(list)
        /\ color[s] \in {"white", "gray", "black"} /\ Len(rest) < Len(stack)
    <3>1. Len(rest) < Len(stack)
      BY <1>6, <1>9, Popped, StackType
    <3> HIDE DEF stack, color
    <3> QED
      BY <1>6, <1>9, <3>1, SearchGoesOn DEF States, Colorings
  <2>2. CASE Head(stack)[1] = "leave" \/ color[s] = "black"
    <3>1. SearchInv(list, <<rest, black>>) /\ (Head(stack)[1] = "leave" => color[s] = "gray")
      BY <1>6, <1>9, <2>2, PopKeepsInv
    <3>2. Unvisited(list, black) = Unvisited(list, color)
      BY <1>6, <2>2, <3>1 DEF Unvisited, Colorings
    <3>3. color[s] = "black" => black = color
      BY <1>6, <2>1 DEF Colorings
    <3>4. <<rest, black>> \in U <=> x \in U
      BY <1>6, <1>7, <1>9, <2>1, <2>2, <3>1, <3>3 DEF FindsIn
    <3>5. W(<<rest, black>>) = W(x)
      BY <3>2
    <3> QED
      BY <1>5, <2>1, <3>1, <3>4, <3>5
  <2>3. CASE Head(stack)[1] = "visit" /\ color[s] = "gray"
    <3>1. Cyclic(list)
      BY <1>6, <1>9, <2>3, GrayVerdict
    <3>2. x \in U
      BY <1>7, <1>9, <2>3 DEF FindsIn
    <3> QED
      BY <1>4, <3>1, <3>2
  <2>4. CASE Head(stack)[1] = "visit" /\ color[s] = "white"
    <3>1. SearchInv(list, <<call, gray>>)
      BY <1>6, <1>9, <2>4, PushKeepsInv
    <3>2. Unvisited(list, gray) = Unvisited(list, color) \ {s} /\ s \in Unvisited(list, color)
      BY <1>6, <2>1, <2>4 DEF Unvisited, Colorings
    <3>3. <<call, gray>> \in U <=> x \in U
      BY <1>7, <1>9, <2>4 DEF FindsIn
    <3>4. W(<<call, gray>>) < W(x)
      <4>1. IsFiniteSet(Unvisited(list, color)) /\ W(x) \in Nat
        BY <1>1, <1>6
      <4>2. Cardinality(Unvisited(list, color) \ {s}) = Cardinality(Unvisited(list, color)) - 1
        <5> DEFINE A == Unvisited(list, color)
        <5>1. IsFiniteSet(A) /\ s \in A
          BY <3>2, <4>1
        <5> HIDE DEF A, s
        <5> QED
          BY <5>1, FS_RemoveElement DEF A
      <4>3. W(<<call, gray>>) = Cardinality(Unvisited(list, gray))
            /\ W(x) = Cardinality(Unvisited(list, color))
        OBVIOUS
      <4> HIDE DEF W, gray, call, color, s
      <4> QED
        BY <3>2, <4>1, <4>2, <4>3
    <3> QED
      BY <1>5, <2>1, <3>1, <3>3, <3>4
  <2> QED
    BY <2>1, <2>2, <2>3, <2>4
<1> QED
  BY <1>8, <1>9

-----------------------------------------------------------------------------
(* Validation.                                                             *)

\* The search begins with nothing established.
LEMMA InitialSearch ==
  ASSUME NEW list, IsList(list)
  PROVE  LET x == <<Calls([i \in DOMAIN list |-> list[i].id]), [s \in Ids(list) |-> "white"]>>
         IN  x \in States(list) /\ SearchInv(list, x)
<1> DEFINE n     == Len(list)
           ids   == [i \in DOMAIN list |-> list[i].id]
           stack == Calls(ids)
           color == [s \in Ids(list) |-> "white"]
<1>1. n \in Nat /\ DOMAIN list = 1 .. n
  BY DEF IsList
<1>2. \A i \in 1 .. n : list[i].id \in Ids(list)
  BY <1>1 DEF Ids, Range
<1>3. stack = [i \in 1 .. n |-> <<"visit", list[i].id>>]
  BY <1>1 DEF Calls
<1>4. stack \in Stacks(list)
  BY <1>1, <1>2, <1>3 DEF Stacks
<1>5. color \in Colorings(list)
  BY DEF Colorings
<1>6. \A k \in DOMAIN stack : ~ Leaves(stack, k)
  BY <1>1, <1>3 DEF Leaves
<1>7. \A s \in Ids(list) : color[s] = "white" /\ \E k \in DOMAIN stack : stack[k][2] = s
  <2>1. \A s \in Ids(list) : \E k \in 1 .. n : list[k].id = s
    BY <1>1 DEF Ids, Range
  <2>2. DOMAIN stack = 1 .. n /\ \A k \in 1 .. n : stack[k][2] = list[k].id
    <3> HIDE DEF stack, n
    <3> QED
      BY <1>3
  <2>3. \A s \in Ids(list) : color[s] = "white"
    OBVIOUS
  <2> HIDE DEF stack, color
  <2> QED
    BY <2>1, <2>2, <2>3
<1> HIDE DEF stack, color
<1>8. Entered(list, stack, color)
  BY <1>6, <1>7 DEF Entered
<1>9. Finished(list, color)
  BY <1>7 DEF Finished
<1>10. Awaited(list, stack, color) /\ Covered(list, stack, color) /\ Path(list, stack)
  BY <1>6, <1>7 DEF Awaited, Covered, Path
<1>11. <<stack, color>> \in States(list) /\ SearchInv(list, <<stack, color>>)
  BY <1>4, <1>5, <1>8, <1>9, <1>10 DEF States, SearchInv
<1> QED
  BY <1>11 DEF stack, color

\* detectCycle finds a cycle iff there is one.
LEMMA DetectCycleExact ==
  ASSUME NEW list, IsList(list), Closed(list), IsFiniteSet(Ids(list))
  PROVE  detectCycle(list) <=> Cyclic(list)
<1> DEFINE D  == States(list)
           U  == {x \in D : Search(list)[x]}
           x0 == <<Calls([i \in DOMAIN list |-> list[i].id]), [s \in Ids(list) |-> "white"]>>
<1>1. x0 \in D /\ SearchInv(list, x0)
  BY InitialSearch
<1>2. ASSUME NEW x \in D
      PROVE  Search(list)[x] <=> FindsIn(list, U, x)
  <2> DEFINE s  == Head(x[1])[2]
             y1 == <<Tail(x[1]), [x[2] EXCEPT ![s] = "black"]>>
             y2 == <<Tail(x[1]), x[2]>>
             y3 == <<Calls(DepsOf(list, s)) \o <<<<"leave", s>>>> \o Tail(x[1]),
                     [x[2] EXCEPT ![s] = "gray"]>>
  <2>1. Search(list)[x] = SearchStep(list, Search(list), x)
    BY SearchIsSet
  <2>2. CASE x[1] # <<>>
    <3>1. x[1] \in Stacks(list) /\ x[2] \in Colorings(list)
      BY DEF States
    <3>2. y1 \in D /\ y2 \in D /\ y3 \in D
      BY <2>2, <3>1, SearchGoesOn DEF States
    <3>3. (Search(list)[y1] <=> y1 \in U) /\ (Search(list)[y2] <=> y2 \in U)
          /\ (Search(list)[y3] <=> y3 \in U)
      BY <3>2, Zenon
    <3> HIDE DEF U, D
    <3> QED
      BY <2>1, <3>3, Zenon DEF SearchStep, FindsIn
  <2>3. CASE x[1] = <<>>
    BY <2>1, <2>3, Zenon DEF SearchStep, FindsIn
  <2> QED
    BY <2>2, <2>3
<1>3. \A x \in D : x \in U <=> FindsIn(list, U, x)
  BY <1>2
<1>4. x0 \in U <=> Cyclic(list)
  <2>1. U \in SUBSET D
    OBVIOUS
  <2> HIDE DEF U, x0
  <2> QED
    BY <1>1, <1>3, <2>1, SearchDecides
<1>5. detectCycle(list) = Search(list)[x0]
  BY DetectCycleIsSearch
<1> QED
  BY <1>1, <1>4, <1>5, Zenon

\* ValidateDAG accepts what the engine can execute, and no more.
LEMMA ValidateDAGExact ==
  ASSUME NEW list, IsList(list)
  PROVE  ValidateDAG(list) <=> Executable(list)
<1> DEFINE n       == Len(list)
           f       == [i \in 1 .. n |-> list[i].id]
           deps(s) == UNION {Range(e.deps) : e \in {x \in Range(list) : x.id = s}}
           Unique  == \A i, j \in DOMAIN list : list[i].id = list[j].id => i = j
<1>1. n \in Nat /\ DOMAIN list = 1 .. n
  BY DEF IsList
<1>2. IsFiniteSet(Ids(list)) /\ (Cardinality(Ids(list)) = n <=> Unique)
  <2>1. f \in Surjection(1 .. n, Ids(list))
    BY <1>1 DEF Surjection, Ids, Range
  <2>2. IsFiniteSet(1 .. n) /\ Cardinality(1 .. n) = n
    <3> HIDE DEF n
    <3> QED
      BY <1>1, FS_Interval
  <2>3. /\ IsFiniteSet(Ids(list))
        /\ Cardinality(Ids(list)) = n <=> f \in Injection(1 .. n, Ids(list))
    <3> HIDE DEF f, n
    <3> QED
      BY <2>1, <2>2, FS_Surjection
  <2>4. f \in Injection(1 .. n, Ids(list)) <=> Unique
    BY <1>1, <2>1 DEF Injection, IsInjective, Surjection
  <2> QED
    BY <2>3, <2>4
<1>3. ASSUME Unique, NEW e \in Range(list)
      PROVE  DepsOf(list, e.id) = e.deps /\ deps(e.id) = Range(e.deps) /\ e.id \in Ids(list)
  <2>1. \A x \in Range(list) : x.id = e.id => x = e
    BY <1>3 DEF Range
  <2>2. (CHOOSE x \in Range(list) : x.id = e.id) = e
    BY <1>3, <2>1
  <2> QED
    BY <1>3, <2>1, <2>2 DEF DepsOf, Ids
<1>4. ASSUME Unique, \A s \in Ids(list) : deps(s) \subseteq Ids(list)
      PROVE  Closed(list) /\ \A s \in Ids(list) : Waits(list, s) = deps(s)
  <2> SUFFICES ASSUME NEW e \in Range(list)
               PROVE  DepsOf(list, e.id) \in Seq(Ids(list)) /\ Waits(list, e.id) = deps(e.id)
    BY DEF Closed, Ids
  <2>1. DepsOf(list, e.id) = e.deps /\ deps(e.id) = Range(e.deps) /\ e.id \in Ids(list)
    BY <1>3, <1>4
  <2>2. e.deps \in Seq(Range(e.deps)) /\ Range(e.deps) \subseteq Ids(list)
    BY <1>4, <2>1 DEF IsList
  <2>3. e.deps \in Seq(Ids(list))
    <3> HIDE DEF deps
    <3> QED
      BY <2>2
  <2> QED
    BY <2>1, <2>3 DEF Waits
<1> DEFINE Dependent == \A e \in Range(list) : \A dep \in Range(e.deps) : dep \in Ids(list)
           Acyclic   == \A S \in SUBSET Ids(list) : S # {} => \E s \in S : deps(s) \cap S = {}
<1>5. ASSUME Unique
      PROVE  Dependent <=> \A s \in Ids(list) : deps(s) \subseteq Ids(list)
  <2>1. \A e \in Range(list) : deps(e.id) = Range(e.deps)
    BY <1>3, <1>5
  <2> HIDE DEF deps
  <2> QED
    BY <2>1 DEF Ids
<1>6. ASSUME Unique, Dependent
      PROVE  ~ detectCycle(list) <=> Acyclic
  <2>1. \A s \in Ids(list) : deps(s) \subseteq Ids(list)
    BY <1>5, <1>6
  <2>2. Closed(list) /\ \A s \in Ids(list) : Waits(list, s) = deps(s)
    BY <1>4, <1>6, <2>1
  <2>3. detectCycle(list) <=> Cyclic(list)
    BY <1>2, <2>2, DetectCycleExact
  <2>4. Cyclic(list) <=> ~ Acyclic
    <3> HIDE DEF deps
    <3> QED
      BY <2>2 DEF Cyclic
  <2> QED
    BY <2>3, <2>4
<1>7. ASSUME Unique, Acyclic, NEW e \in Range(list), NEW dep \in Range(e.deps)
      PROVE  dep # e.id
  <2>1. deps(e.id) = Range(e.deps) /\ e.id \in Ids(list)
    BY <1>3, <1>7
  <2>2. deps(e.id) \cap {e.id} = {}
    <3> HIDE DEF deps
    <3> QED
      BY <1>7, <2>1
  <2> QED
    BY <1>7, <2>1, <2>2
<1>8. ValidateDAG(list) <=>
        /\ list # <<>> /\ \A e \in Range(list) : e.complete
        /\ Unique /\ Dependent /\ Acyclic
  <2>1. ValidateDAG(list) <=>
          /\ list # <<>> /\ \A e \in Range(list) : e.complete
          /\ Unique /\ Dependent /\ ~ detectCycle(list)
          /\ \A e \in Range(list) : \A dep \in Range(e.deps) : dep # e.id
    BY <1>2, Zenon DEF ValidateDAG, Ids
  <2> HIDE DEF Unique, Dependent, Acyclic
  <2> QED
    BY <1>6, <1>7, <2>1
<1>9. Executable(list) <=>
        /\ list # <<>> /\ \A e \in Range(list) : e.complete
        /\ Unique /\ (\A s \in Ids(list) : deps(s) \subseteq Ids(list)) /\ Acyclic
  BY Zenon DEF Executable, Ids
<1> QED
  <2> HIDE DEF Unique, Dependent, Acyclic, deps
  <2> QED
    BY <1>5, <1>8, <1>9

-----------------------------------------------------------------------------
(* What is validated.                                                      *)

\* What the planner parses, writes and persists was said by the agent, and what it
\* persists has been accepted.
BundleInv ==
  /\ at = "parse" /\ ~ dry => answer \in FirstAnswers \cup LaterAnswers
  /\ at \in {"write", "persist"} => bundle \in Bundles
  /\ at = "persist" => Parses(bundle["subtasks"])

\* Nothing else is ever written or persisted.
THEOREM BundlesAreAnswers == Spec => []BundleInv
<1>1. Init => BundleInv
  BY DEF Init, BundleInv
<1>2. BundleInv /\ [Next]_vars => BundleInv'
  <2> SUFFICES ASSUME BundleInv, [Next]_vars PROVE BundleInv'
    OBVIOUS
  <2>1. CASE MarkPlanning \/ Summarize \/ InvocationFails \/ PersistPlan \/ Classify
    <3>1. at' \notin {"parse", "write", "persist"}
      BY <2>1 DEF MarkPlanning, Summarize, InvocationFails, PersistPlan, Classify, Save, Goto, Err
    <3> QED
      BY <3>1 DEF BundleInv
  <2>2. CASE Start \/ Crash
    <3>1. at' \notin {"parse", "write", "persist"}
      BY <2>2 DEF Start, Crash, Goto
    <3> QED
      BY <3>1 DEF BundleInv
  <2>3. CASE AgentAnswers
    <3>1. at' = "parse" /\ dry' = dry /\ (~ dry => answer' \in FirstAnswers \cup LaterAnswers)
      BY <2>3 DEF AgentAnswers, Goto
    <3> QED
      BY <3>1 DEF BundleInv
  <2>4. CASE Parse
    <3>1. /\ at = "parse" /\ at' \in {"write", "invoke", "idle", "classify"} /\ dry' = dry
          /\ bundle' = IF dry THEN dryRunDocs ELSE parseBundle(answer)
      BY <2>4 DEF Parse, Rejected, Err, Goto
    <3>2. bundle' \in Bundles
      BY <3>1 DEF BundleInv, Bundles
    <3> QED
      BY <3>1, <3>2 DEF BundleInv
  <2>5. CASE WriteDoc
    <3>1. at = "write" /\ at' \in {"write", "invoke", "idle", "classify"} /\ bundle' = bundle
      BY <2>5 DEF WriteDoc, Rejected, Err, Goto
    <3> QED
      BY <3>1 DEF BundleInv
  <2>6. CASE Validate
    <3>1. /\ at = "write" /\ at' \in {"persist", "invoke", "idle", "classify"} /\ bundle' = bundle
          /\ at' = "persist" => Parses(bundle["subtasks"])
      BY <2>6 DEF Validate, Rejected, Err, Goto
    <3>2. at' = "persist" => Parses(bundle'["subtasks"])
      BY <3>1
    <3> QED
      BY <3>1, <3>2 DEF BundleInv
  <2>7. CASE Cancel \/ UNCHANGED vars
    <3>1. UNCHANGED <<at, dry, answer, bundle>>
      BY <2>7 DEF Cancel, vars, process
    <3>2. Parses(bundle'["subtasks"]) <=> Parses(bundle["subtasks"])
      BY <3>1
    <3> QED
      BY <3>1, <3>2 DEF BundleInv
  <2> QED
    BY <2>1, <2>2, <2>3, <2>4, <2>5, <2>6, <2>7 DEF Next, PlanStep
<1> QED
  BY <1>1, <1>2, PTL DEF Spec

\* For every answer, ValidateDAG (subtasks.go) accepts a plan iff the engine can run
\* it to its end: detectCycle misses no cycle and takes nothing else for one, however
\* large the plan.
THEOREM ValidationIsExact == Spec => []ValidatesExactly
<1>1. BundleInv => ValidatesExactly
  <2> SUFFICES ASSUME BundleInv, at = "write"
               PROVE  Parses(bundle["subtasks"])
                        <=> Decodes(bundle["subtasks"]) /\ Executable(List(bundle["subtasks"]))
    BY DEF ValidatesExactly
  <2>1. IsList(List(bundle["subtasks"]))
    BY AnswersAssumption DEF BundleInv
  <2>2. ValidateDAG(List(bundle["subtasks"])) <=> Executable(List(bundle["subtasks"]))
    BY <2>1, ValidateDAGExact
  <2> QED
    BY <2>2 DEF Parses
<1> QED
  BY <1>1, BundlesAreAnswers, PTL

-----------------------------------------------------------------------------
(* The meaning of a pattern, from any symbol and any place of the name on. *)

Reads(P, N, any, fits, i, j) ==
  \E cut \in [i..P + 1 -> 1..N + 1] :
    /\ cut[i] = j /\ cut[P + 1] = N + 1
    /\ \A k \in i..P : IF k \in any THEN cut[k] <= cut[k + 1]
                       ELSE cut[k + 1] = cut[k] + 1 /\ <<k, cut[k]>> \in fits

\* The whole pattern reads the whole name.
LEMMA DenotedReads ==
  ASSUME NEW P \in Nat, NEW N \in Nat, NEW any, NEW fits
  PROVE  Denoted(P, N, any, fits) <=> Reads(P, N, any, fits, 1, 1)
BY DEF Denoted, Reads

\* At its end a pattern reads nothing more.
LEMMA ReadsEnd ==
  ASSUME NEW P \in Nat, NEW N \in Nat, NEW any, NEW fits, NEW j \in 1 .. N + 1
  PROVE  Reads(P, N, any, fits, P + 1, j) <=> j = N + 1
<1>1. ASSUME j = N + 1 PROVE Reads(P, N, any, fits, P + 1, j)
  <2> DEFINE cut == [k \in P + 1 .. P + 1 |-> N + 1]
  <2>1. cut \in [P + 1 .. P + 1 -> 1 .. N + 1] /\ cut[P + 1] = N + 1
    OBVIOUS
  <2>2. \A k \in P + 1 .. P : FALSE
    OBVIOUS
  <2> HIDE DEF cut
  <2> QED
    BY <1>1, <2>1, <2>2 DEF Reads
<1> QED
  BY <1>1 DEF Reads

\* A symbol that is no wildcard reads one symbol of the name that fits it.
LEMMA ReadsOne ==
  ASSUME NEW P \in Nat, NEW N \in Nat, NEW any, NEW fits, NEW i \in 1 .. P,
         NEW j \in 1 .. N + 1, i \notin any
  PROVE  Reads(P, N, any, fits, i, j)
           <=> j <= N /\ <<i, j>> \in fits /\ Reads(P, N, any, fits, i + 1, j + 1)
<1>1. ASSUME Reads(P, N, any, fits, i, j)
      PROVE  j <= N /\ <<i, j>> \in fits /\ Reads(P, N, any, fits, i + 1, j + 1)
  <2>1. PICK cut \in [i .. P + 1 -> 1 .. N + 1] :
          /\ cut[i] = j /\ cut[P + 1] = N + 1
          /\ \A k \in i .. P : IF k \in any THEN cut[k] <= cut[k + 1]
                               ELSE cut[k + 1] = cut[k] + 1 /\ <<k, cut[k]>> \in fits
    BY <1>1 DEF Reads
  <2>2. cut[i + 1] = j + 1 /\ <<i, j>> \in fits /\ cut[i + 1] \in 1 .. N + 1
    BY <2>1
  <2> DEFINE c == [k \in i + 1 .. P + 1 |-> cut[k]]
  <2>3. c \in [i + 1 .. P + 1 -> 1 .. N + 1] /\ \A k \in i + 1 .. P + 1 : c[k] = cut[k]
    BY <2>1
  <2> HIDE DEF c
  <2>4. \A k \in i + 1 .. P : IF k \in any THEN c[k] <= c[k + 1]
                              ELSE c[k + 1] = c[k] + 1 /\ <<k, c[k]>> \in fits
    BY <2>1, <2>3
  <2>5. c[i + 1] = j + 1 /\ c[P + 1] = N + 1
    BY <2>1, <2>2, <2>3
  <2>6. Reads(P, N, any, fits, i + 1, j + 1)
    BY <2>3, <2>4, <2>5, Zenon DEF Reads
  <2>7. j + 1 \in 1 .. N + 1
    BY <2>2
  <2> QED
    BY <2>2, <2>6, <2>7
<1>2. ASSUME j <= N, <<i, j>> \in fits, Reads(P, N, any, fits, i + 1, j + 1)
      PROVE  Reads(P, N, any, fits, i, j)
  <2>1. PICK cut \in [i + 1 .. P + 1 -> 1 .. N + 1] :
          /\ cut[i + 1] = j + 1 /\ cut[P + 1] = N + 1
          /\ \A k \in i + 1 .. P : IF k \in any THEN cut[k] <= cut[k + 1]
                                   ELSE cut[k + 1] = cut[k] + 1 /\ <<k, cut[k]>> \in fits
    BY <1>2 DEF Reads
  <2> DEFINE c == [k \in i .. P + 1 |-> IF k = i THEN j ELSE cut[k]]
  <2>2. c \in [i .. P + 1 -> 1 .. N + 1] /\ c[i] = j /\ \A k \in i + 1 .. P + 1 : c[k] = cut[k]
    BY <2>1
  <2> HIDE DEF c
  <2>3. \A k \in i .. P : IF k \in any THEN c[k] <= c[k + 1]
                          ELSE c[k + 1] = c[k] + 1 /\ <<k, c[k]>> \in fits
    <3> TAKE k \in i .. P
    <3>1. CASE k = i
      BY <1>2, <2>1, <2>2, <3>1
    <3>2. CASE k # i
      BY <2>1, <2>2, <3>2
    <3> QED
      BY <3>1, <3>2
  <2>4. c[P + 1] = N + 1
    BY <2>1, <2>2
  <2> QED
    BY <2>2, <2>3, <2>4 DEF Reads
<1> QED
  BY <1>1, <1>2

\* A wildcard reads any number of them.
LEMMA ReadsAny ==
  ASSUME NEW P \in Nat, NEW N \in Nat, NEW any, NEW fits, NEW i \in 1 .. P,
         NEW j \in 1 .. N + 1, i \in any
  PROVE  Reads(P, N, any, fits, i, j)
           <=> \E k \in j .. N + 1 : Reads(P, N, any, fits, i + 1, k)
<1>1. ASSUME Reads(P, N, any, fits, i, j)
      PROVE  \E k \in j .. N + 1 : Reads(P, N, any, fits, i + 1, k)
  <2>1. PICK cut \in [i .. P + 1 -> 1 .. N + 1] :
          /\ cut[i] = j /\ cut[P + 1] = N + 1
          /\ \A k \in i .. P : IF k \in any THEN cut[k] <= cut[k + 1]
                               ELSE cut[k + 1] = cut[k] + 1 /\ <<k, cut[k]>> \in fits
    BY <1>1 DEF Reads
  <2>2. cut[i + 1] \in j .. N + 1
    <3>1. i \in i .. P /\ cut[i + 1] \in 1 .. N + 1
      BY <2>1
    <3>2. cut[i] <= cut[i + 1]
      BY <2>1, <3>1
    <3> QED
      BY <2>1, <3>1, <3>2
  <2> DEFINE c == [k \in i + 1 .. P + 1 |-> cut[k]]
  <2>3. c \in [i + 1 .. P + 1 -> 1 .. N + 1] /\ \A k \in i + 1 .. P + 1 : c[k] = cut[k]
    BY <2>1
  <2> HIDE DEF c
  <2>4. \A k \in i + 1 .. P : IF k \in any THEN c[k] <= c[k + 1]
                              ELSE c[k + 1] = c[k] + 1 /\ <<k, c[k]>> \in fits
    BY <2>1, <2>3
  <2>5. c[i + 1] = cut[i + 1] /\ c[P + 1] = N + 1
    BY <2>1, <2>3
  <2>6. Reads(P, N, any, fits, i + 1, cut[i + 1])
    BY <2>3, <2>4, <2>5 DEF Reads
  <2> QED
    BY <2>2, <2>6
<1>2. ASSUME NEW l \in j .. N + 1, Reads(P, N, any, fits, i + 1, l)
      PROVE  Reads(P, N, any, fits, i, j)
  <2>1. PICK cut \in [i + 1 .. P + 1 -> 1 .. N + 1] :
          /\ cut[i + 1] = l /\ cut[P + 1] = N + 1
          /\ \A k \in i + 1 .. P : IF k \in any THEN cut[k] <= cut[k + 1]
                                   ELSE cut[k + 1] = cut[k] + 1 /\ <<k, cut[k]>> \in fits
    BY <1>2 DEF Reads
  <2> DEFINE c == [k \in i .. P + 1 |-> IF k = i THEN j ELSE cut[k]]
  <2>2. c \in [i .. P + 1 -> 1 .. N + 1] /\ c[i] = j /\ \A k \in i + 1 .. P + 1 : c[k] = cut[k]
    BY <2>1
  <2> HIDE DEF c
  <2>3. \A k \in i .. P : IF k \in any THEN c[k] <= c[k + 1]
                          ELSE c[k + 1] = c[k] + 1 /\ <<k, c[k]>> \in fits
    <3> TAKE k \in i .. P
    <3>1. CASE k = i
      BY <1>2, <2>1, <2>2, <3>1
    <3>2. CASE k # i
      BY <2>1, <2>2, <3>2
    <3> QED
      BY <3>1, <3>2
  <2>4. c[P + 1] = N + 1
    BY <2>1, <2>2
  <2> QED
    BY <2>2, <2>3, <2>4 DEF Reads
<1> QED
  BY <1>1, <1>2

-----------------------------------------------------------------------------
(* matchSegments.                                                          *)

MatchStep(pat, name, match, x) ==
  LET i == x[1]
      j == x[2]
  IN  IF i > Len(pat) THEN j > Len(name)
      ELSE IF pat[i] = DoubleStar
      THEN i = Len(pat) \/ \E k \in j..Len(name) + 1 : match[<<i + 1, k>>]
      ELSE /\ j <= Len(name) /\ matchSegment(pat[i], name[j])
           /\ match[<<i + 1, j + 1>>]

Match(pat, name) ==
  CHOOSE match : match = [x \in Nat \X Nat |-> MatchStep(pat, name, match, x)]

\* matchSegments starts at the beginning of both.
LEMMA MatchSegmentsIsMatch ==
  ASSUME NEW pat, NEW name
  PROVE  matchSegments(pat, name) = Match(pat, name)[<<1, 1>>]
BY SMT DEF matchSegments, Match, MatchStep

MatchesIn(pat, name, U, x) ==
  LET i == x[1]
      j == x[2]
  IN  IF i > Len(pat) THEN j > Len(name)
      ELSE IF pat[i] = DoubleStar
      THEN i = Len(pat) \/ \E k \in j..Len(name) + 1 : <<i + 1, k>> \in U
      ELSE /\ j <= Len(name) /\ matchSegment(pat[i], name[j])
           /\ <<i + 1, j + 1>> \in U

\* The recursion, as an equation.
LEMMA MatchEquation ==
  ASSUME NEW pat, NEW name, Len(pat) \in Nat, Len(name) \in Nat
  PROVE  \A x \in Nat \X Nat :
           Match(pat, name)[x] = MatchStep(pat, name, Match(pat, name), x)
<1> DEFINE D    == Nat \X Nat
           F(U) == [x \in D |-> x \in U]
           P(U, x) == MatchesIn(pat, name, U, x)
           G    == [U \in SUBSET D |-> {x \in D : P(U, x)}]
           Q(f) == f = [x \in Nat \X Nat |-> MatchStep(pat, name, f, x)]
<1>1. ASSUME NEW U \in SUBSET D, NEW x \in D
      PROVE  MatchStep(pat, name, F(U), x) = MatchesIn(pat, name, U, x)
  <2>1. x[1] \in Nat /\ x[2] \in Nat
    OBVIOUS
  <2>2. F(U)[<<x[1] + 1, x[2] + 1>>] = (<<x[1] + 1, x[2] + 1>> \in U)
    BY <2>1
  <2>3. \A k \in x[2]..Len(name) + 1 : F(U)[<<x[1] + 1, k>>] = (<<x[1] + 1, k>> \in U)
    BY <2>1
  <2> HIDE DEF F, D
  <2> QED
    BY <2>2, <2>3, Zenon DEF MatchStep, MatchesIn
<1>2. \E L \in SUBSET D : G[L] = L
  <2>1. G \in [SUBSET D -> SUBSET D]
    OBVIOUS
  <2>2. ASSUME NEW U \in SUBSET D, NEW V \in SUBSET D, U \subseteq V, NEW x, P(U, x)
        PROVE  P(V, x)
    BY <2>2, Zenon DEF MatchesIn
  <2>3. \A U, V \in SUBSET D : U \subseteq V => G[U] \subseteq G[V]
    <3> HIDE DEF P, D
    <3> QED
      BY <2>2
  <2> HIDE DEF G, D
  <2> QED
    BY <2>1, <2>3, FixedPoint
<1>3. PICK L \in SUBSET D : G[L] = L
  BY <1>2
<1>4. \A x \in D : x \in L <=> P(L, x)
  <2> HIDE DEF P, D
  <2> QED
    BY <1>3
<1>5. \A x \in D : MatchStep(pat, name, F(L), x) = (x \in L)
  <2> TAKE x \in D
  <2>1. MatchStep(pat, name, F(L), x) = MatchesIn(pat, name, L, x)
    BY <1>1
  <2>2. MatchesIn(pat, name, L, x) \in BOOLEAN
    <3>1. CASE x[1] > Len(pat)
      BY <3>1 DEF MatchesIn
    <3>2. CASE ~(x[1] > Len(pat)) /\ pat[x[1]] = DoubleStar
      BY <3>2 DEF MatchesIn
    <3>3. CASE ~(x[1] > Len(pat)) /\ pat[x[1]] # DoubleStar
      BY <3>3 DEF MatchesIn
    <3> QED
      BY <3>1, <3>2, <3>3
  <2>3. MatchesIn(pat, name, L, x) <=> x \in L
    BY <1>4
  <2> HIDE DEF D, F
  <2> QED
    BY <2>1, <2>2, <2>3
<1>6. Q(F(L))
  BY <1>5, Zenon
<1>7. Match(pat, name) = CHOOSE f : Q(f)
  BY DEF Match
<1>8. Q(Match(pat, name))
  <2> HIDE DEF Q
  <2> QED
    BY <1>6, <1>7, Zenon
<1> QED
  BY <1>8

\* Where it starts is where the rest of the pattern reads the rest of the name.
LEMMA MatchReads ==
  ASSUME NEW pat, NEW name, Len(pat) \in Nat, Len(name) \in Nat, NEW fits,
         \A i \in 1 .. Len(pat), j \in 1 .. Len(name) :
           matchSegment(pat[i], name[j]) <=> <<i, j>> \in fits
  PROVE  LET P   == Len(pat)
             N   == Len(name)
             any == {i \in 1 .. P : pat[i] = DoubleStar}
         IN  \A i \in 1 .. P + 1, j \in 1 .. N + 1 :
               Match(pat, name)[<<i, j>>] <=> Reads(P, N, any, fits, i, j)
<1> DEFINE P    == Len(pat)
           N    == Len(name)
           any  == {i \in 1 .. P : pat[i] = DoubleStar}
           Goal == \A i \in 1 .. P + 1, j \in 1 .. N + 1 :
                     Match(pat, name)[<<i, j>>] <=> Reads(P, N, any, fits, i, j)
<1> SUFFICES Goal
  BY Zenon
<1>0. P \in Nat /\ N \in Nat /\ P = Len(pat) /\ N = Len(name)
      /\ any = {i \in 1 .. P : pat[i] = DoubleStar}
      /\ \A i \in 1 .. P, j \in 1 .. N :
           i \notin any => (matchSegment(pat[i], name[j]) <=> <<i, j>> \in fits)
  OBVIOUS
<1> HIDE DEF P, N, any
<1> USE <1>0
<1> DEFINE M(i, j) == Match(pat, name)[<<i, j>>]
           R(i, j) == Reads(P, N, any, fits, i, j)
           T       == {d \in 0 .. P : \E j \in 1 .. N + 1 : ~(M(P + 1 - d, j) <=> R(P + 1 - d, j))}
<1>1. ASSUME NEW i \in 1 .. P + 1, NEW j \in 1 .. N + 1
      PROVE  M(i, j) <=> IF i > P THEN j > N
                         ELSE IF i \in any THEN i = P \/ \E k \in j .. N + 1 : M(i + 1, k)
                         ELSE j <= N /\ <<i, j>> \in fits /\ M(i + 1, j + 1)
  <2>1. <<i, j>> \in Nat \X Nat
    OBVIOUS
  <2>2. M(i, j) = MatchStep(pat, name, Match(pat, name), <<i, j>>)
    BY <2>1, MatchEquation
  <2>3. MatchStep(pat, name, Match(pat, name), <<i, j>>) <=>
          IF i > P THEN j > N
          ELSE IF pat[i] = DoubleStar THEN i = P \/ \E k \in j .. N + 1 : M(i + 1, k)
          ELSE j <= N /\ matchSegment(pat[i], name[j]) /\ M(i + 1, j + 1)
    BY Zenon DEF MatchStep
  <2> HIDE DEF M
  <2>4. CASE i > P
    BY <2>2, <2>3, <2>4
  <2>5. CASE ~(i > P) /\ i \in any
    BY <2>2, <2>3, <2>5
  <2>6. CASE ~(i > P) /\ i \notin any
    <3>1. pat[i] # DoubleStar /\ i \in 1 .. P
      BY <2>6
    <3>2. j <= N => (matchSegment(pat[i], name[j]) <=> <<i, j>> \in fits)
      BY <2>6, <3>1
    <3> QED
      BY <2>2, <2>3, <2>6, <3>1, <3>2
  <2> QED
    BY <2>4, <2>5, <2>6
<1> HIDE DEF M
<1>2. T = {}
  <2> SUFFICES ASSUME T # {} PROVE FALSE
    OBVIOUS
  <2>1. PICK d \in T : \A e \in T : d <= e
    <3>1. T \in SUBSET Nat
      OBVIOUS
    <3> HIDE DEF T
    <3> QED
      BY <3>1, LeastNumber
  <2>2. PICK j \in 1 .. N + 1 : ~(M(P + 1 - d, j) <=> R(P + 1 - d, j))
    OBVIOUS
  <2>3. CASE d = 0
    <3>1. P + 1 - d = P + 1
      BY <2>3
    <3>2. R(P + 1, j) <=> j = N + 1
      BY ReadsEnd
    <3>3. M(P + 1, j) <=> j > N
      <4>1. P + 1 \in 1 .. P + 1 /\ P + 1 > P
        OBVIOUS
      <4> QED
        BY <1>1, <4>1
    <3> HIDE DEF R
    <3> QED
      BY <2>2, <3>1, <3>2, <3>3
  <2>4. CASE d # 0
    <3> DEFINE i == P + 1 - d
    <3>1. i \in 1 .. P /\ i + 1 = P + 1 - (d - 1) /\ d - 1 \in 0 .. P /\ i \in 1 .. P + 1
      BY <2>4
    <3>2. d - 1 \notin T
      <4>1. d \in Nat
        OBVIOUS
      <4> HIDE DEF T, i
      <4> QED
        BY <2>1, <4>1
    <3>3. \A k \in 1 .. N + 1 : M(i + 1, k) <=> R(i + 1, k)
      <4> HIDE DEF R, i
      <4> QED
        BY <3>1, <3>2
    <3>4. CASE i \in any
      <4>1. R(i, j) <=> \E k \in j .. N + 1 : R(i + 1, k)
        <5> HIDE DEF i
        <5> QED
          BY <3>1, <3>4, ReadsAny
      <4>2. i = P => R(i + 1, N + 1)
        BY ReadsEnd
      <4>3. M(i, j) <=> (i = P \/ \E k \in j .. N + 1 : M(i + 1, k))
        <5>1. ~(i > P)
          BY <3>1
        <5> HIDE DEF i, R
        <5> QED
          BY <1>1, <3>1, <3>4, <5>1
      <4>4. j .. N + 1 \subseteq 1 .. N + 1 /\ N + 1 \in j .. N + 1
        OBVIOUS
      <4> HIDE DEF R, i
      <4> QED
        BY <2>2, <3>3, <4>1, <4>2, <4>3, <4>4 DEF i
    <3>5. CASE i \notin any
      <4>1. R(i, j) <=> j <= N /\ <<i, j>> \in fits /\ R(i + 1, j + 1)
        <5> HIDE DEF i
        <5> QED
          BY <3>1, <3>5, ReadsOne
      <4>2. M(i, j) <=> j <= N /\ <<i, j>> \in fits /\ M(i + 1, j + 1)
        <5>1. ~(i > P)
          BY <3>1
        <5> HIDE DEF i, R
        <5> QED
          BY <1>1, <3>1, <3>5, <5>1
      <4>3. j <= N => j + 1 \in 1 .. N + 1
        OBVIOUS
      <4> HIDE DEF R, i
      <4> QED
        BY <2>2, <3>3, <4>1, <4>2, <4>3 DEF i
    <3> QED
      BY <3>4, <3>5
  <2> QED
    BY <2>3, <2>4
<1>3. ASSUME NEW i \in 1 .. P + 1, NEW j \in 1 .. N + 1
      PROVE  M(i, j) <=> R(i, j)
  <2> DEFINE d == P + 1 - i
  <2>1. d \in 0 .. P /\ P + 1 - d = i
    OBVIOUS
  <2>2. M(P + 1 - d, j) <=> R(P + 1 - d, j)
    <3> HIDE DEF R, d
    <3> QED
      BY <1>2, <2>1
  <2> HIDE DEF d, R
  <2> QED
    BY <2>1, <2>2
<1> QED
  BY <1>3 DEF M

-----------------------------------------------------------------------------
(* Stretches without a wildcard.                                           *)

\* A stretch without a wildcard reads as many symbols as it has.
LEMMA StretchReads ==
  ASSUME NEW P \in Nat, NEW N \in Nat, NEW any, NEW fits,
         NEW a \in 1 .. P + 1, NEW n \in Nat, a + n <= P + 1, NEW j \in 1 .. N + 1,
         \A k \in 0 .. n - 1 : a + k \notin any,
         Reads(P, N, any, fits, a, j)
  PROVE  /\ j + n <= N + 1
         /\ Reads(P, N, any, fits, a + n, j + n)
         /\ \A k \in 0 .. n - 1 : <<a + k, j + k>> \in fits
<1> DEFINE R(i, k) == Reads(P, N, any, fits, i, k)
           T       == {d \in 0 .. n : ~(j + d <= N + 1 /\ R(a + d, j + d))}
<1> HIDE DEF R
<1>1. ASSUME NEW d \in 0 .. n - 1, j + d <= N + 1, R(a + d, j + d)
      PROVE  j + d <= N /\ <<a + d, j + d>> \in fits /\ R(a + d + 1, j + d + 1)
  <2>1. a + d \in 1 .. P /\ j + d \in 1 .. N + 1 /\ a + d \notin any
    BY <1>1
  <2> QED
    BY <1>1, <2>1, ReadsOne DEF R
<1>2. T = {}
  <2> SUFFICES ASSUME T # {} PROVE FALSE
    OBVIOUS
  <2>1. PICK d \in T : \A e \in T : d <= e
    <3>1. T \in SUBSET Nat
      OBVIOUS
    <3> HIDE DEF T
    <3> QED
      BY <3>1, LeastNumber
  <2>2. d # 0
    BY DEF R
  <2>3. d - 1 \in 0 .. n - 1 /\ d - 1 \notin T
    BY <2>1, <2>2
  <2>4. j + (d - 1) <= N + 1 /\ R(a + (d - 1), j + (d - 1))
    BY <2>3
  <2>5. j + (d - 1) <= N /\ R(a + (d - 1) + 1, j + (d - 1) + 1)
    BY <1>1, <2>3, <2>4
  <2>6. a + (d - 1) + 1 = a + d /\ j + (d - 1) + 1 = j + d
    OBVIOUS
  <2> QED
    BY <2>5, <2>6
<1>3. \A d \in 0 .. n : j + d <= N + 1 /\ R(a + d, j + d)
  BY <1>2
<1> HIDE DEF T
<1>4. \A k \in 0 .. n - 1 : <<a + k, j + k>> \in fits
  BY <1>1, <1>3
<1> QED
  BY <1>3, <1>4 DEF R

\* And if these fit, what is left decides.
LEMMA StretchFits ==
  ASSUME NEW P \in Nat, NEW N \in Nat, NEW any, NEW fits,
         NEW a \in 1 .. P + 1, NEW n \in Nat, a + n <= P + 1, NEW j \in 1 .. N + 1,
         j + n <= N + 1,
         \A k \in 0 .. n - 1 : a + k \notin any /\ <<a + k, j + k>> \in fits,
         Reads(P, N, any, fits, a + n, j + n)
  PROVE  Reads(P, N, any, fits, a, j)
<1> DEFINE R(i, k) == Reads(P, N, any, fits, i, k)
           T       == {d \in 0 .. n : ~ R(a + n - d, j + n - d)}
<1> HIDE DEF R
<1>1. T = {}
  <2> SUFFICES ASSUME T # {} PROVE FALSE
    OBVIOUS
  <2>1. PICK d \in T : \A e \in T : d <= e
    <3>1. T \in SUBSET Nat
      OBVIOUS
    <3> HIDE DEF T
    <3> QED
      BY <3>1, LeastNumber
  <2>2. d # 0
    <3>1. a + n - 0 = a + n /\ j + n - 0 = j + n
      OBVIOUS
    <3> QED
      BY <3>1 DEF R
  <2>3. d - 1 \in 0 .. n /\ d - 1 \notin T
    BY <2>1, <2>2
  <2> DEFINE k == n - d
  <2>4. k \in 0 .. n - 1 /\ a + k \in 1 .. P /\ j + k \in 1 .. N
        /\ a + k + 1 = a + n - (d - 1) /\ j + k + 1 = j + n - (d - 1)
        /\ a + k = a + n - d /\ j + k = j + n - d
    BY <2>2
  <2>5. R(a + k + 1, j + k + 1)
    BY <2>3, <2>4
  <2>6. R(a + k, j + k)
    <3>1. a + k \notin any /\ <<a + k, j + k>> \in fits /\ j + k <= N /\ j + k \in 1 .. N + 1
      BY <2>4
    <3> HIDE DEF k
    <3> QED
      BY <2>4, <2>5, <3>1, ReadsOne DEF R
  <2> QED
    BY <2>4, <2>6
<1>2. R(a + n - n, j + n - n)
  <2>1. n \in 0 .. n
    OBVIOUS
  <2> QED
    BY <1>1, <2>1
<1>3. a + n - n = a /\ j + n - n = j
  OBVIOUS
<1> QED
  BY <1>2, <1>3 DEF R

\* At the end of the name only wildcards are left.
LEMMA ReadsNothing ==
  ASSUME NEW P \in Nat, NEW N \in Nat, NEW any, NEW fits, NEW i \in 1 .. P + 1
  PROVE  Reads(P, N, any, fits, i, N + 1) <=> \A k \in i .. P : k \in any
<1> DEFINE R(h)  == Reads(P, N, any, fits, h, N + 1)
           S(h)  == \A k \in h .. P : k \in any
           T     == {d \in 0 .. P : ~(R(P + 1 - d) <=> S(P + 1 - d))}
<1>1. T = {}
  <2> SUFFICES ASSUME T # {} PROVE FALSE
    OBVIOUS
  <2>1. PICK d \in T : \A e \in T : d <= e
    <3>1. T \in SUBSET Nat
      OBVIOUS
    <3> HIDE DEF T
    <3> QED
      BY <3>1, LeastNumber
  <2> DEFINE h == P + 1 - d
  <2>2. CASE d = 0
    <3>1. h = P + 1
      BY <2>2
    <3>2. R(P + 1) /\ S(P + 1)
      BY ReadsEnd
    <3> HIDE DEF R, S
    <3> QED
      BY <3>1, <3>2
  <2>3. CASE d # 0
    <3>1. d - 1 \in 0 .. P /\ d - 1 \notin T /\ h \in 1 .. P /\ P + 1 - (d - 1) = h + 1
      <4> HIDE DEF R, S
      <4> QED
        BY <2>1, <2>3
    <3>2. R(h + 1) <=> S(h + 1)
      <4> HIDE DEF R, S, h
      <4> QED
        BY <3>1
    <3>3. S(h) <=> h \in any /\ S(h + 1)
      <4> HIDE DEF h
      <4>1. \A k : k \in h .. P <=> k = h \/ k \in h + 1 .. P
        BY <3>1
      <4> QED
        BY <4>1
    <3>4. R(h) <=> h \in any /\ R(h + 1)
      <4>1. CASE h \in any
        <5>1. R(h) <=> \E k \in N + 1 .. N + 1 : Reads(P, N, any, fits, h + 1, k)
          <6> HIDE DEF h
          <6> QED
            BY <3>1, <4>1, ReadsAny
        <5>2. \A k : k \in N + 1 .. N + 1 <=> k = N + 1
          OBVIOUS
        <5> HIDE DEF h
        <5> QED
          BY <4>1, <5>1, <5>2
      <4>2. CASE h \notin any
        <5> HIDE DEF h
        <5>1. N + 1 \in 1 .. N + 1 /\ ~(N + 1 <= N)
          OBVIOUS
        <5>2. ~ R(h)
          BY <3>1, <4>2, <5>1, ReadsOne
        <5> QED
          BY <4>2, <5>2
      <4> QED
        BY <4>1, <4>2
    <3> HIDE DEF R, S
    <3> QED
      BY <3>2, <3>3, <3>4
  <2> QED
    BY <2>2, <2>3
<1> DEFINE d == P + 1 - i
<1>2. d \in 0 .. P /\ P + 1 - d = i
  OBVIOUS
<1>3. R(P + 1 - d) <=> S(P + 1 - d)
  <2> HIDE DEF R, S, d
  <2> QED
    BY <1>1, <1>2
<1> HIDE DEF d
<1> QED
  BY <1>2, <1>3

-----------------------------------------------------------------------------
(* matchSegment.                                                           *)

LoopStep(pattern, name, loop, x) ==
  LET px     == x[1]
      nx     == x[2]
      star   == x[3]
      resume == x[4]
  IN  IF nx > Len(name) THEN \A i \in px..Len(pattern) : pattern[i] = "*"
      ELSE IF px <= Len(pattern) /\ pattern[px] \in {"?", name[nx]}
      THEN loop[<<px + 1, nx + 1, star, resume>>]
      ELSE IF px <= Len(pattern) /\ pattern[px] = "*"
      THEN loop[<<px + 1, nx, px, nx>>]
      ELSE star > 0 /\ loop[<<star + 1, resume + 1, star, resume + 1>>]

Loop(pattern, name) ==
  CHOOSE loop : loop = [x \in Nat \X Nat \X Nat \X Nat |-> LoopStep(pattern, name, loop, x)]

\* matchSegment starts with no `*' seen.
LEMMA MatchSegmentIsLoop ==
  ASSUME NEW pattern, NEW name
  PROVE  matchSegment(pattern, name) = Loop(pattern, name)[<<1, 1, 0, 0>>]
BY SMT DEF matchSegment, Loop, LoopStep

LoopsIn(pattern, name, U, x) ==
  LET px     == x[1]
      nx     == x[2]
      star   == x[3]
      resume == x[4]
  IN  IF nx > Len(name) THEN \A i \in px..Len(pattern) : pattern[i] = "*"
      ELSE IF px <= Len(pattern) /\ pattern[px] \in {"?", name[nx]}
      THEN <<px + 1, nx + 1, star, resume>> \in U
      ELSE IF px <= Len(pattern) /\ pattern[px] = "*"
      THEN <<px + 1, nx, px, nx>> \in U
      ELSE star > 0 /\ <<star + 1, resume + 1, star, resume + 1>> \in U

\* The loop, as an equation.
LEMMA LoopEquation ==
  ASSUME NEW pattern, NEW name, Len(pattern) \in Nat, Len(name) \in Nat
  PROVE  \A x \in Nat \X Nat \X Nat \X Nat :
           Loop(pattern, name)[x] = LoopStep(pattern, name, Loop(pattern, name), x)
<1> DEFINE D    == Nat \X Nat \X Nat \X Nat
           F(U) == [x \in D |-> x \in U]
           P(U, x) == LoopsIn(pattern, name, U, x)
           G    == [U \in SUBSET D |-> {x \in D : P(U, x)}]
           Q(f) == f = [x \in Nat \X Nat \X Nat \X Nat |-> LoopStep(pattern, name, f, x)]
<1>1. ASSUME NEW U \in SUBSET D, NEW x \in D
      PROVE  LoopStep(pattern, name, F(U), x) = LoopsIn(pattern, name, U, x)
  <2> DEFINE y1 == <<x[1] + 1, x[2] + 1, x[3], x[4]>>
             y2 == <<x[1] + 1, x[2], x[1], x[2]>>
             y3 == <<x[3] + 1, x[4] + 1, x[3], x[4] + 1>>
  <2>1. y1 \in D /\ y2 \in D /\ y3 \in D
    OBVIOUS
  <2>2. \A y \in D : F(U)[y] = (y \in U)
    OBVIOUS
  <2>3. F(U)[y1] = (y1 \in U) /\ F(U)[y2] = (y2 \in U) /\ F(U)[y3] = (y3 \in U)
    <3> HIDE DEF F, D, y1, y2, y3
    <3> QED
      BY <2>1, <2>2
  <2> HIDE DEF F, D
  <2> QED
    BY <2>3, Zenon DEF LoopStep, LoopsIn
<1>2. \E L \in SUBSET D : G[L] = L
  <2>1. G \in [SUBSET D -> SUBSET D]
    OBVIOUS
  <2>2. ASSUME NEW U \in SUBSET D, NEW V \in SUBSET D, U \subseteq V, NEW x, P(U, x)
        PROVE  P(V, x)
    BY <2>2, Zenon DEF LoopsIn
  <2>3. \A U, V \in SUBSET D : U \subseteq V => G[U] \subseteq G[V]
    <3> HIDE DEF P, D
    <3> QED
      BY <2>2
  <2> HIDE DEF G, D
  <2> QED
    BY <2>1, <2>3, FixedPoint
<1>3. PICK L \in SUBSET D : G[L] = L
  BY <1>2
<1>4. \A x \in D : x \in L <=> P(L, x)
  <2> HIDE DEF P, D
  <2> QED
    BY <1>3
<1>5. \A x \in D : LoopStep(pattern, name, F(L), x) = (x \in L)
  <2> TAKE x \in D
  <2>1. LoopStep(pattern, name, F(L), x) = LoopsIn(pattern, name, L, x)
    BY <1>1
  <2>2. LoopsIn(pattern, name, L, x) \in BOOLEAN
    <3>1. CASE x[2] > Len(name)
      BY <3>1 DEF LoopsIn
    <3>2. CASE ~(x[2] > Len(name)) /\ x[1] <= Len(pattern) /\ pattern[x[1]] \in {"?", name[x[2]]}
      BY <3>2 DEF LoopsIn
    <3>3. CASE /\ ~(x[2] > Len(name))
               /\ ~(x[1] <= Len(pattern) /\ pattern[x[1]] \in {"?", name[x[2]]})
               /\ x[1] <= Len(pattern) /\ pattern[x[1]] = "*"
      <4>1. LoopsIn(pattern, name, L, x) = (<<x[1] + 1, x[2], x[1], x[2]>> \in L)
        BY <3>3, Zenon DEF LoopsIn
      <4> QED
        BY <4>1
    <3>4. CASE /\ ~(x[2] > Len(name))
               /\ ~(x[1] <= Len(pattern) /\ pattern[x[1]] \in {"?", name[x[2]]})
               /\ ~(x[1] <= Len(pattern) /\ pattern[x[1]] = "*")
      BY <3>4 DEF LoopsIn
    <3> QED
      BY <3>1, <3>2, <3>3, <3>4
  <2>3. LoopsIn(pattern, name, L, x) <=> x \in L
    BY <1>4
  <2> HIDE DEF D, F
  <2> QED
    BY <2>1, <2>2, <2>3
<1>6. Q(F(L))
  BY <1>5, Zenon
<1>7. Loop(pattern, name) = CHOOSE f : Q(f)
  BY DEF Loop
<1>8. Q(Loop(pattern, name))
  <2> HIDE DEF Q
  <2> QED
    BY <1>6, <1>7, Zenon
<1> QED
  BY <1>8

\* Where the loop is: behind the last `*' a stretch has been read that fits, from
\* `resume' on; and the whole pattern reads the whole name iff it does so from that `*'.
LoopInv(P, N, any, fits, x) ==
  LET px   == x[1]
      nx   == x[2]
      star == x[3]
      from == IF star = 0 THEN 1 ELSE x[4]
  IN  /\ px \in 1 .. P + 1 /\ nx \in 1 .. N + 1 /\ star \in 0 .. P /\ star < px
      /\ x[4] \in 0 .. N + 1 /\ from \in 1 .. N + 1
      /\ nx = from + (px - (star + 1))
      /\ \A k \in 0 .. px - (star + 1) - 1 :
           star + 1 + k \notin any /\ <<star + 1 + k, from + k>> \in fits
      /\ star # 0 =>
           /\ star \in any
           /\ Reads(P, N, any, fits, 1, 1) <=> Reads(P, N, any, fits, star, from)

\* What is left to read, if what follows the last `*' is read from where it is.
LEMMA LoopReads ==
  ASSUME NEW P \in Nat, NEW N \in Nat, NEW any, NEW fits, NEW x, LoopInv(P, N, any, fits, x)
  PROVE  /\ Reads(P, N, any, fits, x[1], x[2]) => Reads(P, N, any, fits, 1, 1)
         /\ x[3] = 0 => (Reads(P, N, any, fits, 1, 1) <=> Reads(P, N, any, fits, x[1], x[2]))
         /\ x[3] # 0 /\ Reads(P, N, any, fits, 1, 1) =>
              \E d \in Nat :
                /\ x[4] + d \in 1 .. N + 1 /\ x[2] + d \in 1 .. N + 1
                /\ Reads(P, N, any, fits, x[3] + 1, x[4] + d)
                /\ Reads(P, N, any, fits, x[1], x[2] + d)
<1> DEFINE R(i, j) == Reads(P, N, any, fits, i, j)
           px   == x[1]
           nx   == x[2]
           star == x[3]
           from == IF star = 0 THEN 1 ELSE x[4]
           n    == px - (star + 1)
           a    == star + 1
<1>1. /\ px \in 1 .. P + 1 /\ nx \in 1 .. N + 1 /\ star \in 0 .. P /\ star < px
      /\ x[4] \in 0 .. N + 1 /\ from \in 1 .. N + 1 /\ nx = from + n
      /\ \A k \in 0 .. n - 1 : a + k \notin any /\ <<a + k, from + k>> \in fits
      /\ star # 0 => star \in any /\ (R(1, 1) <=> R(star, from))
  BY DEF LoopInv
<1>2. n \in Nat /\ a \in 1 .. P + 1 /\ a + n = px
  BY <1>1
<1> HIDE DEF px, nx, star, from, n, a
<1>3. R(px, nx) => R(a, from)
  <2>1. a + n <= P + 1 /\ from + n <= N + 1
    BY <1>1, <1>2
  <2> QED
    BY <1>1, <1>2, <2>1, StretchFits
<1>4. ASSUME NEW j \in 1 .. N + 1, R(a, j)
      PROVE  j + n <= N + 1 /\ R(px, j + n)
  <2>1. a + n <= P + 1
    BY <1>1, <1>2
  <2> QED
    BY <1>1, <1>2, <1>4, <2>1, StretchReads
<1>5. CASE star = 0
  <2>1. a = 1 /\ from = 1
    BY <1>1, <1>5 DEF a, from
  <2>2. 1 \in 1 .. N + 1
    OBVIOUS
  <2>3. R(1, 1) <=> R(px, nx)
    <3> HIDE DEF R
    <3> QED
      BY <1>1, <1>3, <1>4, <2>1, <2>2
  <2> QED
    BY <1>5, <2>3 DEF px, nx, star
<1>6. CASE star # 0
  <2>1. from = x[4] /\ star \in 1 .. P /\ star \in any
    BY <1>1, <1>6 DEF from
  <2>2. R(star, from) <=> \E k \in from .. N + 1 : R(star + 1, k)
    BY <1>1, <2>1, ReadsAny
  <2>3. R(px, nx) => R(1, 1)
    <3>1. from \in from .. N + 1
      BY <1>1
    <3> HIDE DEF R
    <3> QED
      BY <1>1, <1>3, <1>6, <2>2, <3>1 DEF a
  <2>4. ASSUME R(1, 1)
        PROVE  \E d \in Nat : /\ from + d \in 1 .. N + 1 /\ nx + d \in 1 .. N + 1
                              /\ R(star + 1, from + d) /\ R(px, nx + d)
    <3>1. PICK k \in from .. N + 1 : R(star + 1, k)
      <4> HIDE DEF R
      <4> QED
        BY <1>1, <1>6, <2>2, <2>4
    <3>2. k \in 1 .. N + 1 /\ k - from \in Nat /\ from + (k - from) = k
      BY <1>1
    <3>3. k + n <= N + 1 /\ R(px, k + n)
      <4> HIDE DEF R
      <4> QED
        BY <1>4, <3>1, <3>2 DEF a
    <3>4. nx + (k - from) = k + n /\ k + n \in 1 .. N + 1
      BY <1>1, <1>2, <3>2, <3>3
    <3> HIDE DEF R
    <3> QED
      BY <3>1, <3>2, <3>3, <3>4
  <2> QED
    BY <1>6, <2>1, <2>3, <2>4 DEF px, nx, star
<1> QED
  BY <1>5, <1>6

\* Where the loop goes on: its invariant holds again.
LEMMA LoopKeepsInv ==
  ASSUME NEW P \in Nat, NEW N \in Nat, NEW any, NEW fits, NEW px \in Nat, NEW nx \in Nat,
         NEW star \in Nat, NEW resume \in Nat,
         LoopInv(P, N, any, fits, <<px, nx, star, resume>>), nx <= N
  PROVE  /\ px <= P /\ px \notin any /\ <<px, nx>> \in fits =>
              LoopInv(P, N, any, fits, <<px + 1, nx + 1, star, resume>>)
         /\ px <= P /\ px \in any => LoopInv(P, N, any, fits, <<px + 1, nx, px, nx>>)
         /\ (px <= P => px \notin any /\ <<px, nx>> \notin fits) =>
              IF star > 0
              THEN LoopInv(P, N, any, fits, <<star + 1, resume + 1, star, resume + 1>>)
              ELSE ~ Reads(P, N, any, fits, 1, 1)
<1> DEFINE R(i, j) == Reads(P, N, any, fits, i, j)
           from    == IF star = 0 THEN 1 ELSE resume
           n       == px - (star + 1)
<1>1. /\ px \in 1 .. P + 1 /\ nx \in 1 .. N + 1 /\ star \in 0 .. P /\ star < px
      /\ resume \in 0 .. N + 1 /\ from \in 1 .. N + 1 /\ nx = from + n
      /\ \A k \in 0 .. n - 1 : star + 1 + k \notin any /\ <<star + 1 + k, from + k>> \in fits
      /\ star # 0 => star \in any /\ (R(1, 1) <=> R(star, from))
  BY DEF LoopInv
<1>2. /\ R(px, nx) => R(1, 1)
      /\ star = 0 => (R(1, 1) <=> R(px, nx))
      /\ star # 0 /\ R(1, 1) =>
           \E d \in Nat : /\ resume + d \in 1 .. N + 1 /\ nx + d \in 1 .. N + 1
                          /\ R(star + 1, resume + d) /\ R(px, nx + d)
  BY LoopReads
<1> HIDE DEF R
<1>3. ASSUME px <= P, px \notin any, <<px, nx>> \in fits
      PROVE  LoopInv(P, N, any, fits, <<px + 1, nx + 1, star, resume>>)
  <2>1. ASSUME NEW k \in 0 .. (px + 1) - (star + 1) - 1
        PROVE  star + 1 + k \notin any /\ <<star + 1 + k, from + k>> \in fits
    <3>1. CASE k = n
      <4>1. star + 1 + k = px /\ from + k = nx
        BY <1>1, <3>1
      <4> HIDE DEF from, n
      <4> QED
        BY <1>3, <4>1
    <3>2. CASE k # n
      <4>1. k \in 0 .. n - 1
        BY <1>1, <3>2
      <4> HIDE DEF from, n
      <4> QED
        BY <1>1, <4>1
    <3> QED
      BY <3>1, <3>2
  <2>2. /\ px + 1 \in 1 .. P + 1 /\ nx + 1 \in 1 .. N + 1 /\ star < px + 1
        /\ nx + 1 = from + ((px + 1) - (star + 1))
    BY <1>1, <1>3
  <2> QED
    BY <1>1, <2>1, <2>2, Zenon DEF LoopInv, R
<1>4. ASSUME px <= P, px \in any
      PROVE  LoopInv(P, N, any, fits, <<px + 1, nx, px, nx>>)
  <2>1. R(px, nx) <=> \E k \in nx .. N + 1 : R(px + 1, k)
    BY <1>1, <1>4, ReadsAny DEF R
  <2>2. ASSUME NEW d \in Nat, nx + d \in 1 .. N + 1, R(px, nx + d) PROVE R(px, nx)
    <3>1. PICK k \in nx + d .. N + 1 : R(px + 1, k)
      BY <1>1, <1>4, <2>2, ReadsAny DEF R
    <3>2. k \in nx .. N + 1
      BY <1>1
    <3> QED
      BY <2>1, <3>1, <3>2
  <2>3. R(1, 1) <=> R(px, nx)
    BY <1>2, <2>2
  <2>4. /\ px + 1 \in 1 .. P + 1 /\ px \in 0 .. P /\ px < px + 1 /\ nx \in 0 .. N + 1
        /\ nx = nx + ((px + 1) - (px + 1)) /\ px # 0
    BY <1>1, <1>4
  <2>5. \A k \in 0 .. (px + 1) - (px + 1) - 1 : FALSE
    BY <1>1
  <2>6. (IF px = 0 THEN 1 ELSE nx) = nx
    BY <2>4
  <2> QED
    BY <1>1, <1>4, <2>3, <2>4, <2>5, <2>6 DEF LoopInv, R
<1>5. ASSUME px <= P => px \notin any /\ <<px, nx>> \notin fits
      PROVE  IF star > 0
             THEN LoopInv(P, N, any, fits, <<star + 1, resume + 1, star, resume + 1>>)
             ELSE ~ R(1, 1)
  <2>1. ~ R(px, nx)
    <3>1. CASE px <= P
      <4>1. px \in 1 .. P
        BY <1>1, <3>1
      <4> QED
        BY <1>1, <1>5, <3>1, <4>1, ReadsOne DEF R
    <3>2. CASE ~(px <= P)
      <4>1. px = P + 1 /\ nx # N + 1
        BY <1>1, <3>2
      <4> QED
        BY <1>1, <4>1, ReadsEnd DEF R
    <3> QED
      BY <3>1, <3>2
  <2>2. CASE star = 0
    BY <1>2, <2>1, <2>2
  <2>3. CASE star # 0
    <3>1. star > 0 /\ star \in 1 .. P /\ star \in any /\ from = resume /\ resume + 1 \in 1 .. N + 1
      BY <1>1, <2>3
    <3>2. R(1, 1) <=> R(star, resume)
      BY <1>1, <3>1
    <3>3. R(star, resume) <=> \E k \in resume .. N + 1 : R(star + 1, k)
      BY <1>1, <3>1, ReadsAny DEF R
    <3>4. R(star, resume + 1) <=> \E k \in resume + 1 .. N + 1 : R(star + 1, k)
      BY <1>1, <3>1, ReadsAny DEF R
    <3>5. R(star, resume + 1) => R(1, 1)
      <4>1. \A k \in resume + 1 .. N + 1 : k \in resume .. N + 1
        BY <1>1
      <4> QED
        BY <3>2, <3>3, <3>4, <4>1
    <3>6. ASSUME R(1, 1) PROVE R(star, resume + 1)
      <4>1. PICK d \in Nat : /\ resume + d \in 1 .. N + 1 /\ nx + d \in 1 .. N + 1
                             /\ R(star + 1, resume + d) /\ R(px, nx + d)
        BY <1>2, <2>3, <3>6
      <4>2. d # 0
        <5>1. nx + 0 = nx
          OBVIOUS
        <5> QED
          BY <2>1, <4>1, <5>1
      <4>3. resume + d \in resume + 1 .. N + 1
        BY <4>1, <4>2
      <4> QED
        BY <3>4, <4>1, <4>3
    <3>7. /\ star + 1 \in 1 .. P + 1 /\ star < star + 1 /\ resume + 1 \in 0 .. N + 1
          /\ resume + 1 = resume + 1 + ((star + 1) - (star + 1))
      BY <1>1, <3>1
    <3>8. \A k \in 0 .. (star + 1) - (star + 1) - 1 : FALSE
      BY <1>1
    <3>9. (IF star = 0 THEN 1 ELSE resume + 1) = resume + 1
      BY <2>3
    <3>10. LoopInv(P, N, any, fits, <<star + 1, resume + 1, star, resume + 1>>)
      BY <1>1, <3>1, <3>5, <3>6, <3>7, <3>8, <3>9 DEF LoopInv, R
    <3> QED
      BY <3>1, <3>10
  <2> QED
    BY <2>2, <2>3
<1> QED
  BY <1>3, <1>4, <1>5 DEF R

\* Of the places of the loop there is one farthest on.
LEMMA Farthest ==
  ASSUME NEW S, S # {}, NEW P \in Nat, NEW N \in Nat,
         \A x \in S : x[3] \in 0 .. P /\ x[4] \in 0 .. N + 1 /\ x[1] \in 1 .. P + 1
  PROVE  \E x \in S : \A y \in S :
           /\ x[3] >= y[3]
           /\ x[3] = y[3] => x[4] >= y[4]
           /\ x[3] = y[3] /\ x[4] = y[4] => x[1] >= y[1]
<1> DEFINE A == {P - x[3] : x \in S}
<1>1. \A x \in S : P - x[3] \in Nat /\ N + 1 - x[4] \in Nat /\ P + 1 - x[1] \in Nat
  <2> TAKE x \in S
  <2>1. x[3] \in 0 .. P /\ x[4] \in 0 .. N + 1 /\ x[1] \in 1 .. P + 1
    OBVIOUS
  <2> QED
    BY <2>1
<1>2. PICK a \in A : \A m \in A : a <= m
  <2>1. A \in SUBSET Nat /\ A # {}
    BY <1>1
  <2> HIDE DEF A
  <2> QED
    BY <2>1, LeastNumber
<1> DEFINE S1 == {x \in S : P - x[3] = a}
           B  == {N + 1 - x[4] : x \in S1}
<1>3. PICK b \in B : \A m \in B : b <= m
  <2>1. B \in SUBSET Nat /\ B # {}
    BY <1>1
  <2> HIDE DEF B
  <2> QED
    BY <2>1, LeastNumber
<1> DEFINE S2 == {x \in S1 : N + 1 - x[4] = b}
           C  == {P + 1 - x[1] : x \in S2}
<1>4. PICK c \in C : \A m \in C : c <= m
  <2>1. C \in SUBSET Nat /\ C # {}
    BY <1>1
  <2> HIDE DEF C
  <2> QED
    BY <2>1, LeastNumber
<1>5. PICK x \in S2 : P + 1 - x[1] = c
  OBVIOUS
<1>6. x \in S /\ P - x[3] = a /\ N + 1 - x[4] = b /\ P + 1 - x[1] = c
  BY <1>5
<1>7. ASSUME NEW y \in S
      PROVE  /\ a <= P - y[3]
             /\ a = P - y[3] => b <= N + 1 - y[4]
             /\ a = P - y[3] /\ b = N + 1 - y[4] => c <= P + 1 - y[1]
  BY <1>2, <1>3, <1>4
<1> HIDE DEF A, B, C, S1, S2
<1>8. ASSUME NEW y \in S
      PROVE  /\ x[3] >= y[3]
             /\ x[3] = y[3] => x[4] >= y[4]
             /\ x[3] = y[3] /\ x[4] = y[4] => x[1] >= y[1]
  <2>1. /\ x[3] \in 0 .. P /\ x[4] \in 0 .. N + 1 /\ x[1] \in 1 .. P + 1
        /\ y[3] \in 0 .. P /\ y[4] \in 0 .. N + 1 /\ y[1] \in 1 .. P + 1
    BY <1>6
  <2> QED
    BY <1>6, <1>7, <2>1
<1> QED
  BY <1>6, <1>8

\* The loop tells whether the pattern reads the name, if the name has no `*'.
LEMMA LoopDecides ==
  ASSUME NEW pattern, NEW name, Len(pattern) \in Nat, Len(name) \in Nat,
         \A j \in 1 .. Len(name) : name[j] # "*"
  PROVE  LET P    == Len(pattern)
             N    == Len(name)
             any  == {i \in 1 .. P : pattern[i] = "*"}
             fits == {x \in (1 .. P) \X (1 .. N) : pattern[x[1]] \in {"?", name[x[2]]}}
         IN  \A x \in Nat \X Nat \X Nat \X Nat :
               LoopInv(P, N, any, fits, x) =>
                 (Loop(pattern, name)[x] <=> Reads(P, N, any, fits, 1, 1))
<1> DEFINE P    == Len(pattern)
           N    == Len(name)
           any  == {i \in 1 .. P : pattern[i] = "*"}
           fits == {x \in (1 .. P) \X (1 .. N) : pattern[x[1]] \in {"?", name[x[2]]}}
           Goal == \A x \in Nat \X Nat \X Nat \X Nat :
                     LoopInv(P, N, any, fits, x) =>
                       (Loop(pattern, name)[x] <=> Reads(P, N, any, fits, 1, 1))
<1> SUFFICES Goal
  BY Zenon
<1>0. P \in Nat /\ N \in Nat /\ P = Len(pattern) /\ N = Len(name)
      /\ any = {i \in 1 .. P : pattern[i] = "*"}
      /\ fits = {x \in (1 .. P) \X (1 .. N) : pattern[x[1]] \in {"?", name[x[2]]}}
      /\ \A j \in 1 .. N : name[j] # "*"
  OBVIOUS
<1> HIDE DEF P, N, any, fits
<1> USE <1>0
<1> DEFINE D    == Nat \X Nat \X Nat \X Nat
           V    == Reads(P, N, any, fits, 1, 1)
           I(x) == LoopInv(P, N, any, fits, x)
           L(x) == Loop(pattern, name)[x]
           Bad  == {x \in D : I(x) /\ ~(L(x) <=> V)}
<1> SUFFICES ASSUME Bad # {} PROVE FALSE
  OBVIOUS
<1>1. \A x \in D : I(x) => x[3] \in 0 .. P /\ x[4] \in 0 .. N + 1 /\ x[1] \in 1 .. P + 1
  BY DEF LoopInv
<1>2. PICK x \in Bad : \A y \in Bad :
        /\ x[3] >= y[3]
        /\ x[3] = y[3] => x[4] >= y[4]
        /\ x[3] = y[3] /\ x[4] = y[4] => x[1] >= y[1]
  <2>1. \A x \in Bad : x[3] \in 0 .. P /\ x[4] \in 0 .. N + 1 /\ x[1] \in 1 .. P + 1
    <3> HIDE DEF D, I, L, V
    <3> QED
      BY <1>1
  <2> HIDE DEF Bad
  <2> QED
    BY <2>1, Farthest
<1> DEFINE px     == x[1]
           nx     == x[2]
           star   == x[3]
           resume == x[4]
<1>4. x \in D /\ I(x) /\ ~(L(x) <=> V) /\ x = <<px, nx, star, resume>>
      /\ px \in Nat /\ nx \in Nat /\ star \in Nat /\ resume \in Nat
  OBVIOUS
<1>5. /\ px \in 1 .. P + 1 /\ nx \in 1 .. N + 1 /\ star \in 0 .. P /\ star < px
      /\ resume \in 0 .. N + 1
  BY <1>4 DEF LoopInv
<1>6. ASSUME NEW y \in D, I(y), L(y) <=> L(x)
      PROVE  /\ x[3] >= y[3] /\ (x[3] = y[3] => x[4] >= y[4])
             /\ x[3] = y[3] /\ x[4] = y[4] => x[1] >= y[1]
  <2>1. y \in Bad
    BY <1>4, <1>6
  <2> HIDE DEF Bad, I, L, V, D
  <2> QED
    BY <1>2, <2>1
<1>7. L(x) <=>
        IF nx > N THEN \A i \in px .. P : pattern[i] = "*"
        ELSE IF px <= P /\ pattern[px] \in {"?", name[nx]} THEN L(<<px + 1, nx + 1, star, resume>>)
        ELSE IF px <= P /\ pattern[px] = "*" THEN L(<<px + 1, nx, px, nx>>)
        ELSE star > 0 /\ L(<<star + 1, resume + 1, star, resume + 1>>)
  <2>1. L(x) = LoopStep(pattern, name, Loop(pattern, name), x)
    BY <1>4, LoopEquation
  <2> QED
    BY <2>1, Zenon DEF LoopStep
<1>8. /\ px <= P /\ nx <= N => (px \in any <=> pattern[px] = "*")
      /\ px <= P /\ nx <= N => (<<px, nx>> \in fits <=> pattern[px] \in {"?", name[nx]})
      /\ px <= P /\ nx <= N /\ <<px, nx>> \in fits => px \notin any
  <2> HIDE DEF px, nx
  <2>1. px <= P /\ nx <= N => px \in 1 .. P /\ nx \in 1 .. N
    BY <1>5
  <2> QED
    BY <2>1
<1>9. CASE nx > N
  <2>1. nx = N + 1
    BY <1>5, <1>9
  <2>2. Reads(P, N, any, fits, px, N + 1) <=> \A i \in px .. P : i \in any
    BY <1>5, ReadsNothing
  <2>3. \A i \in px .. P : i \in any <=> pattern[i] = "*"
    BY <1>5
  <2>4. L(x) <=> Reads(P, N, any, fits, px, nx)
    <3> HIDE DEF L, px, nx
    <3> QED
      BY <1>7, <1>9, <2>1, <2>2, <2>3
  <2>5. V <=> Reads(P, N, any, fits, px, nx)
    <3>1. /\ Reads(P, N, any, fits, px, nx) => V
          /\ star = 0 => (V <=> Reads(P, N, any, fits, px, nx))
          /\ star # 0 /\ V => \E d \in Nat : nx + d \in 1 .. N + 1
                                             /\ Reads(P, N, any, fits, px, nx + d)
      BY <1>4, LoopReads
    <3>2. \A d \in Nat : nx + d \in 1 .. N + 1 => nx + d = nx
      BY <2>1
    <3> HIDE DEF V, px, nx, star
    <3> QED
      BY <3>1, <3>2
  <2> QED
    BY <1>4, <2>4, <2>5
<1>10. CASE ~(nx > N)
  <2>1. nx <= N /\ I(<<px, nx, star, resume>>)
    <3>1. nx <= N
      BY <1>5, <1>10
    <3>2. I(<<px, nx, star, resume>>)
      <4> HIDE DEF I
      <4> QED
        BY <1>4
    <3> QED
      BY <3>1, <3>2
  <2>2. /\ px <= P /\ px \notin any /\ <<px, nx>> \in fits => I(<<px + 1, nx + 1, star, resume>>)
        /\ px <= P /\ px \in any => I(<<px + 1, nx, px, nx>>)
        /\ (px <= P => px \notin any /\ <<px, nx>> \notin fits) =>
             IF star > 0 THEN I(<<star + 1, resume + 1, star, resume + 1>>) ELSE ~ V
    <3> HIDE DEF px, nx, star, resume
    <3> QED
      BY <1>4, <2>1, LoopKeepsInv
  <2> HIDE DEF I, L, V, Bad
  <2>3. CASE px <= P /\ <<px, nx>> \in fits
    <3> DEFINE y == <<px + 1, nx + 1, star, resume>>
    <3>1. y \in D /\ I(y) /\ (L(y) <=> L(x))
      BY <1>4, <1>7, <1>8, <1>10, <2>1, <2>2, <2>3
    <3>2. y[1] = px + 1 /\ y[3] = star /\ y[4] = resume
      OBVIOUS
    <3> HIDE DEF y, D
    <3> QED
      BY <1>5, <1>6, <3>1, <3>2
  <2>4. CASE px <= P /\ <<px, nx>> \notin fits /\ px \in any
    <3> DEFINE y == <<px + 1, nx, px, nx>>
    <3>1. y \in D /\ I(y) /\ (L(y) <=> L(x))
      BY <1>4, <1>7, <1>8, <1>10, <2>1, <2>2, <2>4
    <3>2. y[3] = px
      OBVIOUS
    <3> HIDE DEF y, D
    <3> QED
      BY <1>5, <1>6, <3>1, <3>2
  <2>5. CASE px <= P => px \notin any /\ <<px, nx>> \notin fits
    <3>1. L(x) <=> star > 0 /\ L(<<star + 1, resume + 1, star, resume + 1>>)
      BY <1>7, <1>8, <1>10, <2>1, <2>5
    <3>2. CASE star > 0
      <4> DEFINE y == <<star + 1, resume + 1, star, resume + 1>>
      <4>1. y \in D /\ I(y) /\ (L(y) <=> L(x))
        BY <1>4, <2>2, <2>5, <3>1, <3>2
      <4>2. y[3] = star /\ y[4] = resume + 1
        OBVIOUS
      <4> HIDE DEF y, D
      <4> QED
        BY <1>5, <1>6, <4>1, <4>2
    <3>3. CASE ~(star > 0)
      BY <1>4, <2>2, <2>5, <3>1, <3>3
    <3> QED
      BY <3>2, <3>3
  <2> QED
    BY <2>3, <2>4, <2>5
<1> QED
  BY <1>9, <1>10

\* A segment is matched as its pattern denotes, if the name has no `*'.
LEMMA SegmentIsDenoted ==
  ASSUME NEW pattern, NEW name, Len(pattern) \in Nat, Len(name) \in Nat,
         \A j \in 1 .. Len(name) : name[j] # "*"
  PROVE  matchSegment(pattern, name) <=> SegmentDenotes(pattern, name)
<1> DEFINE P    == Len(pattern)
           N    == Len(name)
           any  == {i \in 1 .. P : pattern[i] = "*"}
           fits == {x \in (1 .. P) \X (1 .. N) : pattern[x[1]] \in {"?", name[x[2]]}}
           x0   == <<1, 1, 0, 0>>
<1>1. LoopInv(P, N, any, fits, x0)
  <2>1. x0[1] = 1 /\ x0[2] = 1 /\ x0[3] = 0 /\ x0[4] = 0
    OBVIOUS
  <2>2. \A k \in 0 .. 1 - (0 + 1) - 1 : FALSE
    OBVIOUS
  <2>3. 1 = 1 + (1 - (0 + 1)) /\ 0 < 1 /\ 1 \in 1 .. P + 1 /\ 1 \in 1 .. N + 1 /\ 0 \in 0 .. P
        /\ 0 \in 0 .. N + 1
    OBVIOUS
  <2> HIDE DEF P, N, any, fits, x0
  <2> QED
    BY <2>1, <2>2, <2>3 DEF LoopInv
<1>2. x0 \in Nat \X Nat \X Nat \X Nat
  OBVIOUS
<1>3. \A x \in Nat \X Nat \X Nat \X Nat :
        LoopInv(P, N, any, fits, x) =>
          (Loop(pattern, name)[x] <=> Reads(P, N, any, fits, 1, 1))
  BY LoopDecides, Zenon
<1>4. Denoted(P, N, any, fits) <=> Reads(P, N, any, fits, 1, 1)
  <2> HIDE DEF any, fits
  <2> QED
    BY DenotedReads
<1>5. SegmentDenotes(pattern, name) <=> Denoted(P, N, any, fits)
  BY Zenon DEF SegmentDenotes
<1>6. matchSegment(pattern, name) <=> Loop(pattern, name)[x0]
  BY MatchSegmentIsLoop
<1> HIDE DEF P, N, any, fits, x0
<1> QED
  BY <1>1, <1>2, <1>3, <1>4, <1>5, <1>6

\* And so is a path.
LEMMA PathIsDenoted ==
  ASSUME NEW pat, NEW name, Len(pat) \in Nat, Len(name) \in Nat,
         \A i \in 1 .. Len(pat) : Len(pat[i]) \in Nat,
         \A j \in 1 .. Len(name) :
           Len(name[j]) \in Nat /\ \A k \in 1 .. Len(name[j]) : name[j][k] # "*"
  PROVE  matchSegments(pat, name) <=> Denotes(pat, name)
<1> DEFINE P    == Len(pat)
           N    == Len(name)
           any  == {i \in 1 .. P : pat[i] = DoubleStar}
           fits == {x \in (1 .. P) \X (1 .. N) : SegmentDenotes(pat[x[1]], name[x[2]])}
<1>1. \A i \in 1 .. P, j \in 1 .. N :
        matchSegment(pat[i], name[j]) <=> SegmentDenotes(pat[i], name[j])
  BY SegmentIsDenoted
<1>2. \A i \in 1 .. P, j \in 1 .. N : <<i, j>> \in fits <=> SegmentDenotes(pat[i], name[j])
  OBVIOUS
<1>3. \A i \in 1 .. P + 1, j \in 1 .. N + 1 :
        Match(pat, name)[<<i, j>>] <=> Reads(P, N, any, fits, i, j)
  BY <1>1, <1>2, MatchReads, Zenon
<1>4. Denoted(P, N, any, fits) <=> Reads(P, N, any, fits, 1, 1)
  <2> HIDE DEF any, fits
  <2> QED
    BY DenotedReads
<1>5. Denotes(pat, name) <=> Denoted(P, N, any, fits)
  BY Zenon DEF Denotes
<1>6. matchSegments(pat, name) <=> Match(pat, name)[<<1, 1>>]
  BY MatchSegmentsIsMatch
<1>7. 1 \in 1 .. P + 1 /\ 1 \in 1 .. N + 1
  OBVIOUS
<1> HIDE DEF P, N, any, fits
<1> QED
  BY <1>3, <1>4, <1>5, <1>6, <1>7

-----------------------------------------------------------------------------
(* Clean.                                                                  *)

CleanStep(p, kept, i) ==
  IF i = 0 THEN <<>>
  ELSE LET before == kept[i - 1]
       IN  IF p[i] \in {<<>>, Dot} THEN before
           ELSE IF p[i] = DotDot /\ before # <<>> /\ Last(before) # DotDot THEN Front(before)
           ELSE Append(before, p[i])

Kept(p) == CHOOSE kept : kept = [i \in 0..Len(p) |-> CleanStep(p, kept, i)]

\* What is left of a path when all its segments are taken.
LEMMA CleanIsKept ==
  ASSUME NEW p
  PROVE  Clean(p) = IF Kept(p)[Len(p)] = <<>> THEN <<Dot>> ELSE Kept(p)[Len(p)]
BY SMT DEF Clean, Kept, CleanStep

\* What is left of each beginning of it, as an equation.
LEMMA KeptEquation ==
  ASSUME NEW p, Len(p) \in Nat
  PROVE  \A i \in 0 .. Len(p) : Kept(p)[i] = CleanStep(p, Kept(p), i)
<1> DEFINE n       == Len(p)
           Q(k, m) == k = [i \in 0 .. m |-> CleanStep(p, k, i)]
           T       == {m \in 0 .. n : ~ \E k : Q(k, m)}
<1>1. T = {}
  <2> SUFFICES ASSUME T # {} PROVE FALSE
    OBVIOUS
  <2>1. PICK d \in T : \A e \in T : d <= e
    <3>1. T \in SUBSET Nat
      OBVIOUS
    <3> HIDE DEF T
    <3> QED
      BY <3>1, LeastNumber
  <2>2. CASE d = 0
    <3> DEFINE k == [i \in 0 .. 0 |-> <<>>]
    <3>1. Q(k, 0)
      BY DEF CleanStep
    <3> HIDE DEF Q, k
    <3> QED
      BY <2>2, <3>1
  <2>3. CASE d # 0
    <3>1. d - 1 \in 0 .. n /\ d - 1 \notin T /\ d \in Nat
      <4> HIDE DEF Q
      <4> QED
        BY <2>1, <2>3
    <3>2. PICK k : Q(k, d - 1)
      <4> HIDE DEF Q
      <4> QED
        BY <3>1
    <3> DEFINE l == [i \in 0 .. d |-> IF i = d THEN CleanStep(p, k, d) ELSE k[i]]
    <3>3. \A i \in 0 .. d : l[i] = CleanStep(p, l, i)
      <4> TAKE i \in 0 .. d
      <4>1. CASE i = 0
        <5>1. k[0] = <<>> /\ l[0] = k[0]
          BY <2>3, <3>1, <3>2 DEF CleanStep
        <5> HIDE DEF l
        <5> QED
          BY <4>1, <5>1 DEF CleanStep
      <4>2. CASE i # 0
        <5>1. i - 1 \in 0 .. d - 1 /\ i - 1 \in 0 .. d /\ i - 1 # d
          BY <3>1, <4>2
        <5>2. l[i - 1] = k[i - 1]
          BY <5>1
        <5>3. l[i] = CleanStep(p, k, i)
          <6>1. CASE i = d
            BY <6>1
          <6>2. CASE i # d
            <7>1. i \in 0 .. d - 1
              BY <3>1, <6>2
            <7>2. k[i] = CleanStep(p, k, i)
              BY <3>2, <7>1
            <7> QED
              BY <6>2, <7>2
          <6> QED
            BY <6>1, <6>2
        <5> HIDE DEF l
        <5> QED
          BY <5>2, <5>3, Zenon DEF CleanStep
      <4> QED
        BY <4>1, <4>2
    <3>4. Q(l, d)
      <4>1. l = [i \in 0 .. d |-> l[i]]
        OBVIOUS
      <4> HIDE DEF l
      <4> QED
        BY <3>3, <4>1
    <3> HIDE DEF Q, l
    <3> QED
      BY <3>4
  <2> QED
    BY <2>2, <2>3
<1>2. \E k : Q(k, n)
  <2>1. n \in 0 .. n
    OBVIOUS
  <2> HIDE DEF Q, n
  <2> QED
    BY <1>1, <2>1
<1>3. Kept(p) = CHOOSE k : Q(k, n)
  BY DEF Kept
<1>4. Q(Kept(p), n)
  <2> HIDE DEF Q, n
  <2> QED
    BY <1>2, <1>3, Zenon
<1> QED
  BY <1>4

\* Nothing empty and no `.' is left.
LEMMA KeptIsClean ==
  ASSUME NEW p, p \in Seq(Range(p))
  PROVE  \A i \in 0 .. Len(p) : Kept(p)[i] \in Seq(Range(p) \ {<<>>, Dot})
<1> DEFINE n == Len(p)
           S == Range(p) \ {<<>>, Dot}
           T == {i \in 0 .. n : Kept(p)[i] \notin Seq(S)}
<1>1. n \in Nat /\ DOMAIN p = 1 .. n
  OBVIOUS
<1> SUFFICES ASSUME T # {} PROVE FALSE
  OBVIOUS
<1>2. PICK d \in T : \A e \in T : d <= e
  <2>1. T \in SUBSET Nat
    BY <1>1
  <2> HIDE DEF T
  <2> QED
    BY <2>1, LeastNumber
<1>3. Kept(p)[d] = CleanStep(p, Kept(p), d)
  BY <1>1, KeptEquation
<1>4. d # 0
  <2>1. Kept(p)[0] = <<>>
    <3>1. 0 \in 0 .. n
      BY <1>1
    <3> QED
      BY <1>1, <3>1, KeptEquation DEF CleanStep
  <2>2. <<>> \in Seq(S)
    OBVIOUS
  <2>3. Kept(p)[d] \notin Seq(S)
    OBVIOUS
  <2> HIDE DEF S
  <2> QED
    BY <2>1, <2>2, <2>3
<1>5. d - 1 \in 0 .. n /\ d \in 1 .. n /\ d - 1 \notin T
  BY <1>1, <1>2, <1>4
<1> DEFINE before == Kept(p)[d - 1]
<1>6. before \in Seq(S)
  BY <1>5
<1>7. CASE p[d] \in {<<>>, Dot}
  <2>1. Kept(p)[d] = before
    BY <1>3, <1>4, <1>7, Zenon DEF CleanStep
  <2> QED
    BY <1>6, <2>1
<1>8. CASE p[d] \notin {<<>>, Dot} /\ p[d] = DotDot /\ before # <<>> /\ Last(before) # DotDot
  <2>1. Kept(p)[d] = Front(before)
    BY <1>3, <1>4, <1>8, Zenon DEF CleanStep
  <2>2. Front(before) \in Seq(S)
    <3> HIDE DEF before, S
    <3> QED
      BY <1>6, <1>8 DEF Front
  <2> QED
    BY <2>1, <2>2
<1>9. CASE p[d] \notin {<<>>, Dot} /\ ~(p[d] = DotDot /\ before # <<>> /\ Last(before) # DotDot)
  <2>1. Kept(p)[d] = Append(before, p[d])
    BY <1>3, <1>4, <1>9, Zenon DEF CleanStep
  <2>2. p[d] \in S
    BY <1>1, <1>5, <1>9 DEF Range
  <2>3. Append(before, p[d]) \in Seq(S)
    <3> HIDE DEF before, S
    <3> QED
      BY <1>6, <2>2
  <2> QED
    BY <2>1, <2>3
<1> QED
  BY <1>7, <1>8, <1>9

\* A cleaned path is `.', or has neither an empty segment nor a `.'.
LEMMA CleanIsClean ==
  ASSUME NEW p, p \in Seq(Range(p))
  PROVE  /\ Clean(p) = <<Dot>> \/ Clean(p) \in Seq(Range(p) \ {<<>>, Dot})
         /\ Clean(p) # <<>>
<1>1. Len(p) \in 0 .. Len(p)
  OBVIOUS
<1>2. Kept(p)[Len(p)] \in Seq(Range(p) \ {<<>>, Dot})
  BY <1>1, KeptIsClean
<1> QED
  BY <1>2, CleanIsKept

\* Of a path without empty segments, `.' and `..' only a leading `./' goes.
LEMMA CleanKeeps ==
  ASSUME NEW p, p \in Seq(Range(p)), p # <<>>, p # <<Dot>>,
         \A i \in DOMAIN normSlash(p) : normSlash(p)[i] \notin {<<>>, Dot, DotDot}
  PROVE  Clean(p) = normSlash(p)
<1> DEFINE n == Len(p)
           r == normSlash(p)
           s == IF n > 1 /\ p[1] = Dot THEN 1 ELSE 0
           T == {i \in 0 .. n : i >= s /\ Kept(p)[i] # SubSeq(r, 1, i - s)}
<1>1. n \in Nat /\ n >= 1 /\ DOMAIN p = 1 .. n /\ s \in 0 .. 1 /\ s < n
  OBVIOUS
<1>2. r \in Seq(Range(p)) /\ Len(r) = n - s /\ \A i \in s + 1 .. n : r[i - s] = p[i]
  BY <1>1 DEF normSlash
<1>3. \A i \in DOMAIN r : r[i] \notin {<<>>, Dot, DotDot}
  OBVIOUS
<1>4. s = 1 => p[1] = Dot
  OBVIOUS
<1> HIDE DEF r, s, n
<1>9. \A i \in s + 1 .. n : p[i] \notin {<<>>, Dot, DotDot}
  <2> TAKE i \in s + 1 .. n
  <2>1. i - s \in DOMAIN r
    BY <1>1, <1>2
  <2> QED
    BY <1>2, <1>3, <2>1
<1>5. \A i \in 0 .. n : Kept(p)[i] = CleanStep(p, Kept(p), i)
  BY <1>1, KeptEquation DEF n
<1>6. T = {}
  <2> SUFFICES ASSUME T # {} PROVE FALSE
    OBVIOUS
  <2>1. PICK d \in T : \A e \in T : d <= e
    <3>1. T \in SUBSET Nat
      BY <1>1
    <3> HIDE DEF T
    <3> QED
      BY <3>1, LeastNumber
  <2>2. CASE d = s
    <3>1. Kept(p)[0] = <<>>
      BY <1>1, <1>5 DEF CleanStep
    <3>2. s = 1 => Kept(p)[1] = <<>>
      <4>1. 1 # 0 /\ 1 - 1 = 0 /\ 1 \in 0 .. n
        BY <1>1
      <4>2. ASSUME s = 1 PROVE CleanStep(p, Kept(p), 1) = Kept(p)[1 - 1]
        BY <1>4, <4>1, <4>2, Zenon DEF CleanStep
      <4> QED
        BY <1>1, <1>5, <3>1, <4>1, <4>2
    <3>3. Kept(p)[s] = <<>>
      BY <1>1, <3>1, <3>2
    <3>4. SubSeq(r, 1, 0) = <<>> /\ s - s = 0
      BY <1>1, <1>2
    <3> QED
      BY <2>2, <3>3, <3>4
  <2>3. CASE d # s
    <3>1. d \in s + 1 .. n /\ d - 1 \in 0 .. n /\ d - 1 >= s /\ d - 1 \notin T /\ d \in Nat
      BY <1>1, <2>1, <2>3
    <3>2. Kept(p)[d - 1] = SubSeq(r, 1, d - 1 - s)
      BY <3>1
    <3>3. Kept(p)[d] = Append(Kept(p)[d - 1], p[d])
      <4>1. d # 0 /\ p[d] \notin {<<>>, Dot, DotDot} /\ d \in 0 .. n
        BY <1>1, <1>9, <3>1
      <4>2. Kept(p)[d] = CleanStep(p, Kept(p), d)
        BY <1>5, <4>1
      <4>3. p[d] \notin {<<>>, Dot} /\ p[d] # DotDot
        BY <4>1
      <4> QED
        BY <4>1, <4>2, <4>3, Zenon DEF CleanStep
    <3> DEFINE m == d - s
    <3>4. m \in 1 .. Len(r) /\ d - 1 - s = m - 1 /\ r[m] = p[d]
      BY <1>1, <1>2, <3>1
    <3> HIDE DEF m
    <3>5. Append(SubSeq(r, 1, m - 1), r[m]) = SubSeq(r, 1, m)
      BY <1>2, <3>4
    <3> QED
      BY <3>2, <3>3, <3>4, <3>5 DEF m
  <2> QED
    BY <2>2, <2>3
<1>7. Kept(p)[n] = r
  <2>1. n \in 0 .. n /\ n >= s /\ n - s = Len(r)
    BY <1>1, <1>2
  <2>2. Kept(p)[n] = SubSeq(r, 1, Len(r))
    BY <1>6, <2>1
  <2>3. SubSeq(r, 1, Len(r)) = r
    BY <1>2
  <2> QED
    BY <2>2, <2>3
<1>8. r # <<>>
  BY <1>1, <1>2
<1> QED
  BY <1>7, <1>8, CleanIsKept DEF r, n

-----------------------------------------------------------------------------
(* Literal segments.                                                       *)

\* A segment without a wildcard denotes itself alone.
LEMMA LiteralSegment ==
  ASSUME NEW pattern, NEW name, pattern \in Seq(Range(pattern)), name \in Seq(Range(name)),
         ~ Has(pattern, Wild), SegmentDenotes(pattern, name)
  PROVE  pattern = name
<1> DEFINE P    == Len(pattern)
           N    == Len(name)
           any  == {i \in 1 .. P : pattern[i] = "*"}
           fits == {x \in (1 .. P) \X (1 .. N) : pattern[x[1]] \in {"?", name[x[2]]}}
<1>1. P \in Nat /\ N \in Nat /\ DOMAIN pattern = 1 .. P /\ DOMAIN name = 1 .. N
  OBVIOUS
<1>2. \A i \in 1 .. P : pattern[i] # "*" /\ pattern[i] # "?"
  BY <1>1 DEF Has, Wild
<1>3. Reads(P, N, any, fits, 1, 1)
  <2>1. Denoted(P, N, any, fits)
    BY Zenon DEF SegmentDenotes
  <2> HIDE DEF P, N, any, fits
  <2> QED
    BY <1>1, <2>1, DenotedReads
<1>4. \A i \in 1 .. P : i \notin any
  BY <1>2
<1>5. \A x : x \in fits <=> x \in (1 .. P) \X (1 .. N) /\ pattern[x[1]] \in {"?", name[x[2]]}
  OBVIOUS
<1> HIDE DEF P, N, any, fits
<1>6. /\ 1 + P <= N + 1 /\ Reads(P, N, any, fits, 1 + P, 1 + P)
      /\ \A k \in 0 .. P - 1 : <<1 + k, 1 + k>> \in fits
  <2>1. 1 \in 1 .. P + 1 /\ 1 + P <= P + 1 /\ 1 \in 1 .. N + 1
        /\ \A k \in 0 .. P - 1 : 1 + k \notin any
    BY <1>1, <1>4
  <2> QED
    BY <1>1, <1>3, <2>1, StretchReads
<1>7. P = N
  <2>1. 1 + P \in 1 .. N + 1 /\ 1 + P = P + 1
    BY <1>1, <1>6
  <2> QED
    BY <1>1, <1>6, <2>1, ReadsEnd
<1>8. \A i \in 1 .. P : pattern[i] = name[i]
  <2> TAKE i \in 1 .. P
  <2>1. i - 1 \in 0 .. P - 1 /\ 1 + (i - 1) = i
    BY <1>1
  <2>2. <<i, i>> \in fits
    BY <1>6, <2>1
  <2> QED
    BY <1>2, <1>5, <2>2
<1> QED
  BY <1>1, <1>7, <1>8

\* The literal segments a pattern begins with are those the name begins with.
LEMMA LiteralStart ==
  ASSUME NEW pat, NEW name, IsPath(pat), IsPath(name), Denotes(pat, name),
         NEW n \in 0 .. Len(pat), \A i \in 1 .. n : ~ Has(pat[i], Wild)
  PROVE  n <= Len(name) /\ \A i \in 1 .. n : pat[i] = name[i]
<1> DEFINE P    == Len(pat)
           N    == Len(name)
           any  == {i \in 1 .. P : pat[i] = DoubleStar}
           fits == {x \in (1 .. P) \X (1 .. N) : SegmentDenotes(pat[x[1]], name[x[2]])}
<1>1. P \in Nat /\ N \in Nat /\ n \in 0 .. P /\ DOMAIN pat = 1 .. P /\ DOMAIN name = 1 .. N
  BY DEF IsPath
<1>2. Reads(P, N, any, fits, 1, 1)
  <2>1. Denoted(P, N, any, fits)
    BY Zenon DEF Denotes
  <2> HIDE DEF P, N, any, fits
  <2> QED
    BY <1>1, <2>1, DenotedReads
<1>3. \A i \in 1 .. n : i \notin any
  BY DEF Has, Wild, DoubleStar
<1>4. \A x : x \in fits <=> x \in (1 .. P) \X (1 .. N) /\ SegmentDenotes(pat[x[1]], name[x[2]])
  OBVIOUS
<1> HIDE DEF P, N, any, fits
<1>5. 1 + n <= N + 1 /\ \A k \in 0 .. n - 1 : <<1 + k, 1 + k>> \in fits
  <2>1. 1 \in 1 .. P + 1 /\ 1 + n <= P + 1 /\ 1 \in 1 .. N + 1 /\ n \in Nat
        /\ \A k \in 0 .. n - 1 : 1 + k \notin any
    BY <1>1, <1>3
  <2> QED
    BY <1>1, <1>2, <2>1, StretchReads
<1>6. ASSUME NEW i \in 1 .. n PROVE pat[i] = name[i]
  <2>1. i - 1 \in 0 .. n - 1 /\ 1 + (i - 1) = i
    BY <1>1
  <2>2. <<i, i>> \in fits
    BY <1>5, <2>1
  <2>3. SegmentDenotes(pat[i], name[i]) /\ i \in DOMAIN pat /\ i \in DOMAIN name
    BY <1>1, <1>4, <2>2
  <2>4. pat[i] \in Seq(Range(pat[i])) /\ name[i] \in Seq(Range(name[i]))
    BY <2>3 DEF IsPath
  <2> QED
    BY <2>3, <2>4, LiteralSegment
<1> QED
  BY <1>1, <1>5, <1>6 DEF N

\* A segment of a matching pattern is `**', or denotes a segment of the name.
LEMMA EverySegmentDenotes ==
  ASSUME NEW pat, NEW name, IsPath(pat), IsPath(name), Denotes(pat, name), NEW i \in 1 .. Len(pat)
  PROVE  pat[i] = DoubleStar \/ \E j \in 1 .. Len(name) : SegmentDenotes(pat[i], name[j])
<1> DEFINE P    == Len(pat)
           N    == Len(name)
           any  == {k \in 1 .. P : pat[k] = DoubleStar}
           fits == {x \in (1 .. P) \X (1 .. N) : SegmentDenotes(pat[x[1]], name[x[2]])}
<1>1. P \in Nat /\ N \in Nat
  BY DEF IsPath
<1>2. Denoted(P, N, any, fits)
  BY Zenon DEF Denotes
<1>3. PICK cut \in [1 .. P + 1 -> 1 .. N + 1] :
        \A k \in 1 .. P : IF k \in any THEN cut[k] <= cut[k + 1]
                          ELSE cut[k + 1] = cut[k] + 1 /\ <<k, cut[k]>> \in fits
  <2> HIDE DEF P, N, any, fits
  <2> QED
    BY <1>2 DEF Denoted
<1>4. i \in any \/ <<i, cut[i]>> \in fits
  <2> HIDE DEF any, fits
  <2> QED
    BY <1>3
<1> QED
  BY <1>4

\* A pattern that matches a path of the tree has no empty segment, `.' or `..'.
LEMMA MatchingIsPlain ==
  ASSUME NEW pat, NEW name, IsPath(pat), IsPath(name), Denotes(pat, name),
         \A j \in DOMAIN name : name[j] \notin {<<>>, Dot, DotDot}
  PROVE  \A i \in DOMAIN pat : pat[i] \notin {<<>>, Dot, DotDot}
<1> TAKE i \in DOMAIN pat
<1>1. DOMAIN pat = 1 .. Len(pat) /\ DOMAIN name = 1 .. Len(name)
  BY DEF IsPath
<1>2. CASE pat[i] = DoubleStar
  <2>1. pat[i] # <<>> /\ pat[i] # Dot /\ pat[i] # DotDot
    BY <1>2 DEF DoubleStar, Dot, DotDot
  <2> QED
    BY <2>1
<1>3. CASE pat[i] # DoubleStar
  <2>1. PICK j \in 1 .. Len(name) : SegmentDenotes(pat[i], name[j])
    BY <1>1, <1>3, EverySegmentDenotes
  <2>2. pat[i] \in Seq(Range(pat[i])) /\ name[j] \in Seq(Range(name[j]))
    BY <1>1 DEF IsPath
  <2>3. ~ Has(<<>>, Wild) /\ ~ Has(Dot, Wild) /\ ~ Has(DotDot, Wild)
    BY DEF Has, Wild, Dot, DotDot
  <2>4. ASSUME pat[i] \in {<<>>, Dot, DotDot} PROVE FALSE
    <3>1. ~ Has(pat[i], Wild)
      BY <2>3, <2>4
    <3>2. pat[i] = name[j]
      BY <2>1, <2>2, <3>1, LiteralSegment
    <3> QED
      BY <1>1, <2>4, <3>2
  <2> QED
    BY <2>4
<1> QED
  BY <1>2, <1>3

\* The segments before the first wildcard are a beginning without one.
LEMMA UpToWildIsLiteral ==
  ASSUME NEW p, p \in Seq(Range(p))
  PROVE  \E n \in 0 .. Len(p) :
           /\ UpToWild(p) = SubSeq(p, 1, n)
           /\ \A i \in 1 .. n : ~ Has(p[i], Wild)
           /\ ~ hasGlobMeta(p) => n = Len(p)
<1> DEFINE I == {i \in 1 .. Len(p) : Has(p[i], Wild)}
<1>1. Len(p) \in Nat /\ DOMAIN p = 1 .. Len(p) /\ SubSeq(p, 1, Len(p)) = p
  OBVIOUS
<1>2. UpToWild(p) = LET first == IF I # {} THEN Min(I) ELSE 0
                    IN  IF first = 0 THEN p ELSE SubSeq(p, 1, first - 1)
  BY DEF UpToWild, SelectInSeq
<1>3. CASE I = {}
  <2>1. UpToWild(p) = SubSeq(p, 1, Len(p)) /\ Len(p) \in 0 .. Len(p)
    BY <1>1, <1>2, <1>3
  <2>2. \A i \in 1 .. Len(p) : ~ Has(p[i], Wild)
    BY <1>3
  <2> QED
    BY <2>1, <2>2
<1>4. CASE I # {}
  <2>1. Min(I) \in I /\ \A m \in I : Min(I) <= m
    <3>1. I \in SUBSET Nat
      OBVIOUS
    <3>2. \E x \in I : \A y \in I : x <= y
      <4> HIDE DEF I
      <4> QED
        BY <1>4, <3>1, LeastNumber
    <3> HIDE DEF I
    <3> QED
      BY <3>2 DEF Min
  <2> DEFINE n == Min(I) - 1
  <2>2. Min(I) \in 1 .. Len(p) /\ Min(I) # 0 /\ n \in 0 .. Len(p)
    BY <1>1, <2>1
  <2>3. UpToWild(p) = SubSeq(p, 1, n)
    <3> HIDE DEF I
    <3> QED
      BY <1>2, <1>4, <2>2
  <2>4. \A i \in 1 .. n : i \notin I
    <3> HIDE DEF I
    <3> QED
      BY <1>1, <2>1, <2>2
  <2>5. \A i \in 1 .. n : ~ Has(p[i], Wild)
    BY <1>1, <2>2, <2>4
  <2>6. hasGlobMeta(p)
    BY <1>1, <2>1 DEF hasGlobMeta
  <2> QED
    BY <2>2, <2>3, <2>5, <2>6
<1> QED
  BY <1>3, <1>4

-----------------------------------------------------------------------------
(* What a pass reads.                                                      *)

\* The hypotheses about names, for one set of paths.
Plain(paths) == \A p \in paths : \A i \in DOMAIN p : ~ Has(p[i], {"[", "]"})
IsTree(tree) ==
  \A f \in tree : IsPath(f) /\ \A i \in DOMAIN f : f[i] \notin {<<>>, Dot, DotDot}
Starless(tree) == \A f \in tree : \A i \in DOMAIN f : ~ Has(f[i], {"*"})
ArePaths(files) == \A p \in files : IsPath(p)

\* A path of the tree is not written with `./'.
LEMMA TreePathsAreNormal ==
  ASSUME NEW tree, IsTree(tree), NEW f \in tree
  PROVE  normSlash(f) = f /\ f \in Seq(Range(f)) /\ f # <<>>
<1>1. f \in Seq(Range(f)) /\ f # <<>> /\ \A i \in DOMAIN f : f[i] # Dot
  BY DEF IsTree, IsPath
<1>2. 1 \in DOMAIN f
  BY <1>1
<1> QED
  BY <1>1, <1>2 DEF normSlash

\* A declared pattern without its `./' is a path.
LEMMA NormalPath ==
  ASSUME NEW p, IsPath(p)
  PROVE  IsPath(normSlash(p)) /\ Range(normSlash(p)) \subseteq Range(p)
<1>1. p \in Seq(Range(p)) /\ p # <<>> /\ \A s \in Range(p) : s \in Seq(Range(s))
  BY DEF IsPath, Range
<1>2. CASE Len(p) > 1 /\ p[1] = Dot
  <2>1. normSlash(p) = Tail(p)
    BY <1>2 DEF normSlash
  <2>2. Tail(p) \in Seq(Range(p)) /\ Tail(p) # <<>>
    <3>1. Tail(p) \in Seq(Range(p)) /\ Len(Tail(p)) = Len(p) - 1 /\ Len(p) \in Nat
      BY <1>1, HeadTailProperties
    <3>2. Len(Tail(p)) # 0
      BY <1>2, <3>1
    <3>3. Len(<<>>) = 0
      OBVIOUS
    <3> QED
      BY <3>1, <3>2, <3>3, Zenon
  <2>3. \A i \in DOMAIN Tail(p) : Tail(p)[i] \in Range(p)
    BY <2>2
  <2>4. Range(Tail(p)) \subseteq Range(p)
    BY <2>3 DEF Range
  <2>5. Tail(p) \in Seq(Range(Tail(p)))
    BY <2>2, RangeOfSeq, SeqOfRange
  <2> QED
    BY <1>1, <2>1, <2>2, <2>3, <2>4, <2>5 DEF IsPath
<1>3. CASE ~(Len(p) > 1 /\ p[1] = Dot)
  BY <1>3 DEF normSlash
<1> QED
  BY <1>2, <1>3

\* A cleaned pattern but `.' is a path that is not written with `./', of segments
\* of the pattern, none empty and none `.'.
LEMMA CleanedPath ==
  ASSUME NEW files, ArePaths(files), NEW p \in Cleaned(files)
  PROVE  /\ IsPath(p) /\ normSlash(p) = p
         /\ \A i \in DOMAIN p : p[i] \notin {<<>>, Dot}
         /\ \E q \in files : p = Clean(normSlash(q)) /\ Range(p) \subseteq Range(q)
<1>1. PICK q \in files : p = Clean(normSlash(q)) /\ p # <<Dot>>
  BY DEF Cleaned
<1>2. IsPath(normSlash(q)) /\ Range(normSlash(q)) \subseteq Range(q)
  BY NormalPath DEF ArePaths
<1>3. p \in Seq(Range(normSlash(q)) \ {<<>>, Dot}) /\ p # <<>>
  <2>1. normSlash(q) \in Seq(Range(normSlash(q)))
    BY <1>2 DEF IsPath
  <2> QED
    BY <1>1, <2>1, CleanIsClean
<1>4. \A i \in DOMAIN p : p[i] \in Range(normSlash(q)) \ {<<>>, Dot}
  BY <1>3
<1>5. \A s \in Range(normSlash(q)) : s \in Seq(Range(s))
  BY <1>2 DEF IsPath, Range
<1>6. p \in Seq(Range(p))
  BY <1>3, RangeOfSeq, SeqOfRange
<1>7. IsPath(p)
  BY <1>3, <1>4, <1>5, <1>6 DEF IsPath
<1>8. normSlash(p) = p
  <2>1. 1 \in DOMAIN p
    BY <1>3
  <2>2. p[1] # Dot
    BY <1>4, <2>1
  <2> QED
    BY <2>2 DEF normSlash
<1>9. Range(p) \subseteq Range(q)
  BY <1>2, <1>4 DEF Range
<1> QED
  BY <1>1, <1>4, <1>7, <1>8, <1>9

\* A path of the tree is matched as it is denoted.
LEMMA MatchIsDenoted ==
  ASSUME NEW tree, IsTree(tree), Starless(tree), NEW f \in tree, NEW p, IsPath(p)
  PROVE  matchGlob(p, f) <=> Denotes(normSlash(p), f)
<1> DEFINE r == normSlash(p)
<1>1. IsPath(r) /\ normSlash(f) = f /\ IsPath(f)
  BY NormalPath, TreePathsAreNormal DEF IsTree
<1> HIDE DEF r
<1>2. /\ Len(r) \in Nat /\ \A i \in 1 .. Len(r) : Len(r[i]) \in Nat
      /\ Len(f) \in Nat /\ \A j \in 1 .. Len(f) : Len(f[j]) \in Nat
  BY <1>1 DEF IsPath
<1>3. \A j \in 1 .. Len(f) : \A k \in 1 .. Len(f[j]) : f[j][k] # "*"
  <2>1. \A j \in DOMAIN f : f[j] \in Seq(Range(f[j])) /\ ~ Has(f[j], {"*"})
    BY <1>1 DEF IsPath, Starless
  <2>2. DOMAIN f = 1 .. Len(f)
    BY <1>1 DEF IsPath
  <2> QED
    BY <2>1, <2>2 DEF Has
<1>4. matchSegments(r, f) <=> Denotes(r, f)
  BY <1>2, <1>3, PathIsDenoted
<1> QED
  BY <1>1, <1>4 DEF matchGlob, r

\* What a pass reads is named, or beneath what is, or matched; no pattern of it
\* leaves the root.
LEMMA SnapshotIsExpanded ==
  ASSUME NEW files, NEW tree, ArePaths(files), IsTree(tree), Plain(files), Plain(tree), NEW f
  PROVE  f \in Snapshotted(files, tree)
           <=> f \in tree /\ \E r \in expandFiles(files, tree) : IsPrefix(r, f)
<1> DEFINE E == expandFiles(files, tree)
<1>1. \A r \in E : \A i \in DOMAIN r : ~ Has(r[i], {"[", "]"})
  <2> TAKE r \in E
  <2>1. r \in Cleaned(files) \/ r \in tree
    BY DEF expandFiles
  <2>2. CASE r \in Cleaned(files)
    <3>1. PICK q \in files : Range(r) \subseteq Range(q)
      BY <2>2, CleanedPath
    <3> QED
      BY <3>1 DEF Plain, Range
  <2>3. CASE r \in tree
    BY <2>3 DEF Plain
  <2> QED
    BY <2>1, <2>2, <2>3
<1> HIDE DEF E
<1>2. resolvePatterns(E, tree) = E
  BY <1>1 DEF resolvePatterns
<1> QED
  BY <1>2 DEF Snapshotted, E

\* Beginnings, segment by segment.
LEMMA PrefixSegments ==
  ASSUME NEW s, NEW t, s \in Seq(Range(s)), t \in Seq(Range(t))
  PROVE  IsPrefix(s, t) <=> Len(s) <= Len(t) /\ \A i \in 1 .. Len(s) : s[i] = t[i]
<1>1. Len(s) \in Nat /\ Len(t) \in Nat /\ SubSeq(s, 1, Len(s)) = s /\ DOMAIN s = 1 .. Len(s)
  OBVIOUS
<1>2. ASSUME Len(s) <= Len(t)
      PROVE  /\ SubSeq(t, 1, Len(s)) \in Seq(Range(t)) /\ Len(SubSeq(t, 1, Len(s))) = Len(s)
             /\ \A i \in 1 .. Len(s) : SubSeq(t, 1, Len(s))[i] = t[i]
  BY <1>1, <1>2
<1>3. ASSUME Len(s) <= Len(t), \A i \in 1 .. Len(s) : s[i] = t[i]
      PROVE  s = SubSeq(t, 1, Len(s))
  <2> DEFINE u == SubSeq(t, 1, Len(s))
  <2>1. u \in Seq(Range(t)) /\ Len(u) = Len(s) /\ \A i \in 1 .. Len(s) : u[i] = s[i]
    BY <1>2, <1>3
  <2> HIDE DEF u
  <2>2. s = u
    BY <1>1, <2>1
  <2> QED
    BY <2>2 DEF u
<1> QED
  BY <1>1, <1>2, <1>3 DEF IsPrefix

\* Of two beginnings of one path one is a beginning of the other.
LEMMA PrefixesCompare ==
  ASSUME NEW s, NEW t, NEW f, s \in Seq(Range(s)), t \in Seq(Range(t)), f \in Seq(Range(f)),
         IsPrefix(s, f), IsPrefix(t, f)
  PROVE  IsPrefix(s, t) \/ IsPrefix(t, s)
<1>1. Len(s) \in Nat /\ Len(t) \in Nat
  OBVIOUS
<1>2. /\ \A i \in 1 .. Len(s) : s[i] = f[i]
      /\ \A i \in 1 .. Len(t) : t[i] = f[i]
  BY PrefixSegments
<1>3. CASE Len(s) <= Len(t)
  <2>1. \A i \in 1 .. Len(s) : s[i] = t[i]
    BY <1>1, <1>2, <1>3
  <2> QED
    BY <1>3, <2>1, PrefixSegments
<1>4. CASE Len(t) <= Len(s)
  <2>1. \A i \in 1 .. Len(t) : t[i] = s[i]
    BY <1>1, <1>2, <1>4
  <2> QED
    BY <1>4, <2>1, PrefixSegments
<1> QED
  BY <1>1, <1>3, <1>4

\* The beginning of a beginning is a beginning.
LEMMA PrefixTransitive ==
  ASSUME NEW s, NEW t, NEW f, s \in Seq(Range(s)), t \in Seq(Range(t)), f \in Seq(Range(f)),
         IsPrefix(s, t), IsPrefix(t, f)
  PROVE  IsPrefix(s, f)
<1>1. Len(s) \in Nat /\ Len(t) \in Nat /\ Len(f) \in Nat
  OBVIOUS
<1>2. /\ Len(s) <= Len(t) /\ \A i \in 1 .. Len(s) : s[i] = t[i]
      /\ Len(t) <= Len(f) /\ \A i \in 1 .. Len(t) : t[i] = f[i]
  BY PrefixSegments
<1>3. Len(s) <= Len(f) /\ \A i \in 1 .. Len(s) : s[i] = f[i]
  BY <1>1, <1>2
<1> QED
  BY <1>3, PrefixSegments

\* The literal beginning of a cleaned pattern is that of every path it matches or names.
LEMMA LiteralBeginning ==
  ASSUME NEW files, NEW tree, ArePaths(files), IsTree(tree), Starless(tree),
         NEW p \in Cleaned(files), NEW g \in tree, hasGlobMeta(p), matchGlob(p, g)
  PROVE  UpToWild(p) \in Seq(Range(UpToWild(p))) /\ IsPrefix(UpToWild(p), g)
<1>1. IsPath(p) /\ normSlash(p) = p /\ IsPath(g)
  BY CleanedPath DEF IsTree
<1>2. Denotes(p, g)
  BY <1>1, MatchIsDenoted
<1>3. PICK n \in 0 .. Len(p) : UpToWild(p) = SubSeq(p, 1, n) /\ \A i \in 1 .. n : ~ Has(p[i], Wild)
  BY <1>1, UpToWildIsLiteral DEF IsPath
<1>4. n <= Len(g) /\ \A i \in 1 .. n : p[i] = g[i]
  BY <1>1, <1>2, <1>3, LiteralStart
<1>5. p \in Seq(Range(p)) /\ g \in Seq(Range(g))
  BY <1>1 DEF IsPath
<1> DEFINE u == SubSeq(p, 1, n)
<1>6. u \in Seq(Range(p)) /\ Len(u) = n /\ \A i \in 1 .. n : u[i] = p[i]
  BY <1>3, <1>5
<1> HIDE DEF u
<1>7. u \in Seq(Range(u))
  BY <1>6, RangeOfSeq, SeqOfRange
<1>8. IsPrefix(u, g)
  BY <1>4, <1>5, <1>6, <1>7, PrefixSegments
<1> QED
  BY <1>3, <1>7, <1>8 DEF u

\* What a pass reads begins with the static prefix of one of its patterns.
LEMMA SnapshotHasPrefix ==
  ASSUME NEW files, NEW tree, ArePaths(files), IsTree(tree), Starless(tree),
         Plain(files), Plain(tree), NEW f \in Snapshotted(files, tree)
  PROVE  \E q \in files : /\ staticPrefix(q) \in Seq(Range(staticPrefix(q)))
                         /\ IsPrefix(staticPrefix(q), f)
<1>1. PICK r \in expandFiles(files, tree) : f \in tree /\ IsPrefix(r, f)
  BY SnapshotIsExpanded
<1>2. f \in Seq(Range(f))
  BY <1>1, TreePathsAreNormal
<1>3. \/ r \in Cleaned(files) /\ ~ hasGlobMeta(r)
      \/ r \in tree /\ \E p \in Cleaned(files) : hasGlobMeta(p) /\ matchGlob(p, r)
  BY DEF expandFiles
<1>4. CASE r \in Cleaned(files) /\ ~ hasGlobMeta(r)
  <2>1. PICK q \in files : r = Clean(normSlash(q))
    BY <1>4, CleanedPath
  <2>2. r \in Seq(Range(r))
    BY <1>4, CleanedPath DEF IsPath
  <2>3. UpToWild(r) = SubSeq(r, 1, Len(r)) /\ SubSeq(r, 1, Len(r)) = r
    BY <1>4, <2>2, UpToWildIsLiteral
  <2>4. staticPrefix(q) = r
    BY <2>1, <2>3 DEF staticPrefix
  <2> QED
    BY <1>1, <2>2, <2>4
<1>5. CASE r \in tree /\ \E p \in Cleaned(files) : hasGlobMeta(p) /\ matchGlob(p, r)
  <2>1. PICK p \in Cleaned(files) : hasGlobMeta(p) /\ matchGlob(p, r)
    BY <1>5
  <2>2. PICK q \in files : p = Clean(normSlash(q))
    BY CleanedPath
  <2>3. staticPrefix(q) = UpToWild(p)
    BY <2>2 DEF staticPrefix
  <2>4. UpToWild(p) \in Seq(Range(UpToWild(p))) /\ IsPrefix(UpToWild(p), r)
    BY <1>5, <2>1, LiteralBeginning
  <2>5. r \in Seq(Range(r))
    BY <1>5, TreePathsAreNormal
  <2>6. IsPrefix(UpToWild(p), f)
    BY <1>1, <1>2, <2>4, <2>5, PrefixTransitive
  <2> QED
    BY <2>3, <2>4, <2>6
<1> QED
  BY <1>3, <1>4, <1>5

\* Two passes that read one file are said to overlap.
LEMMA SharedIsOverlap ==
  ASSUME NEW mine, NEW other, NEW tree, ArePaths(mine), ArePaths(other), IsTree(tree),
         Starless(tree), Plain(mine), Plain(other), Plain(tree),
         NEW f \in Snapshotted(mine, tree) \cap Snapshotted(other, tree)
  PROVE  subtasksOverlap(mine, other)
<1>1. f \in Seq(Range(f))
  <2>1. f \in tree
    BY SnapshotIsExpanded
  <2> QED
    BY <2>1, TreePathsAreNormal
<1>2. PICK ga \in mine : /\ staticPrefix(ga) \in Seq(Range(staticPrefix(ga)))
                        /\ IsPrefix(staticPrefix(ga), f)
  BY SnapshotHasPrefix
<1>3. PICK gb \in other : /\ staticPrefix(gb) \in Seq(Range(staticPrefix(gb)))
                         /\ IsPrefix(staticPrefix(gb), f)
  BY SnapshotHasPrefix
<1>4. IsPrefix(staticPrefix(ga), staticPrefix(gb)) \/ IsPrefix(staticPrefix(gb), staticPrefix(ga))
  BY <1>1, <1>2, <1>3, PrefixesCompare
<1> QED
  BY <1>4 DEF subtasksOverlap, globsOverlap

-----------------------------------------------------------------------------
(* What is declared.                                                       *)

\* A leading `./' has no wildcard.
LEMMA NormalMeta ==
  ASSUME NEW p, IsPath(p), hasGlobMeta(p)
  PROVE  hasGlobMeta(normSlash(p))
<1>1. p \in Seq(Range(p)) /\ p # <<>>
  BY DEF IsPath
<1>2. CASE Len(p) > 1 /\ p[1] = Dot
  <2>1. PICK i \in DOMAIN p : Has(p[i], Wild)
    BY DEF hasGlobMeta
  <2>2. i # 1
    BY <1>2, <2>1 DEF Has, Dot, Wild
  <2>3. normSlash(p) = Tail(p)
    BY <1>2 DEF normSlash
  <2>4. Len(Tail(p)) = Len(p) - 1 /\ Tail(p) \in Seq(Range(p)) /\ Len(p) \in Nat
        /\ \A k \in 1 .. Len(Tail(p)) : Tail(p)[k] = p[k + 1]
    BY <1>1, HeadTailProperties
  <2>5. i - 1 \in DOMAIN Tail(p) /\ Tail(p)[i - 1] = p[i]
    BY <1>1, <2>2, <2>4
  <2> QED
    BY <2>1, <2>3, <2>5 DEF hasGlobMeta
<1>3. CASE ~(Len(p) > 1 /\ p[1] = Dot)
  BY <1>3 DEF normSlash
<1> QED
  BY <1>2, <1>3

\* A path begins with itself.
LEMMA PrefixOfItself ==
  ASSUME NEW f, f \in Seq(Range(f))
  PROVE  IsPrefix(f, f)
BY PrefixSegments

\* A declared path is read by the pass that declares it, if no pattern leaves the root.
LEMMA DeclaredIsRead ==
  ASSUME NEW files, NEW tree, ArePaths(files), IsTree(tree), Starless(tree),
         Plain(files), Plain(tree), ~ Escapes(files), NEW f \in tree, NEW q \in files,
         normSlash(q) # <<Dot>>,
         IF hasGlobMeta(normSlash(q)) THEN matchGlob(normSlash(q), f) ELSE IsPrefix(normSlash(q), f)
  PROVE  f \in Snapshotted(files, tree)
<1> DEFINE p == normSlash(q)
           r == normSlash(p)
<1>1. IsPath(p) /\ IsPath(r)
  BY NormalPath DEF ArePaths
<1>2. p # <<Dot>> /\ (IF hasGlobMeta(p) THEN matchGlob(p, f) ELSE IsPrefix(p, f))
  OBVIOUS
<1>3. Clean(p) \in Cleaned(files) \/ Clean(p) = <<Dot>>
  BY DEF Cleaned
<1> HIDE DEF p
<1>4. f \in Seq(Range(f)) /\ IsPath(f) /\ \A i \in DOMAIN f : f[i] \notin {<<>>, Dot, DotDot}
  BY TreePathsAreNormal DEF IsTree
<1>5. ASSUME \A i \in DOMAIN r : r[i] \notin {<<>>, Dot, DotDot}
      PROVE  Clean(p) = r /\ r \in Cleaned(files) /\ normSlash(r) = r
  <2>1. Clean(p) = r
    BY <1>1, <1>2, <1>5, CleanKeeps DEF IsPath
  <2>2. 1 \in DOMAIN r
    BY <1>1 DEF IsPath
  <2>3. r[1] # Dot
    BY <1>5, <2>2
  <2>4. r # <<Dot>>
    BY <2>3
  <2> HIDE DEF r
  <2>5. normSlash(r) = r
    BY <2>3 DEF normSlash
  <2> QED
    BY <1>3, <2>1, <2>4, <2>5
<1>6. CASE hasGlobMeta(p)
  <2>1. matchGlob(p, f)
    BY <1>2, <1>6
  <2>2. Denotes(r, f)
    BY <1>1, <2>1, MatchIsDenoted
  <2>3. hasGlobMeta(r)
    BY <1>1, <1>6, NormalMeta
  <2> HIDE DEF r
  <2>4. \A i \in DOMAIN r : r[i] \notin {<<>>, Dot, DotDot}
    BY <1>1, <1>4, <2>2, MatchingIsPlain
  <2>5. r \in Cleaned(files) /\ normSlash(r) = r
    BY <1>5, <2>4
  <2>6. matchGlob(r, f)
    BY <1>1, <2>2, <2>5, MatchIsDenoted
  <2>7. f \in expandFiles(files, tree)
    BY <2>3, <2>5, <2>6 DEF expandFiles
  <2> QED
    BY <1>4, <2>7, PrefixOfItself, SnapshotIsExpanded
<1>7. CASE ~ hasGlobMeta(p)
  <2>1. IsPrefix(p, f)
    BY <1>2, <1>7
  <2>2. p \in Seq(Range(p)) /\ p # <<>>
    BY <1>1 DEF IsPath
  <2>3. Len(p) <= Len(f) /\ \A i \in 1 .. Len(p) : p[i] = f[i]
    BY <1>4, <2>1, <2>2, PrefixSegments
  <2>4. \A i \in DOMAIN p : i \in DOMAIN f /\ p[i] = f[i]
    BY <1>4, <2>2, <2>3
  <2>5. \A i \in DOMAIN p : p[i] \notin {<<>>, Dot, DotDot}
    BY <1>4, <2>4
  <2>6. r = p
    <3>1. 1 \in DOMAIN p
      BY <2>2
    <3>2. p[1] # Dot
      BY <2>5, <3>1
    <3> QED
      BY <3>2 DEF normSlash
  <2> HIDE DEF r
  <2>7. p \in Cleaned(files)
    BY <1>5, <2>5, <2>6
  <2>8. p \in expandFiles(files, tree)
    BY <1>7, <2>7 DEF expandFiles
  <2> QED
    BY <2>1, <2>8, SnapshotIsExpanded
<1> QED
  BY <1>6, <1>7

\* And what it reads is declared, if patterns are written in their shortest form.
LEMMA ReadIsDeclared ==
  ASSUME NEW files, NEW tree, ArePaths(files), IsTree(tree), Plain(files), Plain(tree),
         \A g, h \in tree : IsPrefix(g, h) => g = h,
         \A q \in files : Clean(q) = q,
         NEW f \in Snapshotted(files, tree)
  PROVE  pathDeclared(f, collectDeclaredGlobs(files))
<1>1. PICK r \in expandFiles(files, tree) : f \in tree /\ IsPrefix(r, f)
  BY SnapshotIsExpanded
<1>2. ASSUME NEW p \in Cleaned(files)
      PROVE  p \in collectDeclaredGlobs(files)
  <2>1. PICK q \in files : p = Clean(normSlash(q))
    BY CleanedPath
  <2>2. q \in Seq(Range(q)) /\ q # <<>> /\ Clean(q) = q /\ p # <<Dot>>
    BY DEF ArePaths, IsPath, Cleaned
  <2>3. q # <<Dot>>
    <3>1. ASSUME q = <<Dot>> PROVE normSlash(q) = q
      BY <3>1 DEF normSlash
    <3> QED
      BY <2>1, <2>2, <3>1
  <2>4. q \in Seq(Range(q) \ {<<>>, Dot})
    BY <2>2, <2>3, CleanIsClean
  <2>5. 1 \in DOMAIN q /\ \A i \in DOMAIN q : q[i] # <<>> /\ q[i] # Dot
    BY <2>2, <2>4
  <2>6. normSlash(q) = q
    BY <2>5 DEF normSlash
  <2>7. q # << <<>> >>
    BY <2>5
  <2> QED
    BY <2>1, <2>2, <2>3, <2>6, <2>7 DEF collectDeclaredGlobs
<1>3. CASE r \in Cleaned(files) /\ ~ hasGlobMeta(r)
  BY <1>1, <1>2, <1>3 DEF pathDeclared
<1>4. CASE r \in tree /\ \E p \in Cleaned(files) : hasGlobMeta(p) /\ matchGlob(p, r)
  <2>1. r = f
    BY <1>1, <1>4
  <2> QED
    BY <1>2, <1>4, <2>1 DEF pathDeclared
<1> QED
  BY <1>3, <1>4 DEF expandFiles

-----------------------------------------------------------------------------
(* The theorems.                                                           *)

\* What a plan that is about to be persisted declares are paths of its answer.
LEMMA AcceptedAreAnswers ==
  ASSUME BundleInv, NEW files \in Accepted
  PROVE  ArePaths(files) /\ (NoBrackets => Plain(files))
<1> DEFINE list == List(bundle["subtasks"])
<1>1. PICK i \in DOMAIN accepted : files = accepted[i].files
  BY DEF Accepted
<1>2. at = "persist"
  BY <1>1 DEF accepted
<1>3. accepted = ParseSubtasks(bundle["subtasks"])
  BY <1>2 DEF accepted
<1>4. i \in DOMAIN list /\ files = list[i].files
  BY <1>1, <1>3 DEF ParseSubtasks
<1>5. bundle \in Bundles
  BY <1>2 DEF BundleInv
<1>6. IsList(list)
  BY <1>5, AnswersAssumption
<1> HIDE DEF list
<1>7. list[i] \in Range(list)
  BY <1>4 DEF Range
<1>8. ArePaths(files)
  BY <1>4, <1>6, <1>7 DEF ArePaths, IsList
<1>9. ASSUME NoBrackets PROVE Plain(files)
  <2>1. files \subseteq UNION {UNION {e.files : e \in Range(List(b["subtasks"]))} : b \in Bundles}
    BY <1>4, <1>5, <1>7 DEF list
  <2> QED
    BY <1>9, <2>1 DEF NoBrackets, Plain
<1> QED
  BY <1>8, <1>9

\* The files are a tree.
LEMMA FilesAreTree ==
  /\ IsTree(Files) /\ \A f, g \in Files : IsPrefix(f, g) => f = g
  /\ NoStars => Starless(Files)
  /\ NoBrackets => Plain(Files)
<1>1. NoBrackets => Plain(Files)
  BY DEF NoBrackets, Plain
<1> QED
  BY <1>1, TreeAssumption DEF IsTree, Starless, NoStars

\* For every answer and every tree without a `*' in a name, the matcher (globs.go)
\* matches a file iff its pattern denotes it: the loop with its one way back finds
\* whatever a search through all ways of cutting the name would.
THEOREM MatcherIsExact ==
  ASSUME NoStars
  PROVE  Spec => []MatchIsGlob
<1>1. BundleInv => MatchIsGlob
  <2> SUFFICES ASSUME BundleInv, NEW files \in Accepted, NEW p \in files, NEW f \in Files
               PROVE  matchGlob(p, f) <=> Denotes(normSlash(p), f)
    BY DEF MatchIsGlob, AllFiles
  <2> QED
    BY AcceptedAreAnswers, FilesAreTree, MatchIsDenoted DEF ArePaths
<1> QED
  BY <1>1, BundlesAreAnswers, PTL

\* For every answer and every tree, subtasks that the scheduler lets run at once
\* (overlap.go) snapshot and copy back no file in common: the literal beginnings of
\* two patterns that match one file are comparable.
THEOREM OverlapIsSound ==
  ASSUME NoStars, NoBrackets
  PROVE  Spec => []OverlapSound
<1>1. BundleInv => OverlapSound
  <2> SUFFICES ASSUME BundleInv, NEW mine \in Accepted, NEW other \in Accepted,
                      NEW f \in Snapshotted(mine, Files) \cap Snapshotted(other, Files)
               PROVE  subtasksOverlap(mine, other)
    BY DEF OverlapSound
  <2> QED
    BY AcceptedAreAnswers, FilesAreTree, SharedIsOverlap
<1> QED
  BY <1>1, BundlesAreAnswers, PTL

\* For every answer and every tree, an edit that counts as declared (undeclared.go)
\* is in the diff of a subtask, and none in a diff is reported as undeclared.
THEOREM DeclaredIsExact ==
  ASSUME NoStars, NoBrackets
  PROVE  Spec => []DeclaredIsSnapshotted
<1>1. ASSUME BundleInv, NEW mine \in Accepted, ~ Escapes(mine), NEW f \in Files, NEW q \in mine,
             normSlash(q) # <<Dot>>,
             IF hasGlobMeta(normSlash(q)) THEN matchGlob(normSlash(q), f)
             ELSE IsPrefix(normSlash(q), f)
      PROVE  f \in Snapshotted(mine, Files)
  BY <1>1, AcceptedAreAnswers, FilesAreTree, DeclaredIsRead
<1>2. ASSUME BundleInv, NEW mine \in Accepted, \A q \in mine : Clean(q) = q,
             NEW f \in Snapshotted(mine, Files)
      PROVE  f \in Files /\ pathDeclared(f, collectDeclaredGlobs(mine))
  BY <1>2, AcceptedAreAnswers, FilesAreTree, ReadIsDeclared, SnapshotIsExpanded
<1>3. BundleInv => DeclaredIsSnapshotted
  <2> SUFFICES ASSUME BundleInv PROVE DeclaredIsSnapshotted
    OBVIOUS
  <2> DEFINE globs    == collectDeclaredGlobs(AllFiles)
             shown    == UNION {Snapshotted(mine, Files) : mine \in Accepted}
             declared == {f \in Files : pathDeclared(f, globs)}
  <2>1. ASSUME ~ \E mine \in Accepted : Escapes(mine), NEW f \in declared
        PROVE  f \in shown
    <3>1. PICK p \in globs : IF hasGlobMeta(p) THEN matchGlob(p, f) ELSE IsPrefix(p, f)
      BY DEF pathDeclared
    <3>2. PICK mine \in Accepted : \E q \in mine : p = normSlash(q) /\ p # <<Dot>>
      BY DEF collectDeclaredGlobs, AllFiles
    <3>3. f \in Snapshotted(mine, Files)
      BY <1>1, <2>1, <3>1, <3>2
    <3> QED
      BY <3>3
  <2>2. ASSUME \A p \in AllFiles : Clean(p) = p, NEW f \in shown
        PROVE  f \in declared
    <3>1. PICK mine \in Accepted : f \in Snapshotted(mine, Files)
      OBVIOUS
    <3>2. f \in Files /\ pathDeclared(f, collectDeclaredGlobs(mine))
      BY <1>2, <2>2, <3>1 DEF AllFiles
    <3>3. collectDeclaredGlobs(mine) \subseteq globs
      BY DEF collectDeclaredGlobs, AllFiles
    <3> QED
      BY <3>2, <3>3 DEF pathDeclared
  <2> QED
    BY <2>1, <2>2, Zenon DEF DeclaredIsSnapshotted
<1> QED
  BY <1>3, BundlesAreAnswers, PTL

-----------------------------------------------------------------------------
(* What the engine is given.                                               *)

\* A plan as the record holds it: ids name subtasks, dependencies exist, and no set
\* of subtasks waits on itself.
Runnable(subtasks) ==
  LET ids     == {subtasks[i].id : i \in DOMAIN subtasks}
      deps(s) == UNION {subtasks[i].deps : i \in {k \in DOMAIN subtasks : subtasks[k].id = s}}
  IN  /\ \A i, j \in DOMAIN subtasks : subtasks[i].id = subtasks[j].id => i = j
      /\ \A s \in ids : deps(s) \subseteq ids
      /\ \A S \in SUBSET ids : S # {} => \E s \in S : deps(s) \cap S = {}

\* The answer a recorded plan was parsed from has been accepted.
AcceptedInv ==
  Planned(mem) \/ Planned(disk) => bundle \in Bundles /\ Parses(bundle["subtasks"])

\* What ParseSubtasks makes of an accepted list.
LEMMA AcceptedIsRunnable ==
  ASSUME NEW body, IsList(List(body)), Parses(body)
  PROVE  Runnable(ParseSubtasks(body))
<1> DEFINE list    == List(body)
           subs    == ParseSubtasks(body)
           deps(s) == UNION {Range(e.deps) : e \in {x \in Range(list) : x.id = s}}
           back(s) == UNION {subs[i].deps : i \in {k \in DOMAIN subs : subs[k].id = s}}
<1>1. IsList(list) /\ Executable(list)
  <2>1. ValidateDAG(list)
    BY DEF Parses
  <2> QED
    BY <2>1, ValidateDAGExact
<1>2. /\ DOMAIN subs = DOMAIN list
      /\ \A i \in DOMAIN list : subs[i].id = list[i].id /\ subs[i].deps = Range(list[i].deps)
  BY DEF ParseSubtasks
<1>3. /\ \A i, j \in DOMAIN list : list[i].id = list[j].id => i = j
      /\ \A s \in Ids(list) : deps(s) \subseteq Ids(list)
      /\ \A S \in SUBSET Ids(list) : S # {} => \E s \in S : deps(s) \cap S = {}
  BY <1>1, Zenon DEF Executable, Ids
<1> HIDE DEF list, subs
<1>4. {subs[i].id : i \in DOMAIN subs} = Ids(list)
  BY <1>2 DEF Ids, Range
<1>5. \A s : back(s) = deps(s)
  BY <1>2 DEF Range
<1>6. \A i, j \in DOMAIN subs : subs[i].id = subs[j].id => i = j
  BY <1>2, <1>3
<1> HIDE DEF deps
<1>7. /\ \A s \in Ids(list) : back(s) \subseteq Ids(list)
      /\ \A S \in SUBSET Ids(list) : S # {} => \E s \in S : back(s) \cap S = {}
  <2> HIDE DEF back
  <2> QED
    BY <1>3, <1>5
<1>8. Runnable(subs)
  BY <1>4, <1>6, <1>7, Zenon DEF Runnable
<1> QED
  BY <1>8 DEF subs

\* The validator's promise to the engine, kept on disk: whatever run.yaml holds as a plan,
\* through re-prompts, failing saves, crashes and resumes, can be executed to its end.
THEOREM RecordedPlansAreRunnable == Spec => [](Planned(disk) => Runnable(disk.subtasks))
<1>1. Init => AcceptedInv
  BY DEF Init, AcceptedInv, Planned
<1>2. PInv /\ BundleInv /\ AcceptedInv /\ [Next]_vars => AcceptedInv'
  <2> SUFFICES ASSUME PInv, BundleInv, AcceptedInv, [Next]_vars PROVE AcceptedInv'
    OBVIOUS
  <2> DEFINE Same == /\ bundle' = bundle
                     /\ Planned(mem)' \/ Planned(disk)' => Planned(mem) \/ Planned(disk)
  <2>1. ASSUME Same PROVE AcceptedInv'
    <3>1. bundle'["subtasks"] = bundle["subtasks"]
      BY <2>1
    <3> QED
      BY <2>1, <3>1 DEF AcceptedInv
  <2>2. CASE MarkPlanning \/ Classify
    <3>1. /\ bundle' = bundle /\ disk' \in {mem', disk}
          /\ \E s : mem' = [mem EXCEPT !.status = s]
      BY <2>2 DEF MarkPlanning, Classify, Save, process
    <3>2. mem'.subtasks = mem.subtasks
      BY <3>1 DEF PInv, PlanTyped
    <3> QED
      BY <2>1, <3>1, <3>2 DEF Planned
  <2>3. CASE \/ Summarize \/ AgentAnswers \/ InvocationFails \/ WriteDoc \/ Validate
             \/ Cancel \/ Crash \/ UNCHANGED vars
    <3>1. UNCHANGED <<bundle, mem, disk>>
      BY <2>3 DEF Summarize, AgentAnswers, InvocationFails, WriteDoc, Validate, Cancel, Crash,
                  process, vars
    <3> QED
      BY <2>1, <3>1 DEF Planned
  <2>4. CASE Parse
    <3>1. at = "parse" /\ UNCHANGED <<mem, disk>>
      BY <2>4 DEF Parse
    <3>2. ~ Planned(mem) /\ ~ Planned(disk)
      BY <3>1 DEF PInv
    <3> QED
      BY <3>1, <3>2 DEF AcceptedInv, Planned
  <2>5. CASE PersistPlan
    <3>1. at = "persist" /\ bundle' = bundle
      BY <2>5 DEF PersistPlan, process
    <3>2. bundle \in Bundles /\ Parses(bundle["subtasks"])
      BY <3>1 DEF BundleInv
    <3>3. bundle'["subtasks"] = bundle["subtasks"]
      BY <3>1
    <3> QED
      BY <3>1, <3>2, <3>3 DEF AcceptedInv
  <2>6. CASE Start
    <3>1. /\ mem' = disk /\ disk' = disk
          /\ disk.status \in {"created", "planning"} \/ disk.subtasks = <<>>
      BY <2>6 DEF Start
    <3>2. ~ Planned(disk)
      BY <3>1 DEF PInv, RecordInv, Planned
    <3> QED
      BY <3>1, <3>2 DEF AcceptedInv, Planned
  <2> QED
    BY <2>2, <2>3, <2>4, <2>5, <2>6 DEF Next, PlanStep
<1>3. PInv /\ AcceptedInv => (Planned(disk) => Runnable(disk.subtasks))
  <2> SUFFICES ASSUME PInv, AcceptedInv, Planned(disk) PROVE Runnable(disk.subtasks)
    OBVIOUS
  <2>1. docs = bundle /\ disk.subtasks = ParseSubtasks(docs["subtasks"])
    BY DEF PInv, RecordInv
  <2>2. IsList(List(bundle["subtasks"])) /\ Parses(bundle["subtasks"])
    BY AnswersAssumption DEF AcceptedInv
  <2> QED
    BY <2>1, <2>2, AcceptedIsRunnable
<1> QED
  BY <1>1, <1>2, <1>3, PlanInductive, BundlesAreAnswers, PTL DEF Spec
=============================================================================
