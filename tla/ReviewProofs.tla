---------------------------- MODULE ReviewProofs ----------------------------
(***************************************************************************)
(* Proofs about Review, for any number of subtasks, budgets, crashes,      *)
(* cancellations and failing writes: what is settled is what the reviewer  *)
(* meant, and a remediation lists the findings of its round.               *)
(*                                                                         *)
(* Of the answers the theorems assume the contract of the prompts and no   *)
(* more (Contract): that what keeps it is understood as it was meant is    *)
(* proved of the scan that reads it.                                       *)
(***************************************************************************)
EXTENDS Review, FiniteSetTheorems, SequenceTheorems, TLAPS

-----------------------------------------------------------------------------
(* What is read out of an answer.                                          *)

\* A set of numbers has a least one.
LEMMA LeastNumber ==
  ASSUME NEW T \in SUBSET Nat, T # {}
  PROVE  \E n \in T : \A m \in T : n <= m
<1> DEFINE R     == StrictSubsetOrdering(Nat)
           Up(n) == 0 .. n
           Ups   == {Up(n) : n \in T}
<1>1. IsWellFoundedOn(R, FiniteSubsetsOf(Nat))
  BY FS_StrictSubsetOrderingWellFounded
<1>2. Ups \subseteq FiniteSubsetsOf(Nat) /\ Ups # {}
  <2>1. \A n \in T : IsFiniteSet(Up(n))
    BY FS_Interval
  <2>2. \A n \in T : Up(n) \in SUBSET Nat
    OBVIOUS
  <2> HIDE DEF Up
  <2> QED
    BY <2>1, <2>2 DEF FiniteSubsetsOf
<1>3. \E s \in Ups : \A t \in Ups : <<t, s>> \notin R
  <2> HIDE DEF R, Ups
  <2> QED
    BY <1>1, <1>2, WFMin
<1>4. PICK n \in T : \A m \in T : <<Up(m), Up(n)>> \notin R
  BY <1>3
<1>5. ASSUME NEW m \in T, m < n PROVE FALSE
  <2>1. Up(m) \subseteq Up(n) /\ Up(m) # Up(n) /\ Up(m) \in SUBSET Nat /\ Up(n) \in SUBSET Nat
    BY <1>5
  <2>2. <<Up(m), Up(n)>> \in R
    BY <2>1 DEF StrictSubsetOrdering
  <2> QED
    BY <1>4, <2>2
<1> QED
  BY <1>4, <1>5

\* Before the first line, and what a line makes of what was read before it.
Nothing == [inside |-> FALSE, body |-> <<>>, best |-> <<>>, found |-> FALSE]

ScanStep(lines, scan, i) ==
  IF i = 0 THEN Nothing
  ELSE LET acc == scan[i - 1]
       IN  IF ~ acc.inside
           THEN IF lines[i] = OpenYAML THEN [acc EXCEPT !.inside = TRUE, !.body = <<>>]
                ELSE acc
           ELSE IF lines[i] = Bare
           THEN [acc EXCEPT !.inside = FALSE, !.found = TRUE, !.best = acc.body]
           ELSE [acc EXCEPT !.body = Append(@, lines[i])]

Scanned(lines) == CHOOSE scan : scan = [i \in 0..Len(lines) |-> ScanStep(lines, scan, i)]

LEMMA LastBlockIsScanned ==
  ASSUME NEW lines
  PROVE  lastYAMLBlock(lines) = Scanned(lines)[Len(lines)]
BY SMT DEF lastYAMLBlock, Scanned, ScanStep, Nothing

\* What was read of each beginning of the answer, as an equation.
LEMMA ScanEquation ==
  ASSUME NEW lines, Len(lines) \in Nat
  PROVE  \A i \in 0 .. Len(lines) : Scanned(lines)[i] = ScanStep(lines, Scanned(lines), i)
<1> DEFINE n       == Len(lines)
           Q(k, m) == k = [i \in 0 .. m |-> ScanStep(lines, k, i)]
           T       == {m \in 0 .. n : ~ \E k : Q(k, m)}
<1>1. T = {}
  <2> SUFFICES ASSUME T # {} PROVE FALSE
    OBVIOUS
  <2>1. PICK d \in T : \A e \in T : d <= e
    <3>1. T \in SUBSET Nat
      OBVIOUS
    <3> HIDE DEF T
    <3> QED
      BY <3>1, LeastNumber
  <2>2. CASE d = 0
    <3> DEFINE k == [i \in 0 .. 0 |-> Nothing]
    <3>1. Q(k, 0)
      <4>1. \A i \in 0 .. 0 : i = 0
        OBVIOUS
      <4>2. \A i \in 0 .. 0 : ScanStep(lines, k, i) = Nothing
        <5> HIDE DEF k
        <5> QED
          BY <4>1, Zenon DEF ScanStep
      <4>3. k = [i \in 0 .. 0 |-> ScanStep(lines, k, i)]
        BY <4>2, Zenon
      <4> QED
        BY <4>3
    <3> HIDE DEF Q, k
    <3> QED
      BY <2>2, <3>1
  <2>3. CASE d # 0
    <3>1. d - 1 \in 0 .. n /\ d - 1 \notin T /\ d \in Nat
      <4> HIDE DEF Q
      <4> QED
        BY <2>1, <2>3
    <3>2. PICK k : Q(k, d - 1)
      <4> HIDE DEF Q
      <4> QED
        BY <3>1
    <3> DEFINE l == [i \in 0 .. d |-> IF i = d THEN ScanStep(lines, k, d) ELSE k[i]]
    <3>3. \A i \in 0 .. d : l[i] = ScanStep(lines, l, i)
      <4> TAKE i \in 0 .. d
      <4>1. CASE i = 0
        <5>1. k[0] = Nothing /\ l[0] = k[0]
          <6>1. 0 \in 0 .. d - 1 /\ 0 \in 0 .. d /\ 0 # d
            BY <2>3, <3>1
          <6>2. k[0] = ScanStep(lines, k, 0)
            <7> HIDE DEF l
            <7> QED
              BY <3>2, <6>1, Zenon
          <6>3. k[0] = Nothing
            <7> HIDE DEF Q, l
            <7> QED
              BY <6>2, Zenon DEF ScanStep
          <6> QED
            BY <6>1, <6>3
        <5> HIDE DEF l
        <5> QED
          BY <4>1, <5>1 DEF ScanStep
      <4>2. CASE i # 0
        <5>1. i - 1 \in 0 .. d - 1 /\ i - 1 \in 0 .. d /\ i - 1 # d
          BY <3>1, <4>2
        <5>2. l[i - 1] = k[i - 1]
          BY <5>1
        <5>3. l[i] = ScanStep(lines, k, i)
          <6>1. CASE i = d
            BY <6>1
          <6>2. CASE i # d
            <7>1. i \in 0 .. d - 1
              BY <3>1, <6>2
            <7>2. k[i] = ScanStep(lines, k, i)
              BY <3>2, <7>1
            <7> QED
              BY <6>2, <7>2
          <6> QED
            BY <6>1, <6>2
        <5> HIDE DEF l
        <5> QED
          BY <5>2, <5>3, Zenon DEF ScanStep
      <4> QED
        BY <4>1, <4>2
    <3>4. Q(l, d)
      <4>1. l = [i \in 0 .. d |-> l[i]]
        OBVIOUS
      <4> HIDE DEF l
      <4> QED
        BY <3>3, <4>1
    <3> HIDE DEF Q, l
    <3> QED
      BY <3>4
  <2> QED
    BY <2>2, <2>3
<1>2. \E k : Q(k, n)
  <2>1. n \in 0 .. n
    OBVIOUS
  <2> HIDE DEF Q, n
  <2> QED
    BY <1>1, <2>1
<1>3. Scanned(lines) = CHOOSE k : Q(k, n)
  BY DEF Scanned
<1>4. Q(Scanned(lines), n)
  <2> HIDE DEF Q, n
  <2> QED
    BY <1>2, <1>3, Zenon
<1> QED
  BY <1>4

\* The fences differ from each other and from the text of a verdict.
LEMMA FencesDiffer ==
  /\ OpenYAML # Bare
  /\ \A v : YAML(v) # Bare /\ YAML(v) # OpenYAML
<1>1. OpenYAML.kind = "yaml" /\ Bare.kind = "bare" /\ \A v : YAML(v).kind = "text"
  BY DEF OpenYAML, Bare, YAML
<1>2. "yaml" # "bare" /\ "text" # "bare" /\ "text" # "yaml"
  OBVIOUS
<1> QED
  BY <1>1, <1>2

\* What one more line changes of the fences no bare one has followed.
LEMMA OpensStep ==
  ASSUME NEW lines, Len(lines) \in Nat, NEW i \in 1 .. Len(lines)
  PROVE  Opens(lines, i) = IF lines[i] = Bare THEN {}
                           ELSE IF lines[i] = OpenYAML THEN Opens(lines, i - 1) \cup {i}
                           ELSE Opens(lines, i - 1)
<1> DEFINE opens == Opens(lines, i)
           old   == Opens(lines, i - 1)
<1>1. i \in Nat /\ i # 0 /\ i \in 1 .. i /\ (i - 1) + 1 = i
  OBVIOUS
<1>2. ASSUME NEW o \in 1 .. i - 1
      PROVE  /\ o \in 1 .. i /\ o # i /\ i \in o + 1 .. i
             /\ \A k : k \in o + 1 .. i <=> k \in o + 1 .. i - 1 \/ k = i
  BY <1>1
<1>3. \A o \in 1 .. i : o \in 1 .. i - 1 \/ o = i
  BY <1>1
<1>4. \A k : k \notin i + 1 .. i
  BY <1>1
<1>5. \A o \in 1 .. i - 1 : o \in opens <=> o \in old /\ lines[i] # Bare
  BY <1>2 DEF Opens
<1>6. i \in opens <=> lines[i] = OpenYAML
  BY <1>1, <1>4 DEF Opens
<1>7. opens \subseteq 1 .. i /\ old \subseteq 1 .. i - 1
  BY DEF Opens
<1> HIDE DEF opens, old
<1>8. lines[i] = Bare => opens = {}
  BY <1>3, <1>5, <1>6, <1>7, FencesDiffer
<1>9. lines[i] # Bare /\ lines[i] = OpenYAML => opens = old \cup {i}
  BY <1>3, <1>5, <1>6, <1>7, <1>2
<1>10. lines[i] # Bare /\ lines[i] # OpenYAML => opens = old
  BY <1>3, <1>5, <1>6, <1>7, <1>2
<1> QED
  BY <1>8, <1>9, <1>10 DEF opens, old

\* The least and the greatest number of a set.
LEMMA MinIs ==
  ASSUME NEW T \in SUBSET Nat, NEW m \in T, \A n \in T : m <= n
  PROVE  Min(T) = m
<1>1. \A n \in T : (\A k \in T : n <= k) => n = m
  OBVIOUS
<1> QED
  BY <1>1 DEF Min

LEMMA MaxIs ==
  ASSUME NEW T \in SUBSET Nat, NEW m \in T, \A n \in T : n <= m
  PROVE  Max(T) = m
<1>1. \A n \in T : (\A k \in T : n >= k) => n = m
  OBVIOUS
<1>2. \A n \in T : m >= n
  OBVIOUS
<1> QED
  BY <1>1, <1>2 DEF Max

\* The fences among the first i lines that close a block.
ClosedBy(lines, i) == {c \in Closes(lines) : c <= i}

LEMMA ClosedStep ==
  ASSUME NEW lines, Len(lines) \in Nat, NEW i \in 1 .. Len(lines)
  PROVE  IF lines[i] = Bare /\ Opens(lines, i - 1) # {}
         THEN /\ i \in ClosedBy(lines, i) /\ ClosedBy(lines, i) \in SUBSET Nat
              /\ Max(ClosedBy(lines, i)) = i
         ELSE ClosedBy(lines, i) = ClosedBy(lines, i - 1)
<1>1. Closes(lines) \subseteq 1 .. Len(lines) /\ i \in Nat
  BY DEF Closes
<1>2. i \in Closes(lines) <=> lines[i] = Bare /\ Opens(lines, i - 1) # {}
  BY DEF Closes
<1> DEFINE C == Closes(lines)
<1> HIDE DEF C
<1>3. ASSUME i \in C
      PROVE  /\ i \in ClosedBy(lines, i) /\ ClosedBy(lines, i) \in SUBSET Nat
             /\ \A c \in ClosedBy(lines, i) : c <= i
  BY <1>1, <1>3 DEF ClosedBy, C
<1>4. ASSUME i \notin C
      PROVE  ClosedBy(lines, i) = ClosedBy(lines, i - 1)
  <2>1. \A c \in C : c <= i <=> c <= i - 1
    BY <1>1, <1>4 DEF C
  <2> QED
    BY <2>1 DEF ClosedBy, C
<1> QED
  BY <1>2, <1>3, <1>4, MaxIs DEF C

\* What is known of what was read.
Reading(lines, i) ==
  LET acc == Scanned(lines)[i]
  IN  /\ acc = [inside |-> acc.inside, body |-> acc.body, best |-> acc.best, found |-> acc.found]
      /\ acc.inside = (Opens(lines, i) # {})
      /\ acc.inside => acc.body = SubSeq(lines, Min(Opens(lines, i)) + 1, i)
      /\ acc.found = (ClosedBy(lines, i) # {})
      /\ acc.found => acc.best = BlockAt(lines, Max(ClosedBy(lines, i)))

\* Every line keeps it so.
LEMMA AllIsRead ==
  ASSUME NEW S, NEW lines \in Seq(S)
  PROVE  \A i \in 0 .. Len(lines) : Reading(lines, i)
<1> DEFINE n == Len(lines)
           T == {i \in 0 .. n : ~ Reading(lines, i)}
<1>1. n \in Nat
  OBVIOUS
<1> SUFFICES ASSUME T # {} PROVE FALSE
  OBVIOUS
<1>2. PICK d \in T : \A e \in T : d <= e
  <2>1. T \in SUBSET Nat
    BY <1>1
  <2> HIDE DEF T
  <2> QED
    BY <2>1, LeastNumber
<1>3. Scanned(lines)[d] = ScanStep(lines, Scanned(lines), d)
  BY <1>1, ScanEquation
<1>4. d # 0
  <2> SUFFICES ASSUME d = 0 PROVE Reading(lines, 0)
    BY <1>2
  <2>1. Scanned(lines)[0] = Nothing
    BY <1>3, Zenon DEF ScanStep
  <2>2. Opens(lines, 0) = {} /\ ClosedBy(lines, 0) = {}
    BY <1>1 DEF Opens, ClosedBy, Closes
  <2>3. /\ Nothing.inside = FALSE /\ Nothing.found = FALSE
        /\ Nothing = [inside |-> Nothing.inside, body |-> Nothing.body,
                      best |-> Nothing.best, found |-> Nothing.found]
    BY DEF Nothing
  <2> HIDE DEF T, n
  <2> QED
    BY <2>1, <2>2, <2>3, Zenon DEF Reading
<1>5. /\ d \in 1 .. n /\ d - 1 \in 0 .. n /\ d \in Nat /\ d - 1 \in Nat /\ d - 1 < d
      /\ Reading(lines, d - 1)
  <2>1. d - 1 \notin T
    <3>1. d \in 0 .. n
      BY <1>2
    <3>2. d - 1 < d /\ ~ d <= d - 1
      BY <1>1, <1>4, <3>1
    <3> HIDE DEF T
    <3> QED
      BY <1>2, <3>2
  <2> QED
    BY <1>1, <1>2, <1>4, <2>1
<1> DEFINE acc  == Scanned(lines)[d - 1]
           now  == Scanned(lines)[d]
           old  == Opens(lines, d - 1)
           opens == Opens(lines, d)
           line == lines[d]
<1>6. /\ acc = [inside |-> acc.inside, body |-> acc.body, best |-> acc.best, found |-> acc.found]
      /\ acc.inside = (old # {})
      /\ acc.inside => acc.body = SubSeq(lines, Min(old) + 1, d - 1)
      /\ acc.found = (ClosedBy(lines, d - 1) # {})
      /\ acc.found => acc.best = BlockAt(lines, Max(ClosedBy(lines, d - 1)))
  BY <1>5 DEF Reading
<1>7. now = IF ~ acc.inside
            THEN IF line = OpenYAML THEN [acc EXCEPT !.inside = TRUE, !.body = <<>>] ELSE acc
            ELSE IF line = Bare
            THEN [acc EXCEPT !.inside = FALSE, !.found = TRUE, !.best = acc.body]
            ELSE [acc EXCEPT !.body = Append(@, line)]
  BY <1>3, <1>4, Zenon DEF ScanStep
<1>8. opens = IF line = Bare THEN {} ELSE IF line = OpenYAML THEN old \cup {d} ELSE old
  BY <1>1, <1>5, OpensStep
<1>9. old \subseteq 1 .. d - 1
  BY DEF Opens
<1>10. IF line = Bare /\ old # {}
       THEN /\ d \in ClosedBy(lines, d) /\ Max(ClosedBy(lines, d)) = d
       ELSE ClosedBy(lines, d) = ClosedBy(lines, d - 1)
  BY <1>1, <1>5, ClosedStep
<1>11. SUFFICES /\ now = [inside |-> now.inside, body |-> now.body,
                          best |-> now.best, found |-> now.found]
                /\ now.inside = (opens # {})
                /\ now.inside => now.body = SubSeq(lines, Min(opens) + 1, d)
                /\ now.found = (ClosedBy(lines, d) # {})
                /\ now.found => now.best = BlockAt(lines, Max(ClosedBy(lines, d)))
  BY <1>2, Zenon DEF Reading
<1>12. /\ line # Bare \/ line # OpenYAML
       /\ BlockAt(lines, d) = SubSeq(lines, Min(old) + 1, d - 1)
  BY FencesDiffer DEF BlockAt
<1> HIDE DEF acc, now, old, opens, line, n, T
<1>13. CASE ~ acc.inside /\ line = OpenYAML
  <2>1. old = {} /\ opens = {d} /\ line # Bare
    BY <1>6, <1>8, <1>12, <1>13
  <2>2. Min(opens) = d
    BY <1>5, <2>1, MinIs
  <2>3. SubSeq(lines, d + 1, d) = <<>>
    BY <1>5, SubSeqEmpty
  <2>4. now = [inside |-> TRUE, body |-> <<>>, best |-> acc.best, found |-> acc.found]
    BY <1>6, <1>7, <1>13
  <2>5. ClosedBy(lines, d) = ClosedBy(lines, d - 1)
    BY <1>10, <2>1
  <2> QED
    BY <1>6, <2>1, <2>2, <2>3, <2>4, <2>5
<1>14. CASE ~ acc.inside /\ line # OpenYAML
  <2>1. old = {} /\ opens = {}
    BY <1>6, <1>8, <1>14
  <2>2. now = acc
    BY <1>7, <1>14
  <2>3. ClosedBy(lines, d) = ClosedBy(lines, d - 1)
    BY <1>10, <2>1
  <2> QED
    BY <1>6, <1>14, <2>1, <2>2, <2>3
<1>15. CASE acc.inside /\ line = Bare
  <2>1. old # {} /\ opens = {}
    BY <1>6, <1>8, <1>15
  <2>2. now = [inside |-> FALSE, body |-> acc.body, best |-> acc.body, found |-> TRUE]
    BY <1>6, <1>7, <1>15
  <2>3. ClosedBy(lines, d) # {} /\ Max(ClosedBy(lines, d)) = d
    BY <1>10, <1>15, <2>1
  <2> QED
    BY <1>6, <1>12, <1>15, <2>1, <2>2, <2>3
<1>16. CASE acc.inside /\ line # Bare
  <2>1. old # {} /\ opens \in {old, old \cup {d}}
    BY <1>6, <1>8, <1>16
  <2>2. PICK m \in old : \A o \in old : m <= o
    <3>1. old \in SUBSET Nat
      BY <1>5, <1>9
    <3> QED
      BY <2>1, <3>1, LeastNumber
  <2>3. m \in 1 .. d - 1 /\ Min(old) = m /\ Min(opens) = m
    <3>1. m \in 1 .. d - 1 /\ old \in SUBSET Nat /\ opens \in SUBSET Nat /\ m \in opens
      BY <1>5, <1>9, <2>1, <2>2
    <3>2. \A o \in opens : m <= o
      BY <1>5, <2>1, <2>2, <3>1
    <3> QED
      BY <2>2, <3>1, <3>2, MinIs
  <2>4. SubSeq(lines, m + 1, d) = Append(SubSeq(lines, m + 1, d - 1), line)
    <3>1. m + 1 \in 1 .. Len(lines) /\ d \in m + 1 .. Len(lines)
      BY <1>5, <2>3 DEF n
    <3>2. SubSeq(lines, m + 1, d) = SubSeq(lines, m + 1, d - 1) \o <<lines[d]>>
      BY <3>1, SubSeqRecursiveSecond
    <3>3. SubSeq(lines, m + 1, d - 1) \in Seq(S)
      <4>1. \A i \in m + 1 .. d - 1 : lines[i] \in S
        BY <1>5, <2>3 DEF n
      <4> QED
        BY <1>5, <2>3, <4>1, SubSeqProperties
    <3>4. lines[d] \in S
      BY <1>5 DEF n
    <3>5. \A q \in Seq(S), x \in S : q \o <<x>> = Append(q, x)
      OBVIOUS
    <3> QED
      BY <3>2, <3>3, <3>4, <3>5, Zenon DEF line
  <2>5. now = [inside |-> TRUE, body |-> Append(acc.body, line),
               best |-> acc.best, found |-> acc.found]
    BY <1>6, <1>7, <1>16
  <2>6. ClosedBy(lines, d) = ClosedBy(lines, d - 1)
    BY <1>10, <1>16
  <2>7. opens # {}
    BY <2>1
  <2> QED
    BY <1>6, <1>16, <2>3, <2>4, <2>5, <2>6, <2>7
<1> QED
  BY <1>6, <1>13, <1>14, <1>15, <1>16

\* The binding verdict is always the final block: whatever else is said and fenced
\* before it, lastYAMLBlock finds the last block that is closed, if there is one, and
\* all of its lines.
THEOREM LastBlockBinds ==
  ASSUME NEW S, NEW lines \in Seq(S)
  PROVE  LET last == lastYAMLBlock(lines)
         IN  /\ last.found = (Closes(lines) # {})
             /\ last.found => last.best = BlockAt(lines, Max(Closes(lines)))
<1>1. Len(lines) \in Nat /\ Len(lines) \in 0 .. Len(lines)
  OBVIOUS
<1>2. Reading(lines, Len(lines))
  BY <1>1, AllIsRead
<1>3. ClosedBy(lines, Len(lines)) = Closes(lines)
  BY <1>1 DEF ClosedBy, Closes
<1> QED
  BY <1>2, <1>3, LastBlockIsScanned, Zenon DEF Reading

\* What keeps the contract is understood as it is meant, and what does not, as none.
THEOREM ContractIsUnderstood == Contract => Understood
<1> SUFFICES ASSUME Contract PROVE Understood
  OBVIOUS
<1>1. ASSUME NEW p \in Preambles, NEW v \in Verdicts
      PROVE  ParseVerdict(p \o Block(v)) = v
  <2> DEFINE n     == Len(p)
             lines == p \o Block(v)
             S     == Range(p) \cup {OpenYAML, YAML(v), Bare}
  <2>1. p \in Seq(Range(p)) /\ Opens(p, n) = {} /\ n \in Nat
    <3>1. p \in Seq(Range(p)) /\ Opens(p, n) = {}
      BY DEF Contract
    <3> QED
      BY <3>1
  <2>2. lines \in Seq(S) /\ Len(lines) = n + 3
    BY <2>1 DEF Block
  <2>3. /\ lines[n + 1] = OpenYAML /\ lines[n + 2] = YAML(v) /\ lines[n + 3] = Bare
        /\ \A i \in 1 .. n : lines[i] = p[i]
    BY <2>1 DEF Block
  <2> HIDE DEF lines, S
  <2>4. Opens(lines, n) = {}
    <3>1. \A o \in 1 .. n : /\ lines[o] = p[o]
                            /\ \A k \in o + 1 .. n : lines[k] = p[k]
      BY <2>1, <2>3
    <3> QED
      BY <2>1, <3>1 DEF Opens
  <2>5. Opens(lines, n + 1) = {n + 1}
    <3>1. n + 1 \in 1 .. Len(lines) /\ (n + 1) - 1 = n
      BY <2>1, <2>2
    <3> QED
      BY <2>2, <2>3, <2>4, <3>1, OpensStep, FencesDiffer
  <2>6. Opens(lines, n + 2) = {n + 1}
    <3>1. n + 2 \in 1 .. Len(lines) /\ (n + 2) - 1 = n + 1
      BY <2>1, <2>2
    <3> QED
      BY <2>2, <2>3, <2>5, <3>1, OpensStep, FencesDiffer
  <2>7. n + 3 \in Closes(lines) /\ Max(Closes(lines)) = n + 3
    <3>1. n + 3 \in 1 .. Len(lines) /\ (n + 3) - 1 = n + 2
      BY <2>1, <2>2
    <3>2. n + 3 \in Closes(lines)
      BY <2>3, <2>6, <3>1 DEF Closes
    <3>3. Closes(lines) \in SUBSET Nat /\ \A c \in Closes(lines) : c <= n + 3
      BY <2>1, <2>2 DEF Closes
    <3> QED
      BY <3>2, <3>3, MaxIs
  <2>8. BlockAt(lines, n + 3) = <<YAML(v)>>
    <3>1. Min({n + 1}) = n + 1
      BY <2>1, MinIs
    <3>2. (n + 3) - 1 = n + 2 /\ (n + 1) + 1 = n + 2
      BY <2>1
    <3>3. BlockAt(lines, n + 3) = SubSeq(lines, n + 2, n + 2)
      BY <2>6, <3>1, <3>2 DEF BlockAt
    <3>4. SubSeq(lines, n + 2, n + 2) = <<lines[n + 2]>>
      <4>1. n + 2 \in 1 .. Len(lines) /\ n + 2 \in n + 2 .. Len(lines) /\ (n + 2) - 1 = n + 1
        BY <2>1, <2>2
      <4>2. SubSeq(lines, n + 2, n + 2) = SubSeq(lines, n + 2, n + 1) \o <<lines[n + 2]>>
        BY <2>2, <4>1, SubSeqRecursiveSecond
      <4>3. SubSeq(lines, n + 2, n + 1) = <<>>
        BY <2>1, SubSeqEmpty
      <4>4. \A x : <<>> \o <<x>> = <<x>>
        OBVIOUS
      <4> QED
        BY <4>2, <4>3, <4>4, Zenon
    <3> QED
      BY <2>3, <3>3, <3>4
  <2>9. lastYAMLBlock(lines).found /\ lastYAMLBlock(lines).best = <<YAML(v)>>
    BY <2>2, <2>7, <2>8, LastBlockBinds
  <2>10. Decodes(<<YAML(v)>>) /\ <<YAML(v)>>[1].verdict = v
    <3>1. YAML(v).kind = "text" /\ YAML(v).verdict = v
      BY DEF YAML
    <3> QED
      BY <3>1 DEF Decodes, Contract
  <2> QED
    BY <2>9, <2>10, Zenon DEF ParseVerdict, lines
<1>2. ASSUME NEW g \in Garbled PROVE ParseVerdict(g) = Malformed
  <2>1. g \in Seq(Range(g)) /\ (Closes(g) # {} => ~ Decodes(BlockAt(g, Max(Closes(g)))))
    BY DEF Contract
  <2>2. LET last == lastYAMLBlock(g)
        IN  /\ last.found = (Closes(g) # {})
            /\ last.found => last.best = BlockAt(g, Max(Closes(g)))
    BY <2>1, LastBlockBinds
  <2>3. ~ (lastYAMLBlock(g).found /\ Decodes(lastYAMLBlock(g).best))
    BY <2>1, <2>2, Zenon
  <2> QED
    BY <2>3, Zenon DEF ParseVerdict
<1> QED
  BY <1>1, <1>2 DEF Understood

-----------------------------------------------------------------------------
(* The inductive invariant.                                                *)

Budget(r) == IF r = Senior THEN SeniorMaxLoops ELSE MaxLoops

\* Types, the domains of the files among them.
Open == {{}} \cup {v.findings : v \in Verdicts}
RunRecord == [status     : RunStatus,
              st         : [Subtask -> SubtaskStatus],
              loops      : [Subtask -> Nat],
              unresolved : [Subtask -> Open],
              senior : SeniorReviewStatus, rounds : Nat, open : Open]
Places == {"idle", "pass", "loop", "asking", "file", "decide", "reported", "counted",
           "failing", "finished", "canceled", "broken"}

ReviewTyped ==
  /\ mem \in RunRecord /\ disk \in RunRecord
  /\ proc \in {"down", "executing", "senior", "classify"}
  /\ pc \in [Reviewed -> Places]
  /\ DOMAIN verdict = Reviewed /\ DOMAIN meant = Reviewed
  /\ DOMAIN rounds = Reviewed
  /\ \A r \in Reviewed : DOMAIN rounds[r] = 1 .. 1 + Budget(r)
  /\ DOMAIN fixes = 1 .. SeniorMaxLoops

\* The last answer about r was a verdict, and is taken for what it was meant to be.
Heard(r) == verdict[r] \in Verdicts /\ meant[r] = verdict[r]

\* What is known of the answer, from the call to the decision.
HeardInv(r) ==
  /\ pc[r] = "file" => verdict[r] = Malformed \/ Heard(r)
  /\ pc[r] \in {"decide", "reported", "counted"} => Heard(r)
  /\ pc[r] \in {"decide", "reported"} => rounds[r][Round(r)] = verdict[r]

\* A subtask that is done in either copy of the record was judged, and its worker
\* is beyond the review: its answer and its files stay as they are.
SubtaskDone(run, s) ==
  run.st[s] = "done" =>
    /\ Judged(s, run.loops[s], run.unresolved[s], MaxLoops)
    /\ pc[s] \in {"finished", "failing", "canceled", "broken"}

SubtaskInv(s) ==
  /\ mem.loops[s] <= MaxLoops /\ disk.loops[s] <= MaxLoops
  /\ SubtaskDone(mem, s) /\ SubtaskDone(disk, s)

\* The same of the review of the whole change, which has a report besides and was
\* told what the subtasks of this record left open.
LeftOpen(run) == UNION {run.unresolved[s] : s \in Subtask}

SeniorDone(run) ==
  run.senior = "done" =>
    /\ Judged(Senior, run.rounds, run.open, SeniorMaxLoops)
    /\ shown = LeftOpen(run)
    /\ ~ meant[Senior].approved => report = run.open
    /\ pc[Senior] \in {"idle", "finished", "failing"}

\* While subtasks run this review has not begun.
Unreviewed(run) == run.senior \notin {"running", "done"}
SeniorWaits ==
  proc = "executing" => pc[Senior] = "idle" /\ Unreviewed(mem) /\ Unreviewed(disk)

\* What it knows at each of its places.
Underway == {"loop", "asking", "file", "decide", "reported", "counted", "pass"}
Told ==
  /\ pc[Senior] \in Underway => carried = LeftOpen(mem)
  /\ pc[Senior] \in {"file", "decide", "reported"} => shown = LeftOpen(mem)
Reporting ==
  pc[Senior] = "reported" =>
    /\ ~ verdict[Senior].approved /\ mem.rounds = SeniorMaxLoops
    /\ report = verdict[Senior].findings
Counted ==
  pc[Senior] = "counted" =>
    /\ ~ verdict[Senior].approved
    /\ disk.rounds = mem.rounds /\ mem.rounds \in 1 .. SeniorMaxLoops
    /\ rounds[Senior][mem.rounds] = verdict[Senior]

SeniorInv ==
  /\ disk.rounds <= mem.rounds /\ mem.rounds <= SeniorMaxLoops
  /\ disk.senior = "done" => mem.senior = "done"
  /\ SeniorDone(mem) /\ SeniorDone(disk)
  /\ SeniorWaits /\ Told /\ Reporting /\ Counted

RInv ==
  /\ ReviewTyped
  /\ \A r \in Reviewed : HeardInv(r)
  /\ \A s \in Subtask : SubtaskInv(s)
  /\ SeniorInv /\ RemediationsFiled

-----------------------------------------------------------------------------
(* Whose step it is.                                                       *)

\* A record that differs from the one in memory in the entry of s only.
Elsewhere(run, s) ==
  /\ \A t \in Subtask \ {s} : /\ run.st[t] = mem.st[t] /\ run.loops[t] = mem.loops[t]
                              /\ run.unresolved[t] = mem.unresolved[t]
  /\ run.senior = mem.senior /\ run.rounds = mem.rounds /\ run.open = mem.open

Entry(run, s, v, n, o) ==
  /\ run \in RunRecord /\ Elsewhere(run, s)
  /\ run.st[s] = v /\ run.loops[s] = n /\ run.unresolved[s] = o

\* What is said and filed about others than r stays.
AboutOnly(r) ==
  /\ \A q \in Reviewed \ {r} :
       verdict'[q] = verdict[q] /\ meant'[q] = meant[q] /\ rounds'[q] = rounds[q]
  /\ DOMAIN verdict' = Reviewed /\ DOMAIN meant' = Reviewed /\ DOMAIN rounds' = Reviewed
  /\ DOMAIN rounds'[r] = 1 .. 1 + Budget(r)

\* The reviewers are the subtasks' and the one of the whole change.
LEMMA WhoReviews ==
  /\ Subtask \subseteq Reviewed /\ Senior \in Reviewed /\ Senior \notin Subtask
  /\ \A r \in Reviewed : r \in Subtask \/ r = Senior
BY ReviewAssumption DEF Reviewed

\* Saying and filing nothing is about nobody.
LEMMA NothingAbout ==
  ASSUME ReviewTyped, NEW r \in Reviewed, UNCHANGED <<verdict, meant, rounds>>
  PROVE  AboutOnly(r)
BY DEF AboutOnly, ReviewTyped

\* What has been filed stays, as long as no round that is counted is held again.
LEMMA RemediationsStay ==
  ASSUME RemediationsFiled, disk.rounds \in Nat, disk'.rounds \in Nat,
         disk.rounds <= disk'.rounds, UNCHANGED fixes,
         \A n \in 1 .. SeniorMaxLoops : n <= disk.rounds => rounds'[Senior][n] = rounds[Senior][n]
  PROVE  RemediationsFiled'
<1> SUFFICES ASSUME NEW n \in 1 .. SeniorMaxLoops, fixes[n] \notin {Absent, Torn}
             PROVE  /\ n <= disk'.rounds
                    /\ rounds'[Senior][n] \in Verdicts /\ ~ rounds'[Senior][n].approved
                    /\ fixes[n] = rounds'[Senior][n].findings
  BY DEF RemediationsFiled
<1>1. /\ n <= disk.rounds /\ n \in Nat
      /\ rounds[Senior][n] \in Verdicts /\ ~ rounds[Senior][n].approved
      /\ fixes[n] = rounds[Senior][n].findings
  BY ReviewAssumption DEF RemediationsFiled
<1>2. n <= disk'.rounds
  BY <1>1
<1>3. rounds'[Senior][n] = rounds[Senior][n]
  BY <1>1
<1> QED
  BY <1>1, <1>2, <1>3

\* A step of the worker of s has to show only what the invariant says of s.
LEMMA SubtaskMoves ==
  ASSUME RInv, NEW s \in Subtask, NEW place \in Places,
         proc = "executing" \/ UNCHANGED record,
         UNCHANGED <<proc, carried, shown, fixes, report>>,
         pc' = [pc EXCEPT ![s] = place], AboutOnly(s),
         mem' \in RunRecord, Elsewhere(mem', s), disk' \in {disk, mem'},
         HeardInv(s)', SubtaskInv(s)'
  PROVE  RInv'
<1> USE DEF RInv
<1>1. /\ \A q \in Reviewed \ {s} : pc'[q] = pc[q]
      /\ pc' \in [Reviewed -> Places] /\ pc'[Senior] = pc[Senior]
      /\ rounds'[Senior] = rounds[Senior] /\ verdict'[Senior] = verdict[Senior]
      /\ meant'[Senior] = meant[Senior]
  BY WhoReviews DEF ReviewTyped, AboutOnly
<1>2. ReviewTyped'
  BY <1>1, WhoReviews DEF ReviewTyped, AboutOnly
<1>3. ASSUME NEW q \in Reviewed \ {s} PROVE HeardInv(q)'
  <2>1. Round(q)' = Round(q)
    BY <1>3, WhoReviews DEF Round, Elsewhere
  <2> QED
    BY <1>1, <2>1 DEF HeardInv, Heard, AboutOnly
<1>4. ASSUME NEW t \in Subtask \ {s} PROVE SubtaskInv(t)'
  <2>1. /\ mem'.st[t] = mem.st[t] /\ mem'.loops[t] = mem.loops[t]
        /\ mem'.unresolved[t] = mem.unresolved[t]
        /\ pc'[t] = pc[t] /\ meant'[t] = meant[t] /\ rounds'[t] = rounds[t]
    BY <1>1, WhoReviews DEF Elsewhere, AboutOnly
  <2>2. SubtaskDone(mem, t)' /\ (disk' = mem' => SubtaskDone(disk, t)')
    BY <2>1 DEF SubtaskInv, SubtaskDone, Judged
  <2>3. disk' = disk => SubtaskDone(disk, t)'
    BY <2>1 DEF SubtaskInv, SubtaskDone, Judged
  <2> QED
    BY <2>1, <2>2, <2>3 DEF SubtaskInv
<1>5. SeniorInv'
  <2>1. mem'.rounds = mem.rounds /\ mem'.senior = mem.senior /\ mem'.open = mem.open
    BY DEF Elsewhere
  <2>2. CASE UNCHANGED record
    <3>1. SeniorDone(mem)' /\ SeniorDone(disk)'
      BY <1>1, <2>2 DEF record, SeniorInv, SeniorDone, Judged, LeftOpen
    <3>2. SeniorWaits' /\ Told'
      BY <1>1, <2>2 DEF record, SeniorInv, SeniorWaits, Unreviewed, Told, Underway, LeftOpen
    <3>3. Reporting' /\ Counted'
      BY <1>1, <2>2 DEF record, SeniorInv, Reporting, Counted
    <3> QED
      BY <2>2, <3>1, <3>2, <3>3 DEF record, SeniorInv
  <2>3. CASE proc = "executing"
    <3>1. pc'[Senior] = "idle" /\ Unreviewed(mem)' /\ Unreviewed(disk)'
      BY <1>1, <2>1, <2>3 DEF SeniorInv, SeniorWaits, Unreviewed
    <3>2. disk'.rounds <= mem'.rounds /\ mem'.rounds <= SeniorMaxLoops
      BY <2>1 DEF SeniorInv, ReviewTyped, RunRecord
    <3> QED
      BY <3>1, <3>2
         DEF SeniorInv, SeniorDone, SeniorWaits, Told, Underway, Reporting, Counted, Unreviewed
  <2> QED
    BY <2>2, <2>3
<1>6. RemediationsFiled'
  <2>1. disk.rounds \in Nat /\ disk'.rounds \in Nat /\ disk.rounds <= disk'.rounds
    BY DEF Elsewhere, SeniorInv, ReviewTyped, RunRecord
  <2> QED
    BY <1>1, <2>1, RemediationsStay
<1> QED
  BY <1>2, <1>3, <1>4, <1>5, <1>6

\* A step of the review of the whole change has to show only what is said of it.
LEMMA SeniorMoves ==
  ASSUME RInv, NEW place \in Places, UNCHANGED proc,
         pc' = [pc EXCEPT ![Senior] = place], AboutOnly(Senior),
         DOMAIN fixes' = DOMAIN fixes,
         mem' \in RunRecord,
         mem'.st = mem.st /\ mem'.loops = mem.loops /\ mem'.unresolved = mem.unresolved,
         disk' \in {disk, mem'},
         HeardInv(Senior)', SeniorInv', RemediationsFiled'
  PROVE  RInv'
<1> USE DEF RInv
<1>1. /\ \A t \in Subtask : pc'[t] = pc[t]
      /\ pc' \in [Reviewed -> Places]
  BY WhoReviews DEF ReviewTyped
<1>2. ReviewTyped'
  BY <1>1, WhoReviews DEF ReviewTyped, AboutOnly
<1>3. ASSUME NEW t \in Subtask PROVE HeardInv(t)' /\ SubtaskInv(t)'
  <2>1. pc'[t] = pc[t] /\ verdict'[t] = verdict[t] /\ meant'[t] = meant[t] /\ rounds'[t] = rounds[t]
    BY <1>1, WhoReviews DEF AboutOnly
  <2>2. Round(t)' = Round(t)
    BY WhoReviews DEF Round
  <2>3. HeardInv(t)'
    BY <2>1, <2>2, WhoReviews DEF HeardInv, Heard
  <2>4. SubtaskInv(t)'
    BY <2>1 DEF SubtaskInv, SubtaskDone, Judged
  <2> QED
    BY <2>3, <2>4
<1> QED
  BY <1>2, <1>3, WhoReviews

\* A step of the process around the loops writes no more than the run's status.
LEMMA ProcessMoves ==
  ASSUME RInv, UNCHANGED <<pc, verdict, meant, shown, carried, files>>,
         proc' \in {"down", "executing", "senior", "classify"},
         proc' = "executing" => proc = "executing",
         NEW v \in RunStatus, mem' \in {mem, [mem EXCEPT !.status = v]}, disk' \in {disk, mem'}
  PROVE  RInv'
<1> USE DEF RInv
<1>1. /\ mem' \in RunRecord /\ mem'.st = mem.st /\ mem'.loops = mem.loops
      /\ mem'.unresolved = mem.unresolved
      /\ mem'.senior = mem.senior /\ mem'.rounds = mem.rounds /\ mem'.open = mem.open
  BY DEF ReviewTyped, RunRecord
<1>2. ReviewTyped'
  BY <1>1 DEF ReviewTyped, files
<1>3. \A r \in Reviewed : HeardInv(r)'
  BY <1>1 DEF HeardInv, Heard, Round, files
<1>4. \A t \in Subtask : SubtaskInv(t)'
  BY <1>1 DEF SubtaskInv, SubtaskDone, Judged, files
<1>5. SeniorInv'
  <2>1. disk'.rounds <= mem'.rounds /\ mem'.rounds <= SeniorMaxLoops
    BY <1>1 DEF SeniorInv, ReviewTyped, RunRecord
  <2>2. SeniorDone(mem)' /\ SeniorDone(disk)'
    BY <1>1 DEF SeniorInv, SeniorDone, Judged, LeftOpen, files
  <2>3. SeniorWaits' /\ Told' /\ Reporting'
    BY <1>1 DEF SeniorInv, SeniorWaits, Unreviewed, Told, LeftOpen, Reporting, files
  <2>4. Counted'
    BY <1>1 DEF SeniorInv, Counted, files
  <2>5. disk'.senior = "done" => mem'.senior = "done"
    BY <1>1 DEF SeniorInv
  <2> QED
    BY <2>1, <2>2, <2>3, <2>4, <2>5 DEF SeniorInv
<1>6. RemediationsFiled'
  <2>1. disk.rounds \in Nat /\ disk'.rounds \in Nat /\ disk.rounds <= disk'.rounds
    BY <1>1 DEF SeniorInv, ReviewTyped, RunRecord
  <2> QED
    BY <2>1, RemediationsStay DEF files
<1> QED
  BY <1>2, <1>3, <1>4, <1>5, <1>6

-----------------------------------------------------------------------------
(* Steps of a subtask's loop.                                              *)

\* Where a worker has left the review.
Beyond == {"finished", "failing", "canceled", "broken"}

\* Where the last answer is under consideration.
Weighing == {"file", "decide", "reported", "counted"}

\* A step that neither says nor writes.
LEMMA SubtaskGoes ==
  ASSUME RInv, NEW s \in Subtask, NEW place \in Places \ Weighing, Goto(s, place),
         pc[s] \in Beyond => place \in Beyond,
         UNCHANGED <<record, proc, verdict, meant, carried, shown, files>>
  PROVE  RInv'
<1>1. pc' = [pc EXCEPT ![s] = place] /\ pc'[s] = place
  BY WhoReviews DEF Goto, RInv, ReviewTyped
<1>2. AboutOnly(s) /\ Elsewhere(mem', s) /\ mem' \in RunRecord /\ disk' = disk
  BY NothingAbout, WhoReviews DEF RInv, ReviewTyped, Elsewhere, record, files
<1>3. HeardInv(s)'
  BY <1>1 DEF HeardInv, Weighing
<1>4. SubtaskInv(s)'
  BY <1>1 DEF RInv, SubtaskInv, SubtaskDone, Judged, Beyond, record, files
<1>5. UNCHANGED <<fixes, report>>
  BY DEF files
<1> QED
  BY <1>1, <1>2, <1>3, <1>4, <1>5, SubtaskMoves

\* A commit: the entry of the subtask in memory, and on disk if it can be saved.
LEMMA SubtaskCommits ==
  ASSUME RInv, proc = "executing", NEW s \in Subtask,
         NEW run, NEW v, NEW n, NEW o, Entry(run, s, v, n, o), n <= MaxLoops,
         NEW ok \in Places \ Weighing, NEW bad \in Places \ Weighing, Commit(s, run, ok, bad),
         pc[s] \in Beyond \/ v = "done" => ok \in Beyond /\ bad \in Beyond,
         v = "done" => Judged(s, n, o, MaxLoops),
         UNCHANGED <<verdict, meant, shown>>
  PROVE  RInv'
<1>1. PICK place \in {ok, bad} : pc' = [pc EXCEPT ![s] = place]
  BY DEF Commit, Save, Goto
<1>2. /\ pc'[s] = place /\ place \in Places \ Weighing
      /\ pc[s] \in Beyond \/ v = "done" => place \in Beyond
  BY <1>1, WhoReviews DEF RInv, ReviewTyped
<1>3. mem' = run /\ disk' \in {disk, mem'} /\ UNCHANGED <<proc, carried, rounds, fixes, report>>
  BY DEF Commit, Save, process, files
<1>4. AboutOnly(s) /\ Elsewhere(mem', s) /\ mem' \in RunRecord
  BY <1>3, NothingAbout, WhoReviews DEF RInv, Entry
<1>5. HeardInv(s)'
  BY <1>2 DEF HeardInv, Weighing
<1>6. SubtaskInv(s)'
  <2>1. SubtaskInv(s)
    BY DEF RInv
  <2>2. SubtaskDone(mem, s)' /\ (disk' = mem' => SubtaskDone(disk, s)')
    BY <1>2, <1>3 DEF Entry, SubtaskDone, Judged, Beyond
  <2>3. disk' = disk => SubtaskDone(disk, s)'
    BY <1>2, <1>3, <2>1 DEF SubtaskInv, SubtaskDone, Judged, Beyond
  <2> QED
    BY <1>3, <2>1, <2>2, <2>3 DEF Entry, SubtaskInv
<1> QED
  BY <1>1, <1>3, <1>4, <1>5, <1>6, SubtaskMoves

\* What a commit writes, as an entry.
LEMMA StatusEntry ==
  ASSUME mem \in RunRecord, NEW s \in Subtask, NEW v \in SubtaskStatus
  PROVE  Entry([mem EXCEPT !.st[s] = v], s, v, mem.loops[s], mem.unresolved[s])
BY DEF Entry, Elsewhere, RunRecord

\* One more remediation is counted.
LEMMA LoopEntry ==
  ASSUME mem \in RunRecord, NEW s \in Subtask, NEW v \in SubtaskStatus
  PROVE  Entry([mem EXCEPT !.st[s] = v, !.loops[s] = @ + 1],
               s, v, mem.loops[s] + 1, mem.unresolved[s])
<1>1. mem.loops[s] + 1 \in Nat
  BY DEF RunRecord
<1>2. PICK n \in Nat : n = mem.loops[s] + 1
  BY <1>1
<1>3. Entry([mem EXCEPT !.st[s] = v, !.loops[s] = n], s, v, n, mem.unresolved[s])
  BY DEF Entry, Elsewhere, RunRecord
<1>4. [mem EXCEPT !.st[s] = v, !.loops[s] = @ + 1] = [mem EXCEPT !.st[s] = v, !.loops[s] = n]
  BY <1>2
<1> QED
  BY <1>2, <1>3, <1>4

\* The findings that stay open are recorded.
LEMMA OpenEntry ==
  ASSUME mem \in RunRecord, NEW s \in Subtask, NEW v \in SubtaskStatus, NEW o \in Open
  PROVE  Entry([mem EXCEPT !.st[s] = v, !.unresolved[s] = o], s, v, mem.loops[s], o)
BY DEF Entry, Elsewhere, RunRecord

\* A subtask starts, or is not started on a cancelled context.
LEMMA StartSubtaskKeeps ==
  ASSUME RInv, proc = "executing", NEW s \in Subtask, StartSubtask(s)
  PROVE  RInv'
<1>1. pc[s] = "idle" /\ mem \in RunRecord /\ mem.loops[s] <= MaxLoops
  BY DEF StartSubtask, RInv, ReviewTyped, SubtaskInv
<1>2. CASE Commit(s, [mem EXCEPT !.st[s] = "implementing"], "pass", "broken") /\ UNCHANGED answer
  <2>1. Entry([mem EXCEPT !.st[s] = "implementing"], s, "implementing", mem.loops[s],
              mem.unresolved[s])
    BY <1>1, StatusEntry DEF SubtaskStatus
  <2> QED
    BY <1>1, <1>2, <2>1, SubtaskCommits DEF Places, Weighing, Beyond, answer
<1>3. CASE /\ canceled /\ Goto(s, "canceled")
           /\ UNCHANGED <<record, process, answer, carried, files, faults>>
  BY <1>3, SubtaskGoes DEF Places, Weighing, Beyond, process, answer
<1> QED
  BY <1>2, <1>3 DEF StartSubtask

\* A round begins, or ends before it on a cancelled context.
LEMMA EnterReviewKeeps ==
  ASSUME RInv, proc = "executing", NEW s \in Subtask, EnterReview(s)
  PROVE  RInv'
<1>1. pc[s] = "loop" /\ mem \in RunRecord /\ mem.loops[s] <= MaxLoops
  BY DEF EnterReview, RInv, ReviewTyped, SubtaskInv
<1>2. CASE /\ Commit(s, [mem EXCEPT !.st[s] = "reviewing"], "asking", "failing")
           /\ UNCHANGED <<verdict, meant, shown>>
  <2>1. Entry([mem EXCEPT !.st[s] = "reviewing"], s, "reviewing", mem.loops[s],
              mem.unresolved[s])
    BY <1>1, StatusEntry DEF SubtaskStatus
  <2> QED
    BY <1>1, <1>2, <2>1, SubtaskCommits DEF Places, Weighing, Beyond
<1>3. CASE Goto(s, "failing") /\ UNCHANGED <<record, process, answer, carried, files, faults>>
  BY <1>3, SubtaskGoes DEF Places, Weighing, Beyond, process, answer
<1> QED
  BY <1>2, <1>3 DEF EnterReview

\* The verdict settles the subtask or asks for a remediation.
LEMMA DecisionKeeps ==
  ASSUME RInv, proc = "executing", NEW s \in Subtask,
         Approve(s) \/ ProceedFlagged(s) \/ Remediate(s)
  PROVE  RInv'
<1>1. /\ pc[s] = "decide" /\ UNCHANGED <<verdict, meant, shown>>
      /\ mem \in RunRecord /\ mem.loops[s] \in Nat /\ mem.loops[s] <= MaxLoops
  BY DEF Approve, ProceedFlagged, Remediate, Decides, answer, RInv, ReviewTyped, RunRecord,
         SubtaskInv
<1>2. /\ verdict[s] \in Verdicts /\ meant[s] = verdict[s] /\ meant[s] # NoVerdict
      /\ rounds[s][mem.loops[s] + 1] = verdict[s]
      /\ verdict[s].findings \in Open /\ {} \in Open
  <2>1. HeardInv(s) /\ s # Senior
    BY WhoReviews DEF RInv
  <2>2. Round(s) = 1 + mem.loops[s] /\ 1 + mem.loops[s] = mem.loops[s] + 1
    BY <1>1, <2>1 DEF Round
  <2> QED
    BY <1>1, <2>1, <2>2, VerdictAssumption DEF HeardInv, Heard, Open
<1>3. CASE Approve(s)
  <2>1. Entry([mem EXCEPT !.st[s] = "done", !.unresolved[s] = {}], s, "done", mem.loops[s], {})
    BY <1>1, <1>2, OpenEntry DEF SubtaskStatus
  <2>2. Judged(s, mem.loops[s], {}, MaxLoops)
    BY <1>2, <1>3 DEF Approve, Judged
  <2>3. Commit(s, [mem EXCEPT !.st[s] = "done", !.unresolved[s] = {}], "finished", "failing")
    BY <1>3 DEF Approve
  <2> QED
    BY <1>1, <2>1, <2>2, <2>3, SubtaskCommits DEF Places, Weighing, Beyond
<1>4. CASE ProceedFlagged(s)
  <2> DEFINE o == verdict[s].findings
  <2>1. Entry([mem EXCEPT !.st[s] = "done", !.unresolved[s] = o], s, "done", mem.loops[s], o)
    BY <1>1, <1>2, OpenEntry DEF SubtaskStatus
  <2>2. Judged(s, mem.loops[s], o, MaxLoops)
    <3>1. mem.loops[s] = MaxLoops
      BY <1>1, <1>4, ReviewAssumption DEF ProceedFlagged
    <3> QED
      BY <1>2, <1>4, <3>1 DEF ProceedFlagged, Judged
  <2>3. Commit(s, [mem EXCEPT !.st[s] = "done", !.unresolved[s] = o], "finished", "failing")
    BY <1>4 DEF ProceedFlagged
  <2> HIDE DEF o
  <2> QED
    BY <1>1, <2>1, <2>2, <2>3, SubtaskCommits DEF Places, Weighing, Beyond
<1>5. CASE Remediate(s)
  <2> DEFINE run == [mem EXCEPT !.st[s] = "implementing", !.loops[s] = @ + 1]
  <2>1. Entry(run, s, "implementing", mem.loops[s] + 1, mem.unresolved[s])
    BY <1>1, LoopEntry DEF SubtaskStatus
  <2>2. mem.loops[s] + 1 <= MaxLoops
    BY <1>1, <1>5, ReviewAssumption DEF Remediate
  <2>3. Commit(s, run, "pass", "failing")
    BY <1>5 DEF Remediate
  <2> HIDE DEF run
  <2> QED
    BY <1>1, <2>1, <2>2, <2>3, SubtaskCommits DEF Places, Weighing, Beyond
<1> QED
  BY <1>3, <1>4, <1>5

\* An error is settled: failed, or left for another process.
LEMMA SettleErrorKeeps ==
  ASSUME RInv, proc = "executing", NEW s \in Subtask, SettleError(s)
  PROVE  RInv'
<1>1. pc[s] = "failing" /\ mem \in RunRecord /\ mem.loops[s] <= MaxLoops
  BY DEF SettleError, RInv, ReviewTyped, SubtaskInv
<1>2. CASE Commit(s, [mem EXCEPT !.st[s] = "failed"], "finished", "broken") /\ UNCHANGED answer
  <2>1. Entry([mem EXCEPT !.st[s] = "failed"], s, "failed", mem.loops[s], mem.unresolved[s])
    BY <1>1, StatusEntry DEF SubtaskStatus
  <2> QED
    BY <1>1, <1>2, <2>1, SubtaskCommits DEF Places, Weighing, Beyond, answer
<1>3. CASE Goto(s, "canceled") /\ UNCHANGED <<record, process, answer, carried, files, faults>>
  BY <1>3, SubtaskGoes DEF Places, Weighing, Beyond, process, answer
<1> QED
  BY <1>2, <1>3 DEF SettleError

\* Every step of the loop around a reviewer and an executor.
LEMMA SubtaskKeeps ==
  ASSUME RInv, proc = "executing", NEW s \in Subtask, SubtaskStep(s)
  PROVE  RInv'
BY StartSubtaskKeeps, EnterReviewKeeps, DecisionKeeps, SettleErrorKeeps DEF SubtaskStep

-----------------------------------------------------------------------------
(* Steps of a reviewer.                                                    *)

\* An answer is understood as it was meant, or asked for again, or an error.
LEMMA AnswersHeard ==
  ASSUME Understood, ReviewTyped, NEW r \in Reviewed, Answers(r)
  PROVE  /\ \E place \in {"asking", "failing", "file"} : pc' = [pc EXCEPT ![r] = place]
         /\ AboutOnly(r) /\ HeardInv(r)'
         /\ shown' = IF r = Senior THEN carried ELSE shown
         /\ UNCHANGED <<record, proc, carried, files>>
<1>1. PICK say \in Sayings :
        LET v == ParseVerdict(say.text)
        IN  /\ verdict' = [verdict EXCEPT ![r] = v]
            /\ meant' = [meant EXCEPT ![r] = say.meant]
            /\ Goto(r, CASE v = Malformed /\ asked[r] = 0           -> "asking"
                         [] v = Malformed /\ asked[r] = 1 /\ say.text = <<>> -> "failing"
                         [] OTHER -> "file")
  BY DEF Answers
<1>2. PICK place \in {"asking", "failing", "file"} : pc' = [pc EXCEPT ![r] = place]
  <2> DEFINE v == ParseVerdict(say.text)
             goes == CASE v = Malformed /\ asked[r] = 0           -> "asking"
                       [] v = Malformed /\ asked[r] = 1 /\ say.text = <<>> -> "failing"
                       [] OTHER -> "file"
  <2>1. pc' = [pc EXCEPT ![r] = goes]
    BY <1>1 DEF Goto
  <2>2. CASE v = Malformed /\ asked[r] = 0
    BY <2>1, <2>2
  <2>3. CASE v = Malformed /\ asked[r] = 1 /\ say.text = <<>>
    BY <2>1, <2>3
  <2>4. CASE ~ (v = Malformed /\ asked[r] = 0)
             /\ ~ (v = Malformed /\ asked[r] = 1 /\ say.text = <<>>)
    BY <2>1, <2>4
  <2> QED
    BY <2>2, <2>3, <2>4
<1>3. \/ ParseVerdict(say.text) = Malformed
      \/ ParseVerdict(say.text) = say.meant /\ say.meant \in Verdicts
  <2>1. CASE \E p \in Preambles, v \in Verdicts : say = [text |-> p \o Block(v), meant |-> v]
    <3>1. PICK p \in Preambles, v \in Verdicts : say = [text |-> p \o Block(v), meant |-> v]
      BY <2>1
    <3>2. say.text = p \o Block(v) /\ say.meant = v
      BY <3>1
    <3>3. ParseVerdict(p \o Block(v)) = v
      BY DEF Understood
    <3> QED
      BY <3>2, <3>3
  <2>2. CASE \E g \in Garbled : say = [text |-> g, meant |-> NoVerdict]
    <3>1. PICK g \in Garbled : say = [text |-> g, meant |-> NoVerdict]
      BY <2>2
    <3>2. say.text = g
      BY <3>1
    <3> QED
      BY <3>2 DEF Understood
  <2> QED
    BY <2>1, <2>2 DEF Sayings
<1>4. AboutOnly(r)
  BY <1>1 DEF AboutOnly, Answers, files, ReviewTyped
<1>5. pc'[r] = place
  BY <1>2 DEF ReviewTyped
<1>6. HeardInv(r)'
  BY <1>1, <1>3, <1>5 DEF HeardInv, Heard, ReviewTyped
<1> QED
  BY <1>2, <1>4, <1>6 DEF Answers, process

\* A round is filed whole before anything is decided on it.
LEMMA RoundFiled ==
  ASSUME RInv, NEW r \in Reviewed, FileRound(r)
  PROVE  /\ \E place \in {"decide", "failing"} : pc' = [pc EXCEPT ![r] = place]
         /\ AboutOnly(r) /\ HeardInv(r)'
         /\ \A n \in 1 .. 1 + Budget(r) : n # Round(r) => rounds'[r][n] = rounds[r][n]
         /\ UNCHANGED <<record, proc, answer, carried, fixes, report>>
<1>1. /\ pc[r] = "file" /\ UNCHANGED <<record, process, answer, carried, fixes, report>>
      /\ ReviewTyped /\ HeardInv(r)
  BY DEF FileRound, RInv
<1>2. PICK content \in {verdict[r], Torn, rounds[r][Round(r)]} :
        /\ Write(rounds[r][Round(r)], content, verdict[r], r,
                 IF verdict[r] = Malformed THEN "failing" ELSE "decide", "failing")
        /\ rounds' = [rounds EXCEPT ![r][Round(r)] = content]
  BY DEF FileRound
<1>3. PICK place \in {"decide", "failing"} :
        /\ pc' = [pc EXCEPT ![r] = place]
        /\ place = "decide" => content = verdict[r] /\ verdict[r] # Malformed
  BY <1>2 DEF Write, Goto
<1>4. Round(r) \in 1 .. 1 + Budget(r)
  <2>1. CASE r = Senior
    <3>1. mem.rounds \in Nat /\ mem.rounds <= SeniorMaxLoops
      BY DEF RInv, ReviewTyped, RunRecord, SeniorInv
    <3> QED
      BY <2>1, <3>1, ReviewAssumption DEF Round, Budget
  <2>2. CASE r # Senior
    <3>1. mem.loops[r] \in Nat /\ mem.loops[r] <= MaxLoops
      BY <2>2, WhoReviews DEF RInv, ReviewTyped, RunRecord, SubtaskInv
    <3> QED
      BY <2>2, <3>1, ReviewAssumption DEF Round, Budget
  <2> QED
    BY <2>1, <2>2
<1>5. /\ rounds'[r] = [rounds[r] EXCEPT ![Round(r)] = content]
      /\ \A q \in Reviewed \ {r} : rounds'[q] = rounds[q]
      /\ DOMAIN rounds' = Reviewed
  BY <1>1, <1>2 DEF ReviewTyped
<1>6. /\ DOMAIN rounds'[r] = 1 .. 1 + Budget(r)
      /\ rounds'[r][Round(r)] = content
      /\ \A n \in 1 .. 1 + Budget(r) : n # Round(r) => rounds'[r][n] = rounds[r][n]
  BY <1>1, <1>4, <1>5 DEF ReviewTyped
<1>7. AboutOnly(r)
  BY <1>1, <1>5, <1>6 DEF AboutOnly, ReviewTyped, answer
<1>8. HeardInv(r)'
  <2>1. pc'[r] = place /\ Round(r)' = Round(r) /\ verdict' = verdict /\ meant' = meant
    BY <1>1, <1>3 DEF ReviewTyped, Round, record, answer
  <2> QED
    BY <1>1, <1>3, <1>6, <2>1 DEF HeardInv, Heard
<1> QED
  BY <1>1, <1>3, <1>6, <1>7, <1>8 DEF process

\* A reviewer or an executor of a subtask.
LEMMA SubtaskReviewed ==
  ASSUME Understood, RInv, NEW s \in Subtask, ReviewerStep(s)
  PROVE  RInv'
<1>1. ReviewTyped /\ SubtaskInv(s) /\ mem \in RunRecord /\ s \in Reviewed /\ s # Senior
  BY WhoReviews DEF RInv, ReviewTyped
<1>2. ASSUME NEW place \in Places, pc' = [pc EXCEPT ![s] = place], pc[s] \notin Beyond,
             UNCHANGED record
      PROVE  SubtaskInv(s)' /\ Elsewhere(mem', s) /\ mem' \in RunRecord /\ disk' \in {disk, mem'}
  BY <1>1, <1>2 DEF SubtaskInv, SubtaskDone, Beyond, record, Elsewhere
<1>3. CASE Answers(s)
  <2>1. PICK place \in {"asking", "failing", "file"} : pc' = [pc EXCEPT ![s] = place]
    BY <1>1, <1>3, AnswersHeard
  <2>2. AboutOnly(s) /\ HeardInv(s)' /\ UNCHANGED <<record, proc, carried, shown, fixes, report>>
    BY <1>1, <1>3, AnswersHeard DEF files
  <2>3. pc[s] \notin Beyond /\ place \in Places
    BY <1>3 DEF Answers, Beyond, Places
  <2> QED
    BY <1>2, <2>1, <2>2, <2>3, SubtaskMoves
<1>4. CASE FileRound(s)
  <2>1. PICK place \in {"decide", "failing"} : pc' = [pc EXCEPT ![s] = place]
    BY <1>1, <1>4, RoundFiled
  <2>2. AboutOnly(s) /\ HeardInv(s)' /\ UNCHANGED <<record, proc, carried, shown, fixes, report>>
    BY <1>1, <1>4, RoundFiled DEF answer
  <2>3. pc[s] \notin Beyond /\ place \in Places
    BY <1>4 DEF FileRound, Beyond, Places
  <2> QED
    BY <1>2, <2>1, <2>2, <2>3, SubtaskMoves
<1>5. CASE CallFails(s)
  BY <1>5, SubtaskGoes DEF CallFails, Places, Weighing, Beyond, process, answer
<1>6. CASE PassReturns(s)
  BY <1>6, SubtaskGoes DEF PassReturns, Places, Weighing, Beyond, process, answer
<1> QED
  BY <1>3, <1>4, <1>5, <1>6 DEF ReviewerStep

-----------------------------------------------------------------------------
(* Steps of the review of the whole change.                                *)

\* A step that leaves the record: the review is under way, so in neither copy done.
LEMMA SeniorGoes ==
  ASSUME RInv, NEW place \in Places \ {"idle"}, pc' = [pc EXCEPT ![Senior] = place],
         pc[Senior] \in Underway, UNCHANGED <<record, proc, carried>>,
         place \in {"file", "decide", "reported"} => shown' = LeftOpen(mem),
         AboutOnly(Senior), DOMAIN fixes' = DOMAIN fixes,
         HeardInv(Senior)', Reporting', Counted', RemediationsFiled'
  PROVE  RInv'
<1>1. pc'[Senior] = place /\ mem' = mem /\ disk' = disk /\ mem \in RunRecord
  BY WhoReviews DEF RInv, ReviewTyped, record
<1>2. mem.senior # "done" /\ disk.senior # "done" /\ proc # "executing"
  BY DEF RInv, SeniorInv, SeniorDone, SeniorWaits, Underway
<1>3. Told'
  BY <1>1 DEF RInv, SeniorInv, Told, LeftOpen
<1>4. SeniorInv'
  BY <1>1, <1>2, <1>3 DEF RInv, SeniorInv, SeniorDone, SeniorWaits
<1> QED
  BY <1>1, <1>4, SeniorMoves

\* A reviewer or an executor of the whole change.
LEMMA SeniorReviewed ==
  ASSUME Understood, RInv, ReviewerStep(Senior)
  PROVE  RInv'
<1>1. ReviewTyped /\ SeniorInv /\ RemediationsFiled /\ Senior \in Reviewed
      /\ mem.rounds \in Nat /\ disk.rounds \in Nat /\ disk.rounds <= mem.rounds
  BY WhoReviews DEF RInv, ReviewTyped, RunRecord, SeniorInv
<1>2. ASSUME NEW place \in {"asking", "failing", "file", "loop", "decide"},
             pc' = [pc EXCEPT ![Senior] = place]
      PROVE  Reporting' /\ Counted' /\ pc'[Senior] = place /\ place \in Places \ {"idle"}
  BY <1>1, <1>2 DEF ReviewTyped, Reporting, Counted, Places
<1>3. CASE Answers(Senior)
  <2>1. PICK place \in {"asking", "failing", "file"} : pc' = [pc EXCEPT ![Senior] = place]
    BY <1>1, <1>3, AnswersHeard
  <2>2. /\ AboutOnly(Senior) /\ HeardInv(Senior)' /\ shown' = carried
        /\ UNCHANGED <<record, proc, carried, rounds, fixes, report>>
    BY <1>1, <1>3, AnswersHeard DEF files
  <2>3. pc[Senior] \in Underway /\ carried = LeftOpen(mem)
    BY <1>1, <1>3 DEF Answers, Underway, SeniorInv, Told
  <2>4. RemediationsFiled'
    BY <1>1, <2>2 DEF RemediationsFiled, record
  <2> QED
    BY <1>2, <2>1, <2>2, <2>3, <2>4, SeniorGoes
<1>4. CASE FileRound(Senior)
  <2>1. PICK place \in {"decide", "failing"} : pc' = [pc EXCEPT ![Senior] = place]
    BY <1>1, <1>4, RoundFiled
  <2>2. /\ AboutOnly(Senior) /\ HeardInv(Senior)'
        /\ \A n \in 1 .. 1 + Budget(Senior) :
             n # Round(Senior) => rounds'[Senior][n] = rounds[Senior][n]
        /\ UNCHANGED <<record, proc, carried, shown, fixes, report>>
    BY <1>1, <1>4, RoundFiled DEF answer
  <2>3. pc[Senior] \in Underway /\ shown = LeftOpen(mem)
    BY <1>1, <1>4 DEF FileRound, Underway, SeniorInv, Told
  <2>4. ASSUME NEW n \in 1 .. SeniorMaxLoops, n <= disk.rounds
        PROVE  rounds'[Senior][n] = rounds[Senior][n]
    <3>1. n # Round(Senior) /\ n \in 1 .. 1 + Budget(Senior)
      BY <1>1, <2>4, ReviewAssumption DEF Round, Budget
    <3> QED
      BY <2>2, <3>1
  <2>5. RemediationsFiled'
    BY <1>1, <2>2, <2>4, RemediationsStay DEF record
  <2> QED
    BY <1>2, <2>1, <2>2, <2>3, <2>5, SeniorGoes
<1>5. CASE CallFails(Senior) \/ PassReturns(Senior)
  <2>1. PICK place \in {"failing", "loop"} : pc' = [pc EXCEPT ![Senior] = place]
    BY <1>5 DEF CallFails, PassReturns, Goto
  <2>2. /\ pc[Senior] \in Underway
        /\ UNCHANGED <<record, proc, verdict, meant, shown, carried, rounds, fixes, report>>
    BY <1>5 DEF CallFails, PassReturns, Underway, process, answer, files
  <2>3. AboutOnly(Senior) /\ HeardInv(Senior)'
    BY <1>1, <1>2, <2>1, <2>2, NothingAbout DEF HeardInv
  <2>4. RemediationsFiled'
    BY <1>1, <2>2 DEF RemediationsFiled, record
  <2> QED
    BY <1>2, <2>1, <2>2, <2>3, <2>4, SeniorGoes
<1> QED
  BY <1>3, <1>4, <1>5 DEF ReviewerStep

\* A save of the phase, which is done in neither copy yet.
LEMMA SeniorRecords ==
  ASSUME RInv, proc # "executing", disk.senior # "done",
         NEW run \in RunRecord, NEW ok \in Places, Record(run, ok),
         run.st = mem.st /\ run.loops = mem.loops /\ run.unresolved = mem.unresolved,
         mem.rounds <= run.rounds, run.rounds <= SeniorMaxLoops,
         UNCHANGED <<proc, verdict, meant, shown, files>>,
         run.senior = "done" =>
           /\ Judged(Senior, run.rounds, run.open, SeniorMaxLoops)
           /\ shown = LeftOpen(run) /\ (~ meant[Senior].approved => report = run.open)
           /\ ok = "finished",
         ok \in Underway => carried' = LeftOpen(run),
         ok \notin {"file", "decide", "reported"},
         ok = "counted" =>
           /\ Heard(Senior) /\ ~ verdict[Senior].approved /\ run.rounds \in 1 .. SeniorMaxLoops
           /\ rounds[Senior][run.rounds] = verdict[Senior]
  PROVE  RInv'
<1>1. /\ mem' = run
      /\ \/ disk' = mem' /\ pc' = [pc EXCEPT ![Senior] = ok]
         \/ disk' = disk /\ pc' = [pc EXCEPT ![Senior] = "failing"]
  BY DEF Record, Save, Goto
<1>2. PICK place \in {ok, "failing"} :
        pc' = [pc EXCEPT ![Senior] = place] /\ (place = "failing" \/ disk' = mem')
  BY <1>1
<1>3. place \in Places /\ pc'[Senior] = place /\ disk' \in {disk, mem'}
  BY <1>1, <1>2, WhoReviews DEF Places, RInv, ReviewTyped
<1>4. AboutOnly(Senior) /\ HeardInv(Senior)' /\ UNCHANGED <<rounds, fixes, report>>
  <2>1. AboutOnly(Senior)
    BY NothingAbout, WhoReviews DEF RInv, files
  <2> QED
    BY <1>3, <2>1 DEF HeardInv, Heard, files
<1>5. SeniorInv'
  <2>1. disk'.rounds <= mem'.rounds /\ mem'.rounds <= SeniorMaxLoops
    BY <1>1, <1>3 DEF RInv, SeniorInv, ReviewTyped, RunRecord
  <2>2. SeniorDone(mem)' /\ SeniorDone(disk)'
    <3>1. run.senior = "done" => pc'[Senior] \in {"idle", "finished", "failing"}
      BY <1>3
    <3>2. LeftOpen(mem)' = LeftOpen(run) /\ (disk' = mem' => LeftOpen(disk)' = LeftOpen(run))
      BY <1>1 DEF LeftOpen
    <3> QED
      BY <1>1, <1>3, <1>4, <3>1, <3>2 DEF SeniorDone, Judged
  <2>3. SeniorWaits' /\ Told' /\ Reporting'
    <3>1. LeftOpen(mem)' = LeftOpen(run)
      BY <1>1 DEF LeftOpen
    <3> QED
      BY <1>3, <3>1 DEF SeniorWaits, Told, Reporting, Underway
  <2>4. Counted'
    BY <1>1, <1>2, <1>3, <1>4 DEF Counted
  <2>5. disk'.senior = "done" => mem'.senior = "done"
    BY <1>1, <1>3
  <2> QED
    BY <2>1, <2>2, <2>3, <2>4, <2>5 DEF SeniorInv
<1>6. RemediationsFiled'
  <2>1. disk.rounds \in Nat /\ disk'.rounds \in Nat /\ disk.rounds <= disk'.rounds
    BY <1>1, <1>3 DEF RInv, SeniorInv, ReviewTyped, RunRecord
  <2> QED
    BY <1>4, <2>1, RemediationsStay DEF RInv
<1>7. /\ mem' \in RunRecord
      /\ mem'.st = mem.st /\ mem'.loops = mem.loops /\ mem'.unresolved = mem.unresolved
  BY <1>1
<1> QED
  BY <1>2, <1>3, <1>4, <1>5, <1>6, <1>7, SeniorMoves

\* The phase is entered, by the process that ran the subtasks or by a later one.
LEMMA SeniorEnterKeeps ==
  ASSUME RInv, proc = "senior", SeniorEnter
  PROVE  RInv'
<1>1. /\ ReviewTyped /\ SeniorInv /\ pc[Senior] = "idle" /\ mem \in RunRecord
      /\ RemediationsFiled /\ UNCHANGED <<process, answer, files>>
      /\ mem.rounds \in Nat /\ mem.rounds <= SeniorMaxLoops
  BY DEF RInv, ReviewTyped, RunRecord, SeniorInv, SeniorEnter
<1>2. CASE mem.senior = "done" /\ Goto(Senior, "finished") /\ UNCHANGED <<record, carried>>
  <2>1. /\ pc' = [pc EXCEPT ![Senior] = "finished"] /\ pc'[Senior] = "finished"
        /\ mem' = mem /\ disk' = disk
    BY <1>1, <1>2, WhoReviews DEF Goto, ReviewTyped, record
  <2>2. AboutOnly(Senior) /\ HeardInv(Senior)' /\ UNCHANGED <<proc, meant, shown, fixes, report>>
    BY <1>1, <2>1, NothingAbout, WhoReviews DEF HeardInv, answer, files, process
  <2>3. SeniorInv'
    BY <1>1, <2>1, <2>2
       DEF SeniorInv, SeniorDone, Judged, LeftOpen, SeniorWaits, Told, Reporting, Counted,
           Underway, files
  <2>4. RemediationsFiled'
    BY <1>1, <2>1 DEF RemediationsFiled, files
  <2> QED
    BY <1>1, <2>1, <2>2, <2>3, <2>4, SeniorMoves DEF Places
<1>3. CASE /\ mem.senior # "done" /\ carried' = carriedFindings
           /\ Record([mem EXCEPT !.status = "seniorReview", !.senior = "running"], "loop")
  <2> DEFINE run == [mem EXCEPT !.status = "seniorReview", !.senior = "running"]
  <2>1. /\ run \in RunRecord /\ run.senior = "running" /\ run.rounds = mem.rounds
        /\ run.st = mem.st /\ run.loops = mem.loops /\ run.unresolved = mem.unresolved
    BY <1>1 DEF RunRecord, RunStatus, SeniorReviewStatus
  <2>2. disk.senior # "done"
    BY <1>1, <1>3 DEF SeniorInv
  <2>3. Record(run, "loop")
    BY <1>3
  <2> HIDE DEF run
  <2>4. carried' = LeftOpen(run)
    BY <1>3, <2>1 DEF carriedFindings, LeftOpen
  <2>5. UNCHANGED <<proc, verdict, meant, shown, files>> /\ mem.rounds <= run.rounds
    BY <1>1, <2>1 DEF process, answer
  <2> QED
    BY <1>1, <2>1, <2>2, <2>3, <2>4, <2>5, SeniorRecords DEF Places
<1> QED
  BY <1>2, <1>3 DEF SeniorEnter

\* A round begins, or the phase ends on a cancelled context.
LEMMA SeniorLoopKeeps ==
  ASSUME RInv, proc = "senior", SeniorLoop
  PROVE  RInv'
<1>1. PICK place \in {"failing", "asking"} : pc' = [pc EXCEPT ![Senior] = place]
  BY DEF SeniorLoop, Goto
<1>2. /\ pc[Senior] \in Underway
      /\ UNCHANGED <<record, proc, verdict, meant, shown, carried, rounds, fixes, report>>
  BY DEF SeniorLoop, Underway, process, files
<1>3. /\ pc'[Senior] = place /\ place \in Places \ {"idle"}
      /\ AboutOnly(Senior) /\ HeardInv(Senior)' /\ Reporting' /\ Counted'
  BY <1>1, <1>2, NothingAbout, WhoReviews
     DEF RInv, ReviewTyped, Places, HeardInv, Reporting, Counted
<1>4. RemediationsFiled'
  BY <1>2 DEF RInv, RemediationsFiled, record
<1> QED
  BY <1>1, <1>2, <1>3, <1>4, SeniorGoes

\* What is known when the phase decides.
LEMMA SeniorDecides ==
  ASSUME RInv, pc[Senior] \in {"decide", "reported"}
  PROVE  /\ verdict[Senior] \in Verdicts /\ meant[Senior] = verdict[Senior]
         /\ meant[Senior] # NoVerdict
         /\ rounds[Senior][mem.rounds + 1] = verdict[Senior]
         /\ shown = LeftOpen(mem) /\ Heard(Senior)
         /\ verdict[Senior].findings \in Open /\ {} \in Open
         /\ mem.senior # "done" /\ disk.senior # "done"
         /\ mem \in RunRecord /\ mem.rounds \in Nat /\ mem.rounds <= SeniorMaxLoops
<1>1. SeniorInv /\ HeardInv(Senior) /\ mem \in RunRecord /\ mem.rounds \in Nat
  BY WhoReviews DEF RInv, ReviewTyped, RunRecord
<1>2. Round(Senior) = mem.rounds + 1
  BY <1>1 DEF Round
<1>3. Heard(Senior) /\ rounds[Senior][mem.rounds + 1] = verdict[Senior]
  BY <1>1, <1>2 DEF HeardInv
<1>4. shown = LeftOpen(mem) /\ mem.senior # "done" /\ disk.senior # "done"
  BY <1>1 DEF SeniorInv, Told, SeniorDone
<1> QED
  BY <1>1, <1>3, <1>4, VerdictAssumption DEF Heard, Open, SeniorInv

\* The change is approved.
LEMMA SeniorApprovesKeeps ==
  ASSUME RInv, proc = "senior", SeniorApproves
  PROVE  RInv'
<1> DEFINE run == [mem EXCEPT !.senior = "done", !.open = {}]
<1>1. /\ pc[Senior] = "decide" /\ verdict[Senior].approved /\ Record(run, "finished")
      /\ UNCHANGED <<proc, verdict, meant, shown, files>>
  BY DEF SeniorApproves, Decides, process, answer
<1>2. /\ run \in RunRecord /\ run.senior = "done" /\ run.rounds = mem.rounds /\ run.open = {}
      /\ run.st = mem.st /\ run.loops = mem.loops /\ run.unresolved = mem.unresolved
  BY <1>1, SeniorDecides DEF RunRecord, SeniorReviewStatus
<1> HIDE DEF run
<1>3. Judged(Senior, run.rounds, run.open, SeniorMaxLoops) /\ shown = LeftOpen(run)
  BY <1>1, <1>2, SeniorDecides DEF Judged, LeftOpen
<1>4. mem.rounds <= run.rounds /\ run.rounds <= SeniorMaxLoops
  BY <1>1, <1>2, SeniorDecides
<1> QED
  BY <1>1, <1>2, <1>3, <1>4, SeniorDecides, SeniorRecords DEF Places, Underway

\* The budget is spent: what is open is reported, then recorded.
LEMMA ReportRemainingKeeps ==
  ASSUME RInv, proc = "senior", ReportRemaining
  PROVE  RInv'
<1>1. /\ pc[Senior] = "decide" /\ ~ verdict[Senior].approved /\ mem.rounds >= SeniorMaxLoops
      /\ UNCHANGED <<record, proc, verdict, meant, shown, carried, rounds, fixes>>
  BY DEF ReportRemaining, Decides, process, answer
<1>2. PICK place \in {"reported", "failing"} :
        /\ pc' = [pc EXCEPT ![Senior] = place]
        /\ place = "reported" => report' = verdict[Senior].findings
  BY DEF ReportRemaining, Write, Goto
<1>3. pc'[Senior] = place /\ place \in Places \ {"idle"} /\ pc[Senior] \in Underway
  BY <1>1, <1>2, WhoReviews DEF RInv, ReviewTyped, Places, Underway
<1>4. AboutOnly(Senior) /\ HeardInv(Senior)'
  <2>1. AboutOnly(Senior)
    BY <1>1, NothingAbout, WhoReviews DEF RInv
  <2>2. HeardInv(Senior) /\ Round(Senior)' = Round(Senior)
    BY <1>1, WhoReviews DEF RInv, Round, record
  <2> QED
    BY <1>1, <1>3, <2>1, <2>2 DEF HeardInv, Heard
<1>5. Reporting' /\ Counted'
  <2>1. mem.rounds = SeniorMaxLoops
    BY <1>1, SeniorDecides, ReviewAssumption
  <2> QED
    BY <1>1, <1>2, <1>3, <2>1 DEF Reporting, Counted, record
<1>6. RemediationsFiled'
  BY <1>1 DEF RInv, RemediationsFiled, record
<1>7. shown' = LeftOpen(mem)
  BY <1>1, SeniorDecides
<1> QED
  BY <1>1, <1>2, <1>3, <1>4, <1>5, <1>6, <1>7, SeniorGoes

\* What is left open is recorded as it was reported.
LEMMA SeniorReportsKeeps ==
  ASSUME RInv, proc = "senior", SeniorReports
  PROVE  RInv'
<1> DEFINE o == verdict[Senior].findings
           run == [mem EXCEPT !.senior = "done", !.open = o]
<1>1. /\ pc[Senior] = "reported" /\ Record(run, "finished")
      /\ UNCHANGED <<proc, verdict, meant, shown, files>>
  BY DEF SeniorReports, process, answer
<1>2. /\ ~ verdict[Senior].approved /\ mem.rounds = SeniorMaxLoops /\ report = o
  BY <1>1 DEF RInv, SeniorInv, Reporting
<1>3. /\ run \in RunRecord /\ run.senior = "done" /\ run.rounds = mem.rounds /\ run.open = o
      /\ run.st = mem.st /\ run.loops = mem.loops /\ run.unresolved = mem.unresolved
  <2>1. o \in Open
    BY <1>1, SeniorDecides
  <2> HIDE DEF o
  <2> QED
    BY <1>1, <2>1, SeniorDecides DEF RunRecord, SeniorReviewStatus
<1> HIDE DEF run
<1>4. Judged(Senior, run.rounds, run.open, SeniorMaxLoops) /\ shown = LeftOpen(run)
  BY <1>1, <1>2, <1>3, SeniorDecides DEF Judged, LeftOpen
<1>5. mem.rounds <= run.rounds /\ run.rounds <= SeniorMaxLoops
  BY <1>1, <1>3, SeniorDecides
<1> QED
  BY <1>1, <1>2, <1>3, <1>4, <1>5, SeniorDecides, SeniorRecords DEF Places, Underway

\* A remediation is counted, then filed.
LEMMA SeniorRemediatesKeeps ==
  ASSUME RInv, proc = "senior", SeniorRemediates
  PROVE  RInv'
<1> DEFINE run == [mem EXCEPT !.rounds = @ + 1]
<1>1. /\ pc[Senior] = "decide" /\ ~ verdict[Senior].approved /\ mem.rounds < SeniorMaxLoops
      /\ Record(run, "counted") /\ UNCHANGED <<proc, verdict, meant, shown, carried, files>>
  BY DEF SeniorRemediates, Decides, process, answer
<1>2. /\ run \in RunRecord /\ run.senior = mem.senior /\ run.rounds = mem.rounds + 1
      /\ run.st = mem.st /\ run.loops = mem.loops /\ run.unresolved = mem.unresolved
  BY <1>1, SeniorDecides DEF RunRecord
<1> HIDE DEF run
<1>3. /\ run.rounds \in 1 .. SeniorMaxLoops /\ mem.rounds <= run.rounds
      /\ run.rounds <= SeniorMaxLoops
  BY <1>1, <1>2, SeniorDecides, ReviewAssumption
<1>4. rounds[Senior][run.rounds] = verdict[Senior] /\ Heard(Senior)
  BY <1>1, <1>2, SeniorDecides
<1>5. carried' = LeftOpen(run)
  BY <1>1, <1>2 DEF RInv, SeniorInv, Told, Underway, LeftOpen
<1> QED
  BY <1>1, <1>2, <1>3, <1>4, <1>5, SeniorDecides, SeniorRecords DEF Places

\* The file of a remediation gets the findings of the round just counted.
LEMMA FileRemediationKeeps ==
  ASSUME RInv, proc = "senior", FileRemediation
  PROVE  RInv'
<1> DEFINE k == mem.rounds
<1>1. /\ pc[Senior] = "counted"
      /\ UNCHANGED <<record, proc, verdict, meant, shown, carried, rounds, report>>
  BY DEF FileRemediation, process, answer
<1>2. PICK content \in {verdict[Senior].findings, Torn, fixes[k]} :
        /\ Write(fixes[k], content, verdict[Senior].findings, Senior, "pass", "failing")
        /\ fixes' = [fixes EXCEPT ![k] = content]
  BY DEF FileRemediation
<1>3. PICK place \in {"pass", "failing"} : pc' = [pc EXCEPT ![Senior] = place]
  BY <1>2 DEF Write, Goto
<1>4. pc'[Senior] = place /\ place \in Places \ {"idle"} /\ pc[Senior] \in Underway
  BY <1>1, <1>3, WhoReviews DEF RInv, ReviewTyped, Places, Underway
<1>5. AboutOnly(Senior) /\ HeardInv(Senior)' /\ Reporting' /\ Counted'
  BY <1>1, <1>4, NothingAbout, WhoReviews DEF RInv, HeardInv, Reporting, Counted
<1>6. /\ ~ verdict[Senior].approved /\ verdict[Senior] \in Verdicts
      /\ disk.rounds = k /\ k \in 1 .. SeniorMaxLoops /\ rounds[Senior][k] = verdict[Senior]
  BY <1>1, WhoReviews DEF RInv, SeniorInv, Counted, HeardInv, Heard
<1>7. DOMAIN fixes' = DOMAIN fixes /\ DOMAIN fixes = 1 .. SeniorMaxLoops
  BY <1>2 DEF RInv, ReviewTyped
<1>8. RemediationsFiled'
  <2> SUFFICES ASSUME NEW n \in 1 .. SeniorMaxLoops, fixes'[n] \notin {Absent, Torn}
               PROVE  /\ n <= disk.rounds
                      /\ rounds[Senior][n] \in Verdicts /\ ~ rounds[Senior][n].approved
                      /\ fixes'[n] = rounds[Senior][n].findings
    BY <1>1 DEF RemediationsFiled, record
  <2>1. CASE fixes'[n] = fixes[n]
    BY <2>1 DEF RInv, RemediationsFiled
  <2>2. CASE n = k /\ fixes'[n] # fixes[n]
    <3>1. fixes'[n] = content
      BY <1>2, <1>6, <1>7, <2>2
    <3>2. content = verdict[Senior].findings
      BY <2>2, <3>1
    <3>3. n <= disk.rounds
      BY <1>6, <2>2, ReviewAssumption
    <3> QED
      BY <1>6, <2>2, <3>1, <3>2, <3>3
  <2>3. CASE n # k /\ fixes'[n] # fixes[n]
    BY <1>2, <1>7, <2>3
  <2> QED
    BY <2>1, <2>2, <2>3
<1> QED
  BY <1>1, <1>3, <1>4, <1>5, <1>7, <1>8, SeniorGoes

\* Every step of the phase.
LEMMA SeniorKeeps ==
  ASSUME RInv, proc = "senior", SeniorStep
  PROVE  RInv'
BY SeniorEnterKeeps, SeniorLoopKeeps, SeniorApprovesKeeps, ReportRemainingKeeps,
   SeniorReportsKeeps, SeniorRemediatesKeeps, FileRemediationKeeps DEF SeniorStep

-----------------------------------------------------------------------------
(* Steps of the process.                                                   *)

\* The process goes from phase to phase, settles an error, is cancelled or dies.
LEMMA ProcessKeeps ==
  ASSUME RInv, EngineReturns \/ PhaseReturns \/ Classify \/ Cancel \/ Crash
  PROVE  RInv'
<1>1. /\ UNCHANGED <<pc, verdict, meant, shown, carried, files>>
      /\ proc \in {"down", "executing", "senior", "classify"}
  BY DEF EngineReturns, PhaseReturns, Proceed, Classify, Cancel, Crash, answer, RInv, ReviewTyped
<1>2. /\ proc' \in {"down", "executing", "senior", "classify"}
      /\ proc' = "executing" => proc = "executing"
      /\ disk' \in {disk, mem'}
  BY <1>1 DEF EngineReturns, PhaseReturns, Proceed, Classify, Cancel, Crash, record
<1>3. \E v \in RunStatus : mem' \in {mem, [mem EXCEPT !.status = v]}
  <2>1. CASE EngineReturns
    BY <2>1 DEF EngineReturns, Proceed, record, RunStatus
  <2>2. CASE PhaseReturns
    BY <2>2 DEF PhaseReturns, Proceed, record, RunStatus
  <2>3. CASE Classify
    BY <2>3 DEF Classify, RunStatus
  <2>4. CASE Cancel \/ Crash
    BY <2>4 DEF Cancel, Crash, record, RunStatus
  <2> QED
    BY <2>1, <2>2, <2>3, <2>4
<1> QED
  BY <1>1, <1>2, <1>3, ProcessMoves

\* A process takes up what run.yaml says, which is judged.
LEMMA ResumeKeeps ==
  ASSUME RInv, Resume
  PROVE  RInv'
<1> DEFINE senior == disk.status = "seniorReview" \/ disk.senior \in {"running", "done"}
           run    == IF senior THEN disk ELSE ResetInterrupted([disk EXCEPT !.status = "executing"])
<1>1. /\ ReviewTyped /\ SeniorInv /\ RemediationsFiled /\ disk \in RunRecord
      /\ \A s \in Subtask : SubtaskInv(s)
  BY DEF RInv, ReviewTyped
<1>2. /\ mem' = run /\ disk' \in {disk, run}
      /\ proc' \in {"senior", "executing", "classify"}
      /\ proc' = "executing" => ~ senior
      /\ pc' = [r \in Reviewed |->
                  IF r \in Subtask /\ run.st[r] \in {"done", "failed"} THEN "finished" ELSE "idle"]
      /\ DOMAIN verdict' = Reviewed
      /\ UNCHANGED <<rounds, fixes, report, meant, shown>>
  BY DEF Resume, files
<1>3. /\ run \in RunRecord
      /\ run.loops = disk.loops /\ run.unresolved = disk.unresolved
      /\ run.senior = disk.senior /\ run.rounds = disk.rounds /\ run.open = disk.open
      /\ \A s \in Subtask : run.st[s] = "done" => disk.st[s] = "done"
  <2>1. CASE senior
    BY <1>1, <2>1
  <2>2. CASE ~ senior
    <3> DEFINE old == [disk EXCEPT !.status = "executing"]
    <3>1. old \in RunRecord /\ old.st = disk.st /\ old.loops = disk.loops
          /\ old.unresolved = disk.unresolved /\ old.senior = disk.senior
          /\ old.rounds = disk.rounds /\ old.open = disk.open
      BY <1>1 DEF RunRecord, RunStatus
    <3> HIDE DEF old
    <3>2. run = [old EXCEPT !.st = [s \in Subtask |-> IF IsInterrupted(old.st[s])
                                                     THEN "pending" ELSE old.st[s]]]
      BY <2>2 DEF ResetInterrupted, old
    <3> HIDE DEF run
    <3> QED
      BY <3>1, <3>2 DEF RunRecord, SubtaskStatus
  <2> QED
    BY <2>1, <2>2
<1>4. ~ senior => Unreviewed(disk)
  BY DEF Unreviewed
<1> HIDE DEF run, senior
<1>5. /\ disk'.loops = disk.loops /\ disk'.unresolved = disk.unresolved
      /\ disk'.rounds = disk.rounds /\ disk'.senior = disk.senior /\ disk'.open = disk.open
      /\ disk' \in RunRecord
      /\ \A s \in Subtask : disk'.st[s] = "done" => disk.st[s] = "done"
      /\ \A s \in Subtask : disk'.st[s] = "done" => run.st[s] = "done" \/ disk' = disk
  BY <1>1, <1>2, <1>3
<1>6. /\ pc' \in [Reviewed -> {"idle", "finished"}] /\ pc'[Senior] = "idle"
      /\ \A s \in Subtask : run.st[s] = "done" => pc'[s] = "finished"
  BY <1>2, WhoReviews
<1>7. \A s \in Subtask : disk.st[s] = "done" => run.st[s] = "done"
  BY <1>1 DEF run, ResetInterrupted, IsInterrupted, RunRecord
<1>8. ReviewTyped'
  BY <1>1, <1>2, <1>3, <1>5, <1>6 DEF ReviewTyped, Places
<1>9. \A r \in Reviewed : HeardInv(r)'
  BY <1>6 DEF HeardInv
<1>10. ASSUME NEW s \in Subtask PROVE SubtaskInv(s)'
  <2>1. SubtaskDone(disk, s) /\ disk.loops[s] <= MaxLoops
    BY <1>1 DEF SubtaskInv
  <2>2. disk'.st[s] = "done" \/ mem'.st[s] = "done" =>
          disk.st[s] = "done" /\ pc'[s] = "finished"
    BY <1>2, <1>3, <1>5, <1>6, <1>7
  <2>3. mem'.loops = disk.loops /\ mem'.unresolved = disk.unresolved
    BY <1>2, <1>3
  <2> QED
    BY <1>2, <1>5, <2>1, <2>2, <2>3 DEF SubtaskInv, SubtaskDone, Judged
<1>11. SeniorInv'
  <2>1. /\ mem'.rounds = disk.rounds /\ mem'.senior = disk.senior /\ mem'.open = disk.open
        /\ mem'.unresolved = disk.unresolved
        /\ disk.rounds \in Nat /\ disk.rounds <= SeniorMaxLoops
    BY <1>1, <1>2, <1>3, ReviewAssumption DEF SeniorInv, ReviewTyped, RunRecord
  <2>2. LeftOpen(mem)' = LeftOpen(disk) /\ LeftOpen(disk)' = LeftOpen(disk)
    BY <1>5, <2>1 DEF LeftOpen
  <2>3. SeniorDone(mem)' /\ SeniorDone(disk)'
    BY <1>1, <1>2, <1>5, <1>6, <2>1, <2>2 DEF SeniorInv, SeniorDone, Judged
  <2>4. SeniorWaits' /\ Told' /\ Reporting' /\ Counted'
    BY <1>2, <1>4, <1>5, <1>6, <2>1
       DEF SeniorWaits, Unreviewed, Told, Underway, Reporting, Counted
  <2> QED
    BY <1>5, <2>1, <2>3, <2>4 DEF SeniorInv
<1>12. RemediationsFiled'
  BY <1>1, <1>2, <1>5 DEF RemediationsFiled
<1> QED
  BY <1>8, <1>9, <1>10, <1>11, <1>12 DEF RInv

-----------------------------------------------------------------------------
(* The theorems.                                                           *)

\* Before the first process nothing is judged.
LEMMA InitRInv ==
  ASSUME Init PROVE RInv
<1> USE ReviewAssumption
<1>1. /\ mem.st = [s \in Subtask |-> "pending"] /\ mem.loops = [s \in Subtask |-> 0]
      /\ mem.unresolved = [s \in Subtask |-> {}]
      /\ mem.senior = "pending" /\ mem.rounds = 0 /\ mem.open = {} /\ disk = mem
      /\ mem \in RunRecord
  BY DEF Init, RunRecord, RunStatus, SubtaskStatus, SeniorReviewStatus, Open
<1>2. \A r \in Reviewed : pc[r] = "idle"
  BY DEF Init
<1>3. ReviewTyped
  BY <1>1 DEF Init, ReviewTyped, Places, Budget
<1>4. \A r \in Reviewed : HeardInv(r)
  BY <1>2 DEF HeardInv
<1>5. ASSUME NEW s \in Subtask PROVE SubtaskInv(s)
  <2>1. mem.loops[s] = 0 /\ mem.st[s] = "pending" /\ disk = mem /\ MaxLoops \in Nat
    BY <1>1
  <2> QED
    BY <2>1 DEF SubtaskInv, SubtaskDone
<1>6. SeniorInv
  BY <1>1, <1>2, WhoReviews
     DEF Init, SeniorInv, SeniorDone, SeniorWaits, Unreviewed, Told, Underway, Reporting, Counted
<1>7. RemediationsFiled
  BY DEF Init, RemediationsFiled
<1> QED
  BY <1>3, <1>4, <1>5, <1>6, <1>7 DEF RInv

\* Every step of the reviews, and of the process around them.
LEMMA NextKeepsRInv ==
  ASSUME Understood, RInv, [Next]_vars
  PROVE  RInv'
<1>1. CASE UNCHANGED vars
  <2>1. /\ UNCHANGED <<mem, disk, proc, pc, verdict, meant, shown, carried, files>>
        /\ proc \in {"down", "executing", "senior", "classify"}
    BY <1>1 DEF vars, record, process, answer, RInv, ReviewTyped
  <2>2. "failed" \in RunStatus
    BY DEF RunStatus
  <2> QED
    BY <2>1, <2>2, ProcessMoves
<1>2. ASSUME NEW r \in Reviewed, ReviewerStep(r) PROVE RInv'
  BY <1>2, WhoReviews, SubtaskReviewed, SeniorReviewed
<1> QED
  BY <1>1, <1>2, SubtaskKeeps, SeniorKeeps, ProcessKeeps, ResumeKeeps DEF Next

\* The invariant holds through every crash, cancellation and failing write.
THEOREM ReviewInductive == Contract => (Spec => []RInv)
<1> SUFFICES ASSUME Contract PROVE Spec => []RInv
  OBVIOUS
<1>1. Init => RInv
  BY InitRInv
<1>2. RInv /\ [Next]_vars => RInv'
  BY ContractIsUnderstood, NextKeepsRInv
<1> QED
  BY <1>1, <1>2, PTL DEF Spec

\* What run.yaml calls done was judged so: record, round files, report and the
\* reviewer's meaning agree, and the senior reviewer knew what was left open.
THEOREM DoneAsJudged == Contract => (Spec => []SettledAsJudged)
<1> SUFFICES ASSUME Contract PROVE Spec => []SettledAsJudged
  OBVIOUS
<1>1. RInv => SettledAsJudged
  BY DEF RInv, SubtaskInv, SubtaskDone, SeniorInv, SeniorDone, LeftOpen, SettledAsJudged
<1> QED
  BY <1>1, ReviewInductive, PTL

\* The file of a remediation lists the findings of its round, which is not held again.
THEOREM RemediationsAreFiled == Contract => (Spec => []RemediationsFiled)
<1> SUFFICES ASSUME Contract PROVE Spec => []RemediationsFiled
  OBVIOUS
<1>1. RInv => RemediationsFiled
  BY DEF RInv
<1> QED
  BY <1>1, ReviewInductive, PTL
=============================================================================
