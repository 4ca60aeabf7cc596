--------------------------- MODULE RunStoreProofs ---------------------------
(***************************************************************************)
(* Proofs about RunStore, for any number of processes, runs, saves, crashes*)
(* and failing calls: an acknowledged save is durable, a run keeps its     *)
(* identity, and the pointer names the newest run.                         *)
(*                                                                         *)
(* Each theorem says how far it needs the runs to be kept apart, which the *)
(* code leaves to its users (Apart, Named, Alone).                         *)
(***************************************************************************)
EXTENDS RunStore, TLAPS, FiniteSetTheorems

-----------------------------------------------------------------------------
(* What the users are relied on for.                                       *)

\* One process at a time.
Alone == MaxLive <= 1

\* No two tasks have one slug.
Named == \A p, q \in Proc : SlugOf[p] = SlugOf[q] => p = q

\* No run has two live processes: there is one process at a time, whatever the
\* tasks are named, or a user drives no run twice and names no two tasks alike.
Apart == Alone \/ (~ Sharing /\ Named)

-----------------------------------------------------------------------------
(* The inductive invariant.                                                *)

Content == Record \cup Id \cup {Absent, Torn}

\* The types of the variables, the functions' domains among them.
Shape ==
  /\ file \in [Targets -> [dst : Content, tmp : Content]]
  /\ \A i \in Id : file[i].dst \in Record \cup {Absent, Torn}
                   /\ file[i].tmp \in Record \cup {Absent, Torn}
  /\ file[Latest].dst \in Id \cup {Absent, Torn}
  /\ file[Latest].tmp \in Id \cup {Absent, Torn}
  /\ step \in [Proc -> {"new", "baseline", "open", "write", "rename", "drive", "gone"}]
  /\ goal \in [Proc -> {"create", "latest", "save"}]
  /\ fd \in [Proc -> {"closed", "tmp", "dst", "unlinked"}]
  /\ \A p \in Proc : fd[p] # "closed" <=> step[p] = "write"
  /\ id \in [Proc -> Id \cup {None}]
  /\ doc \in [Proc -> Record \cup {None}]
  /\ acked \in [Id -> Record \cup {None}]
  /\ created \in SUBSET Record /\ begun \in [Proc -> 0..MaxSecond]
  /\ second \in 0..MaxSecond /\ births \in Nat /\ faults \in Nat
  /\ IsFiniteSet(Live) /\ Cardinality(Live) <= MaxLive

\* A process with a record of its run in memory.
Bearing(p) == step[p] \in {"open", "write", "rename", "drive"}

\* A live process has an id, one past its baseline a record, one that drives its
\* run saves it.
Equipped ==
  \A p \in Live :
    /\ id[p] \in Id
    /\ Bearing(p) => doc[p] \in Record
    /\ step[p] = "drive" => goal[p] = "save"

\* No two live processes have one run.
Exclusive == \A p, q \in Live : id[p] = id[q] => p = q

\* The file a process writes to stays its own: run.yaml always, the pointer when
\* there is one process.
Own(p) == goal[p] # "latest" \/ Alone

Writing ==
  \A p \in Live :
    Own(p) => /\ fd[p] \in {"closed", "tmp"}
              /\ step[p] = "rename" => file[Target(p)].tmp = Payload(p)

\* run.yaml is never torn, and holds what was last acknowledged or a later state.
Durable ==
  \A i \in Id :
    /\ file[i].dst # Torn
    /\ acked[i] # None => /\ file[i].dst \in Record
                          /\ file[i].dst.version >= acked[i].version

\* What a process that drives a run, or is about to point to it, knows of its file.
Known ==
  \A p \in Live : Bearing(p) =>
    /\ goal[p] = "latest" => file[id[p]].dst = doc[p]
    /\ goal[p] = "save" => file[id[p]].dst \in Record

\* An id tells the second and the slug of the Create that took it; it may have been
\* taken twice.
Names(i, q) == i = [at |-> begun[q], slug |-> SlugOf[q]]

\* The first record of q's run is on disk, or q writes none any more.
Past(q) == step[q] \notin {"new", "baseline"} /\ ~ (Bearing(q) /\ goal[q] = "create")

\* A file is of a process that took its id, and was past its Create's first save;
\* one that drives a run has the file's record in memory, or a later one.
Identity ==
  /\ \A i \in Id : file[i].dst \in Record =>
       Names(i, file[i].dst.by) /\ Past(file[i].dst.by)
  /\ \A p \in Live :
       step[p] = "baseline" \/ (Bearing(p) /\ goal[p] = "create") => Names(id[p], p)
  /\ \A p \in Live : Bearing(p) /\ goal[p] = "create" => doc[p].by = p /\ doc[p].version = 0
  /\ \A p \in Live : Bearing(p) /\ goal[p] # "create" /\ file[id[p]].dst \in Record =>
       /\ doc[p].by = file[id[p]].dst.by
       /\ doc[p].version >= file[id[p]].dst.version

\* The age of runs: no record is younger than the last reading of the clock, and
\* the one that is being created is as young.
Ages ==
  /\ \A i \in Id : file[i].dst \in Record => file[i].dst.born <= births
  /\ \A r \in created : r.born <= births
  /\ \A p \in Live : Bearing(p) =>
       /\ doc[p].born <= births
       /\ goal[p] # "save" => doc[p].born = births
       /\ file[id[p]].dst \in Record => doc[p].born >= file[id[p]].dst.born

\* The pointer names a run, none that was created is younger.
Pointing ==
  /\ file[Latest].dst \in Id \cup {Absent}
  /\ file[Latest].dst \in Id =>
       /\ file[file[Latest].dst].dst \in Record
       /\ \A r \in created : file[file[Latest].dst].dst.born >= r.born

IInv ==
  /\ Shape /\ Equipped
  /\ Exclusive /\ Writing /\ Durable /\ Known /\ Identity
  /\ Alone => Ages /\ Pointing

-----------------------------------------------------------------------------
(* How many are alive.                                                     *)

\* With one process at a time, two live ones are the same.
LEMMA AloneIsOne ==
  ASSUME Shape, Alone, NEW p \in Live, NEW q \in Live
  PROVE  p = q
<1>1. IsFiniteSet(Live) /\ Cardinality(Live) <= 1 /\ Cardinality(Live) \in Nat
  BY FS_CardinalityType, BoundsAssumption DEF Shape, Alone
<1>2. {p, q} \subseteq Live
  OBVIOUS
<1>3. Cardinality({p, q}) <= Cardinality(Live)
  BY <1>1, <1>2, FS_Subset
<1>4. CASE p # q
  <2>1. IsFiniteSet({p}) /\ Cardinality({p}) = 1
    BY FS_Singleton
  <2>2. {p} \cup {q} = {p, q} /\ q \notin {p}
    BY <1>4
  <2>3. Cardinality({p} \cup {q}) = Cardinality({p}) + 1
    BY <2>1, <2>2, FS_AddElement
  <2> QED
    BY <1>1, <1>3, <2>1, <2>2, <2>3
<1> QED
  BY <1>4

\* With one process at a time, one that starts is the first.
LEMMA NoneLive ==
  ASSUME Shape, Alone, Cardinality(Live) < MaxLive
  PROVE  Live = {}
<1>1. IsFiniteSet(Live) /\ Cardinality(Live) \in Nat
  BY FS_CardinalityType DEF Shape
<1>2. Cardinality(Live) = 0
  BY <1>1, BoundsAssumption DEF Alone
<1> QED
  BY <1>1, <1>2, FS_EmptySet

\* No more processes are alive than may be, when none starts.
LEMMA LiveShrinks ==
  ASSUME Shape, Live' \subseteq Live
  PROVE  IsFiniteSet(Live') /\ Cardinality(Live') <= MaxLive
<1>1. IsFiniteSet(Live) /\ Cardinality(Live) <= MaxLive
  BY DEF Shape
<1>2. IsFiniteSet(Live') /\ Cardinality(Live') <= Cardinality(Live)
  BY <1>1, FS_Subset
<1>3. Cardinality(Live) \in Nat /\ Cardinality(Live') \in Nat
  BY <1>1, <1>2, FS_CardinalityType
<1> QED
  BY <1>1, <1>2, <1>3, BoundsAssumption

\* Nor when one starts that may.
LEMMA LiveGrows ==
  ASSUME Shape, NEW p \in Proc, Cardinality(Live) < MaxLive, Live' = Live \cup {p}
  PROVE  IsFiniteSet(Live') /\ Cardinality(Live') <= MaxLive
<1>1. IsFiniteSet(Live) /\ Cardinality(Live) \in Nat
  BY FS_CardinalityType DEF Shape
<1>2. /\ IsFiniteSet(Live \cup {p})
      /\ \/ Cardinality(Live \cup {p}) = Cardinality(Live)
         \/ Cardinality(Live \cup {p}) = Cardinality(Live) + 1
  BY <1>1, FS_AddElement
<1> QED
  BY <1>1, <1>2, BoundsAssumption

-----------------------------------------------------------------------------
(* The files of the live processes.                                        *)

\* A file that is a live process's own is no other's.
LEMMA OwnTargets ==
  ASSUME IInv, NEW p \in Live, NEW q \in Live, Own(q), Target(q) = Target(p)
  PROVE  q = p
<1>1. CASE Alone
  BY <1>1, AloneIsOne DEF IInv
<1>2. CASE ~ Alone
  <2>1. goal[q] # "latest" /\ id[q] \in Id /\ id[p] \in Id
    BY <1>2 DEF Own, IInv, Equipped
  <2>2. goal[p] # "latest" /\ id[q] = id[p]
    BY <2>1, ContentsAssumption DEF Target
  <2> QED
    BY <2>2 DEF IInv, Exclusive
<1> QED
  BY <1>1, <1>2

\* The target of a live process is one of the files, and its content belongs there.
LEMMA LiveTarget ==
  ASSUME IInv, NEW p \in Live, Bearing(p)
  PROVE  /\ p \in Proc /\ Target(p) \in Targets /\ Payload(p) \in Content
         /\ goal[p] = "latest" => Target(p) = Latest /\ Payload(p) = id[p] /\ id[p] \in Id
         /\ goal[p] # "latest" => /\ Target(p) = id[p] /\ Payload(p) = doc[p]
                                  /\ id[p] \in Id /\ doc[p] \in Record
<1>1. p \in Proc /\ id[p] \in Id /\ doc[p] \in Record
  BY DEF IInv, Equipped, Live
<1> QED
  BY <1>1 DEF Target, Payload, Targets, Content

\* Descriptors of the others, as a rename moves the file of a live process: each
\* stays as open as it was, and is left alone if the file is its process's own.
LEMMA MovedOthers ==
  ASSUME IInv, NEW p \in Live, NEW to \in {"dst", "unlinked"},
         fd' = Moved(Target(p), to)
  PROVE  /\ fd' \in [Proc -> {"closed", "tmp", "dst", "unlinked"}]
         /\ \A q \in Proc : fd'[q] = "closed" <=> fd[q] = "closed"
         /\ \A q \in Live \ {p} : Own(q) => fd'[q] = fd[q]
<1>1. fd \in [Proc -> {"closed", "tmp", "dst", "unlinked"}]
  BY DEF IInv, Shape
<1>2. \A q \in Proc :
        fd'[q] = IF fd[q] = "closed" \/ Target(q) # Target(p) THEN fd[q]
                 ELSE IF fd[q] = "tmp" THEN to
                 ELSE IF to = "dst" THEN "unlinked" ELSE fd[q]
  BY DEF Moved
<1>3. fd' \in [Proc -> {"closed", "tmp", "dst", "unlinked"}]
  BY <1>1 DEF Moved
<1>4. \A q \in Live \ {p} : Own(q) => Target(q) # Target(p)
  BY OwnTargets
<1>5. Live \subseteq Proc
  BY DEF Live
<1> QED
  BY <1>1, <1>2, <1>3, <1>4, <1>5

-----------------------------------------------------------------------------
(* A step of a live process that changes no record: it leaves its place for *)
(* another, or dies, and at most temporary files, and the pointer where     *)
(* processes may share it, change.                                          *)

\* A step that only moves a process from one place to another keeps the invariant.
LEMMA QuietStep ==
  ASSUME IInv, NEW p \in Live, NEW v \in {"write", "rename", "drive", "gone"},
         step' = [step EXCEPT ![p] = v],
         v # "gone" => Bearing(p),
         v = "drive" => goal[p] = "save",
         UNCHANGED <<goal, id, doc, acked, created, begun, second, births>>,
         \A i \in Id : file'[i].dst = file[i].dst,
         Alone => file'[Latest].dst = file[Latest].dst,
         \A q \in Live \ {p} : Own(q) =>
            file'[Target(q)].tmp = file[Target(q)].tmp /\ fd'[q] = fd[q],
         v # "gone" /\ Own(p) =>
            /\ fd'[p] \in {"closed", "tmp"}
            /\ v = "rename" => file'[Target(p)].tmp = Payload(p),
         Shape'
  PROVE  IInv'
<1> USE DEF IInv
<1>1. step \in [Proc -> {"new", "baseline", "open", "write", "rename", "drive", "gone"}]
  BY DEF Shape
<1>2. /\ Live' \subseteq Live /\ p \in Proc
      /\ \A q \in Proc : q # p => step'[q] = step[q]
      /\ step'[p] = v
  BY <1>1 DEF Live
<1>3. \A q \in Live' : Bearing(q)' => Bearing(q)
  BY <1>1, <1>2 DEF Bearing, Live
<1>4. \A q \in Live' : id[q] \in Id /\ id'[q] = id[q] /\ doc'[q] = doc[q] /\ goal'[q] = goal[q]
  BY <1>2 DEF Equipped
<1>5. \A q \in Proc : (Past(q) => Past(q)') /\ \A i : Names(i, q)' <=> Names(i, q)
  <2>1. \A q \in Proc : \A i : Names(i, q)' <=> Names(i, q)
    BY DEF Names
  <2>2. \A q \in Proc \ {p} : Past(q)' <=> Past(q)
    BY <1>2 DEF Past, Bearing
  <2>3. Past(p) => Past(p)'
    BY <1>2 DEF Past, Bearing
  <2> QED
    BY <2>1, <2>2, <2>3
<1>6. Equipped'
  BY <1>2, <1>3, <1>4 DEF Equipped
<1>7. Exclusive'
  BY <1>2, <1>4 DEF Exclusive
<1>8. Writing'
  <2> SUFFICES ASSUME NEW q \in Live', Own(q)'
               PROVE  /\ fd'[q] \in {"closed", "tmp"}
                      /\ step'[q] = "rename" => file'[Target(q)].tmp = Payload(q)
    BY DEF Writing, Target, Payload
  <2>1. Own(q)
    BY <1>4 DEF Own, Alone
  <2>2. CASE q = p
    BY <1>1, <1>2, <2>1, <2>2 DEF Live
  <2>3. CASE q # p
    BY <1>2, <2>1, <2>3 DEF Writing
  <2> QED
    BY <2>2, <2>3
<1>9. Durable'
  BY DEF Durable
<1>10. Known'
  BY <1>2, <1>3, <1>4 DEF Known
<1>11. ASSUME Identity PROVE Identity'
  <2>1. \A q \in Live' : step'[q] = "baseline" => step[q] = "baseline"
    BY <1>2
  <2>2. \A i \in Id : file'[i].dst \in Record => file[i].dst.by \in Proc
    BY DEF Record
  <2>3. \A i \in Id : file'[i].dst \in Record =>
           Names(i, file[i].dst.by)' /\ Past(file[i].dst.by)'
    BY <1>5, <1>11, <2>2 DEF Identity
  <2>4. \A q \in Live' :
           step'[q] = "baseline" \/ (Bearing(q)' /\ goal'[q] = "create") => Names(id[q], q)'
    <3> SUFFICES ASSUME NEW q \in Live',
                        step'[q] = "baseline" \/ (Bearing(q)' /\ goal'[q] = "create")
                 PROVE  Names(id[q], q)'
      OBVIOUS
    <3>1. q \in Live /\ q \in Proc /\ id' = id
      BY <1>2 DEF Live
    <3>2. Names(id[q], q)
      BY <1>3, <1>11, <2>1, <3>1 DEF Identity
    <3> QED
      BY <3>1, <3>2 DEF Names
  <2>5. \A q \in Live' :
          /\ Bearing(q)' /\ goal'[q] = "create" => doc'[q].by = q /\ doc'[q].version = 0
          /\ Bearing(q)' /\ goal'[q] # "create" /\ file'[id[q]].dst \in Record =>
               /\ doc'[q].by = file'[id[q]].dst.by
               /\ doc'[q].version >= file'[id[q]].dst.version
    BY <1>2, <1>3, <1>4, <1>11 DEF Identity
  <2> QED
    BY <2>3, <2>4, <2>5 DEF Identity
<1>12. ASSUME Ages PROVE Ages'
  BY <1>2, <1>3, <1>4, <1>12 DEF Ages
<1>13. ASSUME Alone, Pointing PROVE Pointing'
  BY <1>13 DEF Pointing
<1> QED
  BY <1>6, <1>7, <1>8, <1>9, <1>10, <1>11, <1>12, <1>13 DEF Alone

\* What may be in a file, or in its temporary file.
Fits(t, c) == c \in (IF t = Latest THEN Id ELSE Record) \cup {Absent, Torn}

FileShape(f) ==
  /\ f \in [Targets -> [dst : Content, tmp : Content]]
  /\ \A t \in Targets : Fits(t, f[t].dst) /\ Fits(t, f[t].tmp)

\* The files of Shape, told together.
LEMMA ShapeOfFiles ==
  ASSUME IInv
  PROVE  FileShape(file)
<1>1. \A t \in Targets : t = Latest \/ (t \in Id /\ t # Latest)
  BY ContentsAssumption DEF Targets
<1> QED
  BY <1>1 DEF IInv, Shape, FileShape, Fits

\* And back.
LEMMA FilesOfShape ==
  ASSUME FileShape(file')
  PROVE  /\ file' \in [Targets -> [dst : Content, tmp : Content]]
         /\ \A i \in Id : /\ file'[i].dst \in Record \cup {Absent, Torn}
                          /\ file'[i].tmp \in Record \cup {Absent, Torn}
         /\ file'[Latest].dst \in Id \cup {Absent, Torn}
         /\ file'[Latest].tmp \in Id \cup {Absent, Torn}
<1>1. Latest \in Targets /\ \A i \in Id : i \in Targets /\ i # Latest
  BY ContentsAssumption DEF Targets
<1> QED
  BY <1>1 DEF FileShape, Fits

\* A temporary file changes, nothing else on the disk.
LEMMA TmpChanges ==
  ASSUME IInv, NEW t \in Targets, NEW c, Fits(t, c),
         file' = [file EXCEPT ![t].tmp = c]
  PROVE  /\ FileShape(file')
         /\ \A u \in Targets : file'[u].dst = file[u].dst
         /\ \A u \in Targets : u # t => file'[u] = file[u]
         /\ file'[t].tmp = c
<1>1. FileShape(file)
  BY ShapeOfFiles
<1>2. c \in Content
  BY DEF Fits, Content
<1>3. file \in [Targets -> [dst : Content, tmp : Content]]
  BY <1>1 DEF FileShape
<1>4. file' \in [Targets -> [dst : Content, tmp : Content]]
  BY <1>2, <1>3
<1>5. /\ \A u \in Targets : u # t => file'[u] = file[u]
      /\ file'[t].dst = file[t].dst /\ file'[t].tmp = c
  BY <1>3
<1>6. \A u \in Targets : Fits(u, file'[u].dst) /\ Fits(u, file'[u].tmp)
  BY <1>1, <1>5 DEF FileShape
<1> QED
  BY <1>4, <1>5, <1>6 DEF FileShape

\* The targets of the live processes, and what the rest of Shape takes for a step
\* of one of them: its place and descriptor fit together.
LEMMA ShapeOfStep ==
  ASSUME IInv, NEW p \in Live, NEW v \in {"open", "write", "rename", "drive", "gone"},
         step' = [step EXCEPT ![p] = v],
         FileShape(file'),
         fd' \in [Proc -> {"closed", "tmp", "dst", "unlinked"}],
         \A q \in Proc \ {p} : fd'[q] = "closed" <=> fd[q] = "closed",
         fd'[p] # "closed" <=> v = "write",
         goal' \in [Proc -> {"create", "latest", "save"}],
         id' = id,
         doc' \in [Proc -> Record \cup {None}],
         acked' \in [Id -> Record \cup {None}],
         created' \in SUBSET Record, begun' = begun,
         UNCHANGED <<second, births>>, faults' \in Nat
  PROVE  Shape'
<1>1. Shape
  BY DEF IInv
<1>2. p \in Proc
  BY DEF Live
<1>3. step' \in [Proc -> {"new", "baseline", "open", "write", "rename", "drive", "gone"}]
  BY <1>1 DEF Shape
<1>4. \A q \in Proc : q # p => step'[q] = step[q]
  BY <1>1 DEF Shape
<1>5. step'[p] = v
  BY <1>1, <1>2 DEF Shape
<1>6. \A q \in Proc : fd'[q] # "closed" <=> step'[q] = "write"
  BY <1>1, <1>4, <1>5 DEF Shape
<1>7. Live' \subseteq Live
  BY <1>4 DEF Live
<1>8. IsFiniteSet(Live') /\ Cardinality(Live') <= MaxLive
  BY <1>1, <1>7, LiveShrinks
<1>9. /\ id' \in [Proc -> Id \cup {None}]
      /\ second' \in 0..MaxSecond /\ births' \in Nat
      /\ begun' \in [Proc -> 0..MaxSecond]
  BY <1>1 DEF Shape
<1> QED
  BY <1>3, <1>6, <1>8, <1>9, FilesOfShape DEF Shape

\* What a failing call may count.
LEMMA FaultCounted ==
  ASSUME IInv, Fault \/ UNCHANGED faults
  PROVE  faults' \in Nat
BY DEF IInv, Shape, Fault

\* A live process that gives up a write keeps the files as they are: it drives on,
\* or ends, with its descriptor closed.
LEMMA GivesUp ==
  ASSUME IInv, NEW p \in Live, NEW v \in {"drive", "gone"},
         step' = [step EXCEPT ![p] = v],
         v = "drive" => goal[p] = "save" /\ Bearing(p),
         UNCHANGED <<goal, id, doc, acked, created, begun, second, births>>,
         FileShape(file'),
         \A t \in Targets : file'[t].dst = file[t].dst,
         \A q \in Live \ {p} : Own(q) =>
            file'[Target(q)].tmp = file[Target(q)].tmp /\ fd'[q] = fd[q],
         fd' \in [Proc -> {"closed", "tmp", "dst", "unlinked"}],
         \A q \in Proc \ {p} : fd'[q] = "closed" <=> fd[q] = "closed",
         fd'[p] = "closed",
         faults' \in Nat
  PROVE  IInv'
<1>1. Shape'
  BY ShapeOfStep DEF IInv, Shape
<1>2. Latest \in Targets /\ \A i \in Id : i \in Targets
  BY DEF Targets
<1> QED
  BY <1>1, <1>2, QuietStep

\* The temporary file of another live process's own target is left alone, when a
\* live process changes that of its own target.
LEMMA OthersFiles ==
  ASSUME IInv, NEW p \in Live,
         \A u \in Targets : u # Target(p) => file'[u] = file[u]
  PROVE  \A q \in Live \ {p} : Own(q) => file'[Target(q)].tmp = file[Target(q)].tmp
<1> SUFFICES ASSUME NEW q \in Live \ {p}, Own(q)
             PROVE  file'[Target(q)].tmp = file[Target(q)].tmp
  OBVIOUS
<1>1. Target(q) # Target(p)
  BY OwnTargets
<1>2. Target(q) \in Targets
  BY DEF Target, Targets, IInv, Equipped
<1> QED
  BY <1>1, <1>2

\* Creating or truncating the temporary file leaves every whole file as it was.
LEMMA OpenTmpKeepsIInv ==
  ASSUME IInv, NEW p \in Proc, OpenTmp(p)
  PROVE  IInv'
<1>1. p \in Live /\ Bearing(p) /\ step[p] = "open"
  BY DEF OpenTmp, Live, Bearing
<1>2. fd[p] = "closed" /\ fd \in [Proc -> {"closed", "tmp", "dst", "unlinked"}]
  BY <1>1 DEF IInv, Shape
<1>3. UNCHANGED <<goal, id, doc, acked, created, begun, second, births>>
  BY DEF OpenTmp, clockVars, ghosts
<1>4. CASE /\ file' = [file EXCEPT ![Target(p)].tmp = Torn]
           /\ fd' = [fd EXCEPT ![p] = "tmp"]
           /\ step' = [step EXCEPT ![p] = "write"]
           /\ UNCHANGED faults
  <2>1. Target(p) \in Targets
    BY <1>1, LiveTarget
  <2>2. Fits(Target(p), Torn)
    BY DEF Fits
  <2>3. /\ FileShape(file')
        /\ \A u \in Targets : file'[u].dst = file[u].dst
        /\ \A u \in Targets : u # Target(p) => file'[u] = file[u]
    BY <1>4, <2>1, <2>2, TmpChanges
  <2>4. /\ fd' \in [Proc -> {"closed", "tmp", "dst", "unlinked"}]
        /\ fd'[p] = "tmp" /\ \A q \in Proc \ {p} : fd'[q] = fd[q]
    BY <1>2, <1>4
  <2>5. Shape'
    BY <1>1, <1>3, <1>4, <2>3, <2>4, ShapeOfStep DEF IInv, Shape
  <2>6. Latest \in Targets /\ \A i \in Id : i \in Targets
    BY DEF Targets
  <2>7. Live \subseteq Proc
    BY DEF Live
  <2>8. \A q \in Live \ {p} : Own(q) =>
           file'[Target(q)].tmp = file[Target(q)].tmp /\ fd'[q] = fd[q]
    BY <1>1, <2>3, <2>4, <2>7, OthersFiles
  <2> QED
    BY <1>1, <1>3, <1>4, <2>3, <2>4, <2>5, <2>6, <2>8, QuietStep
<1>5. CASE /\ Fault /\ step' = [step EXCEPT ![p] = AfterError(p)]
           /\ UNCHANGED <<file, fd>>
  <2>1. FileShape(file') /\ faults' \in Nat
    BY <1>5, ShapeOfFiles, FaultCounted
  <2>2. AfterError(p) \in {"drive", "gone"} /\ (AfterError(p) = "drive" => goal[p] = "save")
    BY DEF AfterError
  <2> QED
    BY <1>1, <1>2, <1>3, <1>5, <2>1, <2>2, GivesUp
<1> QED
  BY <1>4, <1>5 DEF OpenTmp

\* Writing reaches the one file the process holds open, its own temporary one.
LEMMA WriteTmpKeepsIInv ==
  ASSUME IInv, NEW p \in Proc, WriteTmp(p)
  PROVE  IInv'
<1>1. p \in Live /\ Bearing(p) /\ step[p] = "write"
  BY DEF WriteTmp, Live, Bearing
<1>2. fd \in [Proc -> {"closed", "tmp", "dst", "unlinked"}]
  BY DEF IInv, Shape
<1>3. UNCHANGED <<goal, id, doc, acked, created, begun, second, births>>
  BY DEF WriteTmp, clockVars, ghosts
<1>4. /\ fd' \in [Proc -> {"closed", "tmp", "dst", "unlinked"}]
      /\ fd'[p] = "closed" /\ \A q \in Proc \ {p} : fd'[q] = fd[q]
  BY <1>2 DEF WriteTmp
<1>5. Live \subseteq Proc /\ Latest \in Targets /\ \A i \in Id : i \in Targets
  BY DEF Live, Targets
<1>6. CASE /\ file' = IF fd[p] = "unlinked" THEN file
                      ELSE IF fd[p] = "dst" THEN [file EXCEPT ![Target(p)].dst = Payload(p)]
                      ELSE [file EXCEPT ![Target(p)].tmp = Payload(p)]
           /\ step' = [step EXCEPT ![p] = "rename"]
           /\ UNCHANGED faults
  <2>1. Target(p) \in Targets /\ Fits(Target(p), Payload(p))
    <3>1. goal[p] = "latest" => Target(p) = Latest /\ Payload(p) \in Id
      BY <1>1, LiveTarget
    <3>2. goal[p] # "latest" => Target(p) \in Id /\ Payload(p) \in Record
      BY <1>1, LiveTarget
    <3> QED
      BY <1>5, <3>1, <3>2, ContentsAssumption DEF Fits
  <2>2. Own(p) => fd[p] = "tmp"
    BY <1>1 DEF IInv, Writing, Shape
  <2>3. FileShape(file) /\ Payload(p) \in Content
    BY <1>1, ShapeOfFiles, LiveTarget
  <2>4. /\ FileShape(file')
        /\ \A u \in Targets : u # Target(p) => file'[u] = file[u]
        /\ fd[p] # "dst" => \A u \in Targets : file'[u].dst = file[u].dst
        /\ fd[p] = "tmp" => file'[Target(p)].tmp = Payload(p)
    <3>1. CASE fd[p] = "unlinked"
      BY <1>6, <2>3, <3>1
    <3>2. CASE fd[p] = "dst"
      <4>1. file' = [file EXCEPT ![Target(p)].dst = Payload(p)]
        BY <1>6, <3>2
      <4>2. file \in [Targets -> [dst : Content, tmp : Content]]
        BY <2>3 DEF FileShape
      <4>3. file' \in [Targets -> [dst : Content, tmp : Content]]
        BY <2>3, <4>1, <4>2
      <4>4. /\ \A u \in Targets : u # Target(p) => file'[u] = file[u]
            /\ file'[Target(p)].dst = Payload(p)
            /\ file'[Target(p)].tmp = file[Target(p)].tmp
        BY <2>1, <4>1, <4>2
      <4> QED
        BY <2>1, <2>3, <3>2, <4>3, <4>4 DEF FileShape
    <3>3. CASE fd[p] \notin {"unlinked", "dst"}
      BY <1>6, <2>1, <3>3, TmpChanges
    <3> QED
      BY <3>1, <3>2, <3>3
  <2>5. Shape'
    <3>1. /\ goal' \in [Proc -> {"create", "latest", "save"}]
          /\ doc' \in [Proc -> Record \cup {None}]
          /\ acked' \in [Id -> Record \cup {None}]
          /\ created' \in SUBSET Record /\ faults' \in Nat
      BY <1>3, <1>6 DEF IInv, Shape
    <3> QED
      BY <1>1, <1>3, <1>4, <1>6, <2>4, <3>1, ShapeOfStep
  <2>6. \A q \in Live \ {p} : Own(q) =>
           file'[Target(q)].tmp = file[Target(q)].tmp /\ fd'[q] = fd[q]
    BY <1>1, <1>4, <1>5, <2>4, OthersFiles
  <2>7. \A i \in Id : file'[i].dst = file[i].dst
    <3>1. CASE Own(p)
      BY <1>5, <2>2, <2>4, <3>1
    <3>2. CASE ~ Own(p)
      BY <1>1, <1>5, <2>4, <3>2, LiveTarget, ContentsAssumption DEF Own
    <3> QED
      BY <3>1, <3>2
  <2>8. Alone => file'[Latest].dst = file[Latest].dst
    BY <1>5, <2>2, <2>4 DEF Own
  <2> QED
    BY <1>1, <1>3, <1>4, <1>6, <2>2, <2>4, <2>5, <2>6, <2>7, <2>8, QuietStep
<1>7. CASE /\ Fault /\ step' = [step EXCEPT ![p] = AfterError(p)]
           /\ UNCHANGED file
  <2>1. FileShape(file') /\ faults' \in Nat
    BY <1>7, ShapeOfFiles, FaultCounted
  <2>2. AfterError(p) \in {"drive", "gone"} /\ (AfterError(p) = "drive" => goal[p] = "save")
    BY DEF AfterError
  <2> QED
    BY <1>1, <1>3, <1>4, <1>5, <1>7, <2>1, <2>2, GivesUp
<1> QED
  BY <1>6, <1>7 DEF WriteTmp

\* A rename that fails leaves the file, and the process drops its descriptor.
LEMMA RenameFailsKeepsIInv ==
  ASSUME IInv, NEW p \in Proc, RenameFails(p)
  PROVE  IInv'
<1>1. p \in Live /\ Bearing(p) /\ step[p] = "rename"
  BY DEF RenameFails, Live, Bearing
<1>2. UNCHANGED <<goal, id, doc, acked, created, begun, second, births>>
  BY DEF RenameFails, clockVars, ghosts
<1>3. faults' \in Nat
  BY FaultCounted DEF RenameFails
<1>4. Target(p) \in Targets /\ Fits(Target(p), Absent)
  BY <1>1, LiveTarget DEF Fits
<1>5. /\ FileShape(file')
      /\ \A u \in Targets : file'[u].dst = file[u].dst
      /\ \A u \in Targets : u # Target(p) => file'[u] = file[u]
  BY <1>4, TmpChanges DEF RenameFails
<1>6. /\ fd' \in [Proc -> {"closed", "tmp", "dst", "unlinked"}]
      /\ \A q \in Proc : fd'[q] = "closed" <=> fd[q] = "closed"
      /\ \A q \in Live \ {p} : Own(q) => fd'[q] = fd[q]
  BY <1>1, MovedOthers DEF RenameFails
<1>7. fd[p] = "closed"
  BY <1>1 DEF IInv, Shape
<1>8. \A q \in Live \ {p} : Own(q) =>
         file'[Target(q)].tmp = file[Target(q)].tmp /\ fd'[q] = fd[q]
  BY <1>1, <1>5, <1>6, OthersFiles
<1>9. AfterError(p) \in {"drive", "gone"} /\ (AfterError(p) = "drive" => goal[p] = "save")
  BY DEF AfterError
<1>10. step' = [step EXCEPT ![p] = AfterError(p)]
  BY DEF RenameFails
<1> QED
  BY <1>1, <1>2, <1>3, <1>5, <1>6, <1>7, <1>8, <1>9, <1>10, GivesUp

\* A process that dies or ends keeps what is on disk.
LEMMA EndsKeepIInv ==
  ASSUME IInv, NEW p \in Proc, Exit(p) \/ Crash(p)
  PROVE  IInv'
<1>1. p \in Live
  BY DEF Exit, Crash, Live
<1>2. /\ step' = [step EXCEPT ![p] = "gone"]
      /\ UNCHANGED <<goal, id, doc, acked, created, begun, second, births, file>>
  BY DEF Exit, Crash, clockVars, ghosts, diskVars
<1>3. fd \in [Proc -> {"closed", "tmp", "dst", "unlinked"}]
      /\ (step[p] # "write" => fd[p] = "closed")
  BY DEF IInv, Shape
<1>4. /\ fd' \in [Proc -> {"closed", "tmp", "dst", "unlinked"}]
      /\ fd'[p] = "closed" /\ \A q \in Proc \ {p} : fd'[q] = fd[q]
  BY <1>3 DEF Exit, Crash, diskVars
<1>5. faults' \in Nat
  BY FaultCounted DEF Exit, Crash
<1>6. FileShape(file')
  BY <1>2, ShapeOfFiles
<1>7. Live \subseteq Proc
  BY DEF Live
<1> QED
  BY <1>1, <1>2, <1>4, <1>5, <1>6, <1>7, GivesUp

-----------------------------------------------------------------------------
(* The steps that change records: each says what the process has after it.  *)

\* A transition changes the record in memory and begins a save of it.
LEMMA TransitionKeepsIInv ==
  ASSUME IInv, NEW p \in Proc, Transition(p)
  PROVE  IInv'
<1> USE DEF IInv
<1>1. /\ p \in Live /\ Bearing(p) /\ step[p] = "drive" /\ goal[p] = "save"
      /\ id[p] \in Id /\ doc[p] \in Record /\ doc[p].version < MaxVersion
  BY DEF Transition, Live, Bearing, Equipped
<1>2. /\ step' = [step EXCEPT ![p] = "open"]
      /\ UNCHANGED <<goal, id, acked, created, begun, second, births, file, fd, faults>>
  BY DEF Transition, clockVars, ghosts, diskVars
<1>3. /\ step \in [Proc -> {"new", "baseline", "open", "write", "rename", "drive", "gone"}]
      /\ fd \in [Proc -> {"closed", "tmp", "dst", "unlinked"}] /\ fd[p] = "closed"
      /\ doc \in [Proc -> Record \cup {None}]
  BY <1>1 DEF Shape
<1>4. doc'[p] = [doc[p] EXCEPT !.version = @ + 1] /\ \A q \in Proc \ {p} : doc'[q] = doc[q]
  BY <1>3 DEF Transition
<1>5. /\ doc'[p] \in Record /\ doc'[p].by = doc[p].by /\ doc'[p].born = doc[p].born
      /\ doc'[p].version = doc[p].version + 1
  BY <1>1, <1>4, BoundsAssumption DEF Record
<1>6. doc' \in [Proc -> Record \cup {None}]
  BY <1>1, <1>3, <1>5 DEF Transition
<1>7. step'[p] = "open" /\ \A q \in Proc \ {p} : step'[q] = step[q]
  BY <1>2, <1>3
<1>8. Live' = Live /\ \A q \in Proc : Bearing(q)' <=> Bearing(q)
  BY <1>1, <1>7 DEF Live, Bearing
<1>9. Shape'
  <2>1. /\ goal' \in [Proc -> {"create", "latest", "save"}]
        /\ acked' \in [Id -> Record \cup {None}]
        /\ created' \in SUBSET Record /\ faults' \in Nat
        /\ fd' = fd /\ id' = id /\ UNCHANGED <<second, births>>
    BY <1>2 DEF Shape
  <2>2. FileShape(file')
    BY <1>2, ShapeOfFiles
  <2> QED
    BY <1>1, <1>2, <1>3, <1>6, <2>1, <2>2, ShapeOfStep
<1>10. Live \subseteq Proc
  BY DEF Live
<1>11. Equipped' /\ Exclusive'
  BY <1>1, <1>2, <1>4, <1>5, <1>7, <1>8, <1>10 DEF Equipped, Exclusive
<1>12. Writing'
  BY <1>1, <1>2, <1>3, <1>4, <1>7, <1>8, <1>10 DEF Writing, Own, Alone, Target, Payload
<1>13. Durable' /\ Known'
  BY <1>1, <1>2, <1>4, <1>8, <1>10 DEF Durable, Known
<1>14. ASSUME Identity PROVE Identity'
  <2>1. \A i \in Id : file[i].dst \in Record => file[i].dst.by \in Proc
    BY DEF Record
  <2>2. file[id[p]].dst \in Record =>
          file[id[p]].dst.version \in Nat /\ doc[p].version \in Nat
    BY <1>1, BoundsAssumption DEF Record
  <2>3. \A q \in Proc : /\ Past(q) => Past(q)'
                        /\ step'[q] = "baseline" => step[q] = "baseline"
                        /\ \A i : Names(i, q)' <=> Names(i, q)
    BY <1>1, <1>2, <1>7, <1>8 DEF Past, Names
  <2>4. \A i \in Id : file'[i].dst \in Record =>
           Names(i, file[i].dst.by)' /\ Past(file[i].dst.by)'
    BY <1>2, <1>14, <2>1, <2>3 DEF Identity
  <2>5. \A q \in Live' :
           step'[q] = "baseline" \/ (Bearing(q)' /\ goal'[q] = "create") => Names(id[q], q)'
    BY <1>2, <1>8, <1>10, <1>14, <2>3 DEF Identity
  <2>6. \A q \in Live' : Bearing(q)' /\ goal'[q] = "create" =>
                           doc'[q].by = q /\ doc'[q].version = 0
    BY <1>1, <1>2, <1>4, <1>8, <1>10, <1>14 DEF Identity
  <2>7. \A q \in Live' : Bearing(q)' /\ goal'[q] # "create" /\ file'[id'[q]].dst \in Record =>
          /\ doc'[q].by = file'[id'[q]].dst.by
          /\ doc'[q].version >= file'[id'[q]].dst.version
    <3> SUFFICES ASSUME NEW q \in Live, Bearing(q), goal[q] # "create",
                        file[id[q]].dst \in Record
                 PROVE  /\ doc'[q].by = file[id[q]].dst.by
                        /\ doc'[q].version >= file[id[q]].dst.version
      BY <1>2, <1>8, <1>10
    <3>1. doc[q].by = file[id[q]].dst.by /\ doc[q].version >= file[id[q]].dst.version
      BY <1>14 DEF Identity
    <3>2. CASE q = p
      <4>1. file[id[p]].dst.version \in Nat /\ doc[p].version \in Nat
        BY <2>2, <3>2
      <4> QED
        BY <1>5, <3>1, <3>2, <4>1
    <3>3. CASE q # p
      BY <1>4, <1>10, <3>1, <3>3
    <3> QED
      BY <3>2, <3>3
  <2> QED
    BY <2>4, <2>5, <2>6, <2>7 DEF Identity
<1>15. ASSUME Ages PROVE Ages'
  BY <1>1, <1>2, <1>4, <1>5, <1>7, <1>8, <1>10, <1>15 DEF Ages
<1>16. ASSUME Pointing PROVE Pointing'
  BY <1>2, <1>16 DEF Pointing
<1> QED
  BY <1>9, <1>11, <1>12, <1>13, <1>14, <1>15, <1>16 DEF Alone

\* The first save of a new run, after its baseline.
LEMMA CaptureBaselineKeepsIInv ==
  ASSUME IInv, NEW p \in Proc, CaptureBaseline(p)
  PROVE  IInv'
<1> USE DEF IInv
<1>1. p \in Live /\ step[p] = "baseline" /\ ~ Bearing(p) /\ id[p] \in Id
  BY DEF CaptureBaseline, Live, Bearing, Equipped
<1>2. /\ step' = [step EXCEPT ![p] = "open"]
      /\ goal' = [goal EXCEPT ![p] = "create"]
      /\ doc' = [doc EXCEPT ![p] = [by |-> p, born |-> births + 1, version |-> 0]]
      /\ births' = births + 1
      /\ UNCHANGED <<id, acked, created, begun, second, file, fd, faults>>
  BY DEF CaptureBaseline, ghosts, diskVars
<1>3. /\ step \in [Proc -> {"new", "baseline", "open", "write", "rename", "drive", "gone"}]
      /\ goal \in [Proc -> {"create", "latest", "save"}]
      /\ fd \in [Proc -> {"closed", "tmp", "dst", "unlinked"}] /\ fd[p] = "closed"
      /\ doc \in [Proc -> Record \cup {None}]
      /\ births \in Nat
  BY <1>1 DEF Shape
<1>4. /\ doc'[p] = [by |-> p, born |-> births + 1, version |-> 0]
      /\ goal'[p] = "create" /\ step'[p] = "open"
      /\ \A q \in Proc \ {p} : doc'[q] = doc[q] /\ goal'[q] = goal[q] /\ step'[q] = step[q]
  BY <1>2, <1>3
<1>5. /\ doc'[p] \in Record /\ doc'[p].by = p /\ doc'[p].version = 0
      /\ doc'[p].born = births'
  BY <1>2, <1>3, <1>4, BoundsAssumption DEF Record
<1>6. /\ doc' \in [Proc -> Record \cup {None}]
      /\ goal' \in [Proc -> {"create", "latest", "save"}]
      /\ step' \in [Proc -> {"new", "baseline", "open", "write", "rename", "drive", "gone"}]
  BY <1>2, <1>3, <1>4, <1>5
<1>7. Live' = Live /\ Live \subseteq Proc /\ \A q \in Proc \ {p} : Bearing(q)' <=> Bearing(q)
  BY <1>1, <1>4 DEF Live, Bearing
<1>8. Shape'
  <2>1. IsFiniteSet(Live') /\ Cardinality(Live') <= MaxLive
    BY <1>7, LiveShrinks
  <2>2. \A q \in Proc : fd'[q] # "closed" <=> step'[q] = "write"
    BY <1>1, <1>2, <1>3, <1>4 DEF Shape
  <2> QED
    BY <1>2, <1>3, <1>6, <2>1, <2>2 DEF Shape
<1>9. Equipped' /\ Exclusive'
  BY <1>2, <1>4, <1>5, <1>7 DEF Equipped, Exclusive
<1>10. Writing'
  <2> SUFFICES ASSUME NEW q \in Live, Own(q)'
               PROVE  /\ fd'[q] \in {"closed", "tmp"}
                      /\ step'[q] = "rename" => file'[Target(q)'].tmp = Payload(q)'
    BY <1>7 DEF Writing
  <2>1. CASE q = p
    BY <1>2, <1>3, <1>4, <2>1
  <2>2. CASE q # p
    BY <1>2, <1>4, <1>7, <2>2 DEF Writing, Own, Alone, Target, Payload
  <2> QED
    BY <2>1, <2>2
<1>11. Durable'
  BY <1>2 DEF Durable
<1>12. Known'
  BY <1>2, <1>4, <1>7 DEF Known
<1>13. ASSUME Identity PROVE Identity'
  <2>1. \A i \in Id : file[i].dst \in Record => file[i].dst.by \in Proc
    BY DEF Record
  <2>2. ~ Past(p) /\ Names(id[p], p)
    BY <1>1, <1>13 DEF Identity, Past
  <2>3. \A q \in Proc : (Past(q) => Past(q)') /\ \A i : Names(i, q)' <=> Names(i, q)
    <3>1. \A q \in Proc : \A i : Names(i, q)' <=> Names(i, q)
      BY <1>2 DEF Names
    <3>2. \A q \in Proc \ {p} : Past(q)' <=> Past(q)
      BY <1>4, <1>7 DEF Past
    <3> QED
      BY <2>2, <3>1, <3>2
  <2>4. \A i \in Id : file'[i].dst \in Record =>
           Names(i, file[i].dst.by)' /\ Past(file[i].dst.by)'
    BY <1>2, <1>13, <2>1, <2>3 DEF Identity
  <2>5. \A q \in Live :
           step'[q] = "baseline" \/ (Bearing(q)' /\ goal'[q] = "create") => Names(id[q], q)'
    BY <1>2, <1>4, <1>7, <1>13, <2>2, <2>3 DEF Identity
  <2>6. \A q \in Live :
          /\ Bearing(q)' /\ goal'[q] = "create" => doc'[q].by = q /\ doc'[q].version = 0
          /\ Bearing(q)' /\ goal'[q] # "create" /\ file[id[q]].dst \in Record =>
               /\ doc'[q].by = file[id[q]].dst.by
               /\ doc'[q].version >= file[id[q]].dst.version
    BY <1>4, <1>5, <1>7, <1>13 DEF Identity
  <2> QED
    BY <1>2, <1>7, <2>4, <2>5, <2>6 DEF Identity
<1>14. ASSUME Alone, Ages PROVE Ages'
  <2>1. Live = {p}
    BY <1>1, <1>14, AloneIsOne
  <2>2. \A i \in Id : file[i].dst \in Record =>
          file[i].dst.born \in Nat /\ file[i].dst.born <= births + 1
    BY <1>3, <1>14 DEF Ages, Record
  <2>3. \A r \in created : r.born \in Nat /\ r.born <= births + 1
    BY <1>3, <1>14 DEF Ages, Record, Shape
  <2>4. births' = births + 1 /\ UNCHANGED <<file, created, id>>
    BY <1>2
  <2> QED
    BY <1>1, <1>3, <1>4, <1>5, <1>7, <2>1, <2>2, <2>3, <2>4 DEF Ages
<1>15. ASSUME Pointing PROVE Pointing'
  BY <1>2, <1>15 DEF Pointing
<1> QED
  BY <1>8, <1>9, <1>10, <1>11, <1>12, <1>13, <1>14, <1>15 DEF Alone

\* A process that starts, on a run that no live process has, with its record if it
\* loads one.
LEMMA StartKeepsIInv ==
  ASSUME IInv, NEW p \in Proc, NEW i \in Id, NEW v \in {"baseline", "drive"},
         step[p] = "new", Cardinality(Live) < MaxLive,
         step' = [step EXCEPT ![p] = v],
         id' = [id EXCEPT ![p] = i],
         UNCHANGED <<file, fd, acked, created, second, births, faults>>,
         begun' \in [Proc -> 0..MaxSecond], \A q \in Proc \ {p} : begun'[q] = begun[q],
         goal' \in [Proc -> {"create", "latest", "save"}],
         doc' \in [Proc -> Record \cup {None}],
         \A q \in Proc \ {p} : doc'[q] = doc[q] /\ goal'[q] = goal[q],
         \A q \in Live : id[q] # i,
         v = "baseline" => Names(i, p)',
         v = "drive" => /\ file[i].dst \in Record /\ doc'[p] = file[i].dst
                        /\ goal'[p] = "save"
  PROVE  IInv'
<1> USE DEF IInv
<1>1. /\ step \in [Proc -> {"new", "baseline", "open", "write", "rename", "drive", "gone"}]
      /\ fd \in [Proc -> {"closed", "tmp", "dst", "unlinked"}] /\ fd[p] = "closed"
      /\ id \in [Proc -> Id \cup {None}]
  BY DEF Shape
<1>2. /\ step'[p] = v /\ \A q \in Proc \ {p} : step'[q] = step[q]
      /\ id'[p] = i /\ \A q \in Proc \ {p} : id'[q] = id[q]
      /\ id' \in [Proc -> Id \cup {None}]
      /\ step' \in [Proc -> {"new", "baseline", "open", "write", "rename", "drive", "gone"}]
  BY <1>1
<1>3. p \notin Live /\ Live' = Live \cup {p} /\ Live \subseteq Proc
  BY <1>2 DEF Live
<1>4. /\ \A q \in Live : Bearing(q)' <=> Bearing(q)
      /\ Bearing(p)' <=> v = "drive"
  BY <1>2, <1>3 DEF Bearing
<1>5. Shape'
  <2>1. IsFiniteSet(Live') /\ Cardinality(Live') <= MaxLive
    BY <1>3, LiveGrows
  <2>2. \A q \in Proc : fd'[q] # "closed" <=> step'[q] = "write"
    BY <1>1, <1>2 DEF Shape
  <2> QED
    BY <1>2, <2>1, <2>2 DEF Shape
<1>6. \A q \in Live : /\ q # p /\ step'[q] = step[q] /\ id'[q] = id[q]
                      /\ doc'[q] = doc[q] /\ goal'[q] = goal[q]
  BY <1>2, <1>3
<1>7. Equipped'
  BY <1>2, <1>3, <1>4, <1>6 DEF Equipped
<1>8. Exclusive'
  BY <1>2, <1>3, <1>6 DEF Exclusive
<1>9. Writing'
  <2> SUFFICES ASSUME NEW q \in Live', Own(q)'
               PROVE  /\ fd'[q] \in {"closed", "tmp"}
                      /\ step'[q] = "rename" => file'[Target(q)'].tmp = Payload(q)'
    BY DEF Writing
  <2>1. CASE q = p
    BY <1>1, <1>2, <2>1
  <2>2. CASE q # p
    BY <1>3, <1>6, <2>2 DEF Writing, Own, Alone, Target, Payload
  <2> QED
    BY <2>1, <2>2
<1>10. Durable'
  BY DEF Durable
<1>11. Known'
  BY <1>2, <1>3, <1>4, <1>6 DEF Known
<1>12. ASSUME Identity PROVE Identity'
  <2>1. \A j \in Id : file[j].dst \in Record =>
          file[j].dst.by \in Proc /\ file[j].dst.version \in Nat
    BY BoundsAssumption DEF Record
  <2>2. ~ Past(p) /\ \A q \in Proc \ {p} :
          (Past(q) => Past(q)') /\ \A j : Names(j, q)' <=> Names(j, q)
    <3>1. ~ Past(p)
      BY DEF Past
    <3>2. \A q \in Proc \ {p} : \A j : Names(j, q)' <=> Names(j, q)
      BY DEF Names
    <3>3. \A q \in Proc \ {p} : Past(q)' <=> Past(q)
      BY <1>2 DEF Past, Bearing
    <3> QED
      BY <3>1, <3>2, <3>3
  <2>3. \A j \in Id : file'[j].dst \in Record =>
           Names(j, file[j].dst.by)' /\ Past(file[j].dst.by)'
    BY <1>12, <2>1, <2>2 DEF Identity
  <2>4. \A q \in Live :
          /\ step'[q] = "baseline" \/ (Bearing(q)' /\ goal'[q] = "create") => Names(id[q], q)'
          /\ Bearing(q)' /\ goal'[q] = "create" => doc'[q].by = q /\ doc'[q].version = 0
          /\ Bearing(q)' /\ goal'[q] # "create" /\ file'[id'[q]].dst \in Record =>
               /\ doc'[q].by = file'[id'[q]].dst.by
               /\ doc'[q].version >= file'[id'[q]].dst.version
    BY <1>3, <1>4, <1>6, <1>12, <2>2 DEF Identity
  <2>5. /\ step'[p] = "baseline" \/ (Bearing(p)' /\ goal'[p] = "create") => Names(id[p], p)'
        /\ Bearing(p)' => goal'[p] # "create"
    BY <1>2, <1>4
  <2>6. Bearing(p)' /\ file'[id'[p]].dst \in Record =>
             /\ doc'[p].by = file'[id'[p]].dst.by
             /\ doc'[p].version >= file'[id'[p]].dst.version
    BY <1>2, <1>4, <2>1
  <2> QED
    BY <1>3, <2>3, <2>4, <2>5, <2>6 DEF Identity
<1>13. ASSUME Ages PROVE Ages'
  <2>1. \A q \in Live : Bearing(q)' =>
          /\ doc'[q].born <= births'
          /\ goal'[q] # "save" => doc'[q].born = births'
          /\ file'[id'[q]].dst \in Record => doc'[q].born >= file'[id'[q]].dst.born
    BY <1>4, <1>6, <1>13 DEF Ages
  <2>2. Bearing(p)' =>
          /\ doc'[p].born <= births' /\ goal'[p] = "save"
          /\ file'[id'[p]].dst \in Record => doc'[p].born >= file'[id'[p]].dst.born
    <3>1. file[i].dst \in Record => file[i].dst.born \in Nat
      BY DEF Record
    <3> QED
      BY <1>2, <1>4, <1>13, <3>1 DEF Ages
  <2> QED
    BY <1>3, <1>13, <2>1, <2>2 DEF Ages
<1>14. ASSUME Pointing PROVE Pointing'
  BY <1>14 DEF Pointing
<1> QED
  BY <1>5, <1>7, <1>8, <1>9, <1>10, <1>11, <1>12, <1>13, <1>14 DEF Alone

\* A new id is no live process's: there is none, or tasks are told apart by their
\* slugs.  It may be that of a run on disk.
LEMMA BeginCreateKeepsIInv ==
  ASSUME IInv, Apart, NEW p \in Proc, BeginCreate(p)
  PROVE  IInv'
<1>0. NewID(p) \in Id /\ NewID(p).slug = SlugOf[p]
  BY DEF NewID, Id, Slugs, IInv, Shape
<1> PICK i \in Id : i = NewID(p)
  BY <1>0
<1>1. /\ step[p] = "new" /\ Cardinality(Live) < MaxLive
      /\ step' = [step EXCEPT ![p] = "baseline"] /\ id' = [id EXCEPT ![p] = i]
      /\ begun' = [begun EXCEPT ![p] = second]
      /\ UNCHANGED <<file, fd, acked, created, second, births, faults, goal, doc>>
  BY DEF BeginCreate, clockVars, diskVars
<1>2. i \in Id /\ i.slug = SlugOf[p]
  BY <1>0
<1>3. /\ begun' \in [Proc -> 0..MaxSecond] /\ \A q \in Proc \ {p} : begun'[q] = begun[q]
      /\ begun'[p] = second
  BY <1>1 DEF IInv, Shape
<1>4. Names(i, p)'
  BY <1>3 DEF Names, NewID
<1>5. \A q \in Live : id[q] # i
  <2>1. CASE Alone
    BY <1>1, <2>1, NoneLive DEF IInv
  <2>2. CASE ~ Alone
    <3> SUFFICES ASSUME NEW q \in Live, id[q] = i PROVE FALSE
      OBVIOUS
    <3>1. Named /\ q # p /\ q \in Proc
      BY <1>1, <2>2 DEF Apart, Live
    <3>2. step[q] = "baseline" \/ Bearing(q)
      BY DEF IInv, Shape, Live, Bearing
    <3>3. CASE step[q] = "baseline" \/ goal[q] = "create"
      <4>1. Names(i, q)
        BY <3>2, <3>3 DEF IInv, Identity
      <4>2. SlugOf[q] = SlugOf[p]
        BY <1>2, <4>1 DEF Names
      <4> QED
        BY <3>1, <4>2 DEF Named
    <3>4. CASE Bearing(q) /\ goal[q] # "create"
      <4>1. file[i].dst \in Record
        BY <3>1, <3>4 DEF IInv, Known, Equipped, Shape
      <4>2. Names(i, file[i].dst.by) /\ Past(file[i].dst.by) /\ file[i].dst.by \in Proc
        BY <1>2, <4>1 DEF IInv, Identity, Record
      <4>3. SlugOf[file[i].dst.by] = SlugOf[p]
        BY <1>2, <4>2 DEF Names
      <4>4. file[i].dst.by = p
        BY <3>1, <4>2, <4>3 DEF Named
      <4> QED
        BY <1>1, <4>2, <4>4 DEF Past
    <3> QED
      BY <3>2, <3>3, <3>4
  <2> QED
    BY <2>1, <2>2
<1>6. /\ goal' \in [Proc -> {"create", "latest", "save"}]
      /\ doc' \in [Proc -> Record \cup {None}]
  BY <1>1 DEF IInv, Shape
<1> QED
  BY <1>1, <1>2, <1>3, <1>4, <1>5, <1>6, StartKeepsIInv

\* A run that is loaded is no live process's, unless the user shares it.
LEMMA LoadKeepsIInv ==
  ASSUME IInv, Apart, NEW p \in Proc, NEW i \in Id, Load(p, i)
  PROVE  IInv'
<1>1. /\ step[p] = "new" /\ Cardinality(Live) < MaxLive /\ Whole(file[i].dst)
      /\ step' = [step EXCEPT ![p] = "drive"] /\ id' = [id EXCEPT ![p] = i]
      /\ doc' = [doc EXCEPT ![p] = file[i].dst] /\ goal' = [goal EXCEPT ![p] = "save"]
      /\ UNCHANGED <<file, fd, acked, created, begun, second, births, faults>>
  BY DEF Load, clockVars, ghosts, diskVars
<1>2. file[i].dst \in Record
  BY <1>1 DEF IInv, Shape, Whole
<1>3. \A q \in Live : id[q] # i
  <2>1. CASE Alone
    BY <1>1, <2>1, NoneLive DEF IInv
  <2>2. CASE ~ Alone
    BY <2>2 DEF Apart, Load
  <2> QED
    BY <2>1, <2>2
<1>4. /\ goal \in [Proc -> {"create", "latest", "save"}]
      /\ doc \in [Proc -> Record \cup {None}]
  BY DEF IInv, Shape
<1>5. /\ goal' \in [Proc -> {"create", "latest", "save"}]
      /\ doc' \in [Proc -> Record \cup {None}]
      /\ doc'[p] = file[i].dst /\ goal'[p] = "save"
      /\ \A q \in Proc \ {p} : doc'[q] = doc[q] /\ goal'[q] = goal[q]
  BY <1>1, <1>2, <1>4
<1>6. begun' \in [Proc -> 0..MaxSecond] /\ begun' = begun
  BY <1>1 DEF IInv, Shape
<1> QED
  BY <1>1, <1>2, <1>3, <1>5, <1>6, StartKeepsIInv

\* What a completed replacement does to the files and descriptors, whichever file
\* it is of.
LEMMA RenameMoves ==
  ASSUME IInv, NEW p \in Proc, Rename(p)
  PROVE  /\ p \in Live /\ Bearing(p) /\ Target(p) \in Targets
         /\ FileShape(file')
         /\ file'[Target(p)].dst = file[Target(p)].tmp
         /\ \A u \in Targets : u # Target(p) => file'[u] = file[u]
         /\ fd' \in [Proc -> {"closed", "tmp", "dst", "unlinked"}]
         /\ \A q \in Proc : fd'[q] = "closed" <=> fd[q] = "closed"
         /\ fd[p] = "closed"
         /\ \A q \in Live \ {p} : Own(q) =>
              file'[Target(q)].tmp = file[Target(q)].tmp /\ fd'[q] = fd[q]
         /\ Own(p) => file[Target(p)].tmp = Payload(p)
         /\ UNCHANGED <<id, doc, begun, second, births, faults>>
<1>1. p \in Live /\ Bearing(p) /\ step[p] = "rename"
  BY DEF Rename, Live, Bearing
<1>2. Target(p) \in Targets /\ FileShape(file)
  BY <1>1, LiveTarget, ShapeOfFiles
<1>3. file' = [file EXCEPT ![Target(p)] = [dst |-> file[Target(p)].tmp, tmp |-> Absent]]
  BY DEF Rename
<1>4. /\ file'[Target(p)].dst = file[Target(p)].tmp /\ file'[Target(p)].tmp = Absent
      /\ \A u \in Targets : u # Target(p) => file'[u] = file[u]
      /\ file' \in [Targets -> [dst : Content, tmp : Content]]
  BY <1>2, <1>3 DEF FileShape, Content
<1>5. FileShape(file')
  BY <1>2, <1>4 DEF FileShape, Fits
<1>6. /\ fd' \in [Proc -> {"closed", "tmp", "dst", "unlinked"}]
      /\ \A q \in Proc : fd'[q] = "closed" <=> fd[q] = "closed"
      /\ \A q \in Live \ {p} : Own(q) => fd'[q] = fd[q]
  BY <1>1, MovedOthers DEF Rename
<1>7. fd[p] = "closed"
  BY <1>1 DEF IInv, Shape
<1>8. \A q \in Live \ {p} : Own(q) =>
         file'[Target(q)].tmp = file[Target(q)].tmp /\ fd'[q] = fd[q]
  BY <1>1, <1>4, <1>6, OthersFiles
<1>9. Own(p) => file[Target(p)].tmp = Payload(p)
  BY <1>1 DEF IInv, Writing
<1> QED
  BY <1>1, <1>2, <1>4, <1>5, <1>6, <1>7, <1>8, <1>9 DEF Rename, Replaced, clockVars

\* The run.yaml of a live process is replaced by its record, which is a later state
\* of the same run, or the first one.
LEMMA RenameRunKeepsIInv ==
  ASSUME IInv, NEW p \in Proc, Rename(p), goal[p] # "latest"
  PROVE  IInv'
<1> USE DEF IInv
<1> DEFINE i == id[p]
           v == IF goal[p] = "create" THEN "open" ELSE "drive"
           g == IF goal[p] = "create" THEN "latest" ELSE "save"
<1>1. /\ p \in Live /\ Bearing(p) /\ Target(p) = i /\ i \in Id /\ doc[p] \in Record
      /\ Payload(p) = doc[p] /\ Own(p)
      /\ Live \subseteq Proc
  BY LiveTarget, RenameMoves DEF Own, Live
<1>2. /\ FileShape(file')
      /\ file'[i].dst = doc[p]
      /\ \A u \in Targets : u # i => file'[u] = file[u]
      /\ \A q \in Live \ {p} : Own(q) =>
           file'[Target(q)].tmp = file[Target(q)].tmp /\ fd'[q] = fd[q]
      /\ UNCHANGED <<id, doc, begun, second, births, faults>>
  BY <1>1, RenameMoves
<1>3. /\ step' = [step EXCEPT ![p] = v] /\ goal' = [goal EXCEPT ![p] = g]
      /\ acked' = [acked EXCEPT ![i] = doc[p]] /\ created' = created
  BY DEF Rename, Replaced
<1>4. /\ step \in [Proc -> {"new", "baseline", "open", "write", "rename", "drive", "gone"}]
      /\ goal \in [Proc -> {"create", "latest", "save"}]
      /\ acked \in [Id -> Record \cup {None}]
      /\ v \in {"open", "drive"} /\ g \in {"latest", "save"}
      /\ v = "drive" => g = "save"
  BY DEF Shape
<1>5. /\ step'[p] = v /\ goal'[p] = g
      /\ \A q \in Proc \ {p} : step'[q] = step[q] /\ goal'[q] = goal[q]
      /\ goal' \in [Proc -> {"create", "latest", "save"}]
      /\ acked' \in [Id -> Record \cup {None}]
  BY <1>1, <1>3, <1>4
<1>6. /\ Live' = Live /\ Bearing(p)'
      /\ \A q \in Live \ {p} : Bearing(q)' <=> Bearing(q)
  BY <1>1, <1>4, <1>5 DEF Live, Bearing
<1>7. Shape'
  <2>1. faults' \in Nat /\ doc' \in [Proc -> Record \cup {None}]
    BY <1>2 DEF Shape
  <2>2. created' \in SUBSET Record
    BY <1>3 DEF Shape
  <2>3. fd'[p] # "closed" <=> v = "write"
    BY <1>1, <1>4, RenameMoves
  <2>4. v \in {"open", "write", "rename", "drive", "gone"}
    BY <1>4
  <2>5. /\ fd' \in [Proc -> {"closed", "tmp", "dst", "unlinked"}]
        /\ \A q \in Proc \ {p} : fd'[q] = "closed" <=> fd[q] = "closed"
    BY RenameMoves
  <2> HIDE DEF v, g
  <2> QED
    BY <1>1, <1>2, <1>3, <1>5, <2>1, <2>2, <2>3, <2>4, <2>5, ShapeOfStep
<1>8. \A q \in Live \ {p} : id[q] \in Id /\ id[q] # i /\ file'[id[q]] = file[id[q]]
  BY <1>1, <1>2 DEF Equipped, Exclusive, Targets
<1>9. Equipped' /\ Exclusive'
  <2>1. \A q \in Live : id[q] \in Id /\ (Bearing(q) => doc[q] \in Record)
    BY DEF Equipped
  <2> HIDE DEF v, g
  <2> QED
    BY <1>1, <1>2, <1>4, <1>5, <1>6, <2>1 DEF Equipped, Exclusive
<1>10. Writing'
  <2> SUFFICES ASSUME NEW q \in Live, Own(q)'
               PROVE  /\ fd'[q] \in {"closed", "tmp"}
                      /\ step'[q] = "rename" => file'[Target(q)'].tmp = Payload(q)'
    BY <1>6 DEF Writing
  <2>1. CASE q = p
    BY <1>1, <1>4, <1>5, <2>1, RenameMoves
  <2>2. CASE q # p
    <3>1. Own(q) /\ Target(q)' = Target(q) /\ Payload(q)' = Payload(q) /\ step'[q] = step[q]
      BY <1>1, <1>2, <1>5, <2>2 DEF Own, Alone, Target, Payload
    <3> QED
      BY <1>2, <2>2, <3>1 DEF Writing
  <2> QED
    BY <2>1, <2>2
<1>11. \A j \in Id : j # i => file'[j] = file[j] /\ acked'[j] = acked[j]
  BY <1>2, <1>3, <1>4 DEF Targets
<1>12. doc[p].version \in Nat /\ acked'[i] = doc[p] /\ doc[p] \notin {Absent, Torn, None}
  BY <1>1, <1>3, <1>4, BoundsAssumption, ContentsAssumption DEF Record
<1>13. Durable'
  <2> SUFFICES ASSUME NEW j \in Id
               PROVE  /\ file'[j].dst # Torn
                      /\ acked'[j] # None => /\ file'[j].dst \in Record
                                             /\ file'[j].dst.version >= acked'[j].version
    BY DEF Durable
  <2> HIDE DEF i
  <2>1. CASE j = i
    BY <1>1, <1>2, <1>12, <2>1
  <2>2. CASE j # i
    BY <1>11, <2>2 DEF Durable
  <2> QED
    BY <2>1, <2>2
<1>14. Known'
  <2>1. \A q \in Live \ {p} : Bearing(q)' =>
          /\ goal'[q] = "latest" => file'[id[q]].dst = doc[q]
          /\ goal'[q] = "save" => file'[id[q]].dst \in Record
    BY <1>1, <1>5, <1>6, <1>8 DEF Known
  <2> QED
    BY <1>1, <1>2, <1>6, <2>1 DEF Known
<1>15. ASSUME Identity PROVE Identity'
  <2>1. doc[p].by \in Proc /\ Names(i, doc[p].by) /\ (Past(doc[p].by) \/ doc[p].by = p)
    <3>1. CASE goal[p] = "create"
      BY <1>1, <1>15, <3>1 DEF Identity
    <3>2. CASE goal[p] = "save"
      <4>1. file[i].dst \in Record /\ doc[p].by = file[i].dst.by
        BY <1>1, <1>15, <3>2 DEF Identity, Known
      <4>2. Names(i, file[i].dst.by) /\ Past(file[i].dst.by)
        BY <1>1, <1>15, <4>1 DEF Identity
      <4> QED
        BY <1>1, <4>1, <4>2 DEF Record
    <3> QED
      BY <1>1, <1>4, <3>1, <3>2
  <2>2. /\ Past(p)'
        /\ \A q \in Proc \ {p} : Past(q)' <=> Past(q)
        /\ \A q \in Proc : \A j : Names(j, q)' <=> Names(j, q)
    <3>1. \A q \in Proc : \A j : Names(j, q)' <=> Names(j, q)
      BY <1>2 DEF Names
    <3>2. Past(p)'
      BY <1>4, <1>5 DEF Past, Bearing
    <3>3. \A q \in Proc \ {p} : Past(q)' <=> Past(q)
      BY <1>5 DEF Past, Bearing
    <3> QED
      BY <3>1, <3>2, <3>3
  <2>3. \A j \in Id : file[j].dst \in Record => file[j].dst.by \in Proc
    BY DEF Record
  <2>4. \A j \in Id : file'[j].dst \in Record =>
           Names(j, file[j].dst.by)' /\ Past(file[j].dst.by)'
    <3> SUFFICES ASSUME NEW j \in Id, file'[j].dst \in Record
                 PROVE  Names(j, file[j].dst.by)' /\ Past(file[j].dst.by)'
      OBVIOUS
    <3> HIDE DEF i
    <3>1. CASE j = i
      BY <1>2, <2>1, <2>2, <3>1
    <3>2. CASE j # i
      BY <1>11, <1>15, <2>2, <2>3, <3>2 DEF Identity
    <3> QED
      BY <3>1, <3>2
  <2>5. \A q \in Live \ {p} :
           /\ step'[q] = "baseline" \/ (Bearing(q)' /\ goal'[q] = "create") => Names(id[q], q)'
           /\ Bearing(q)' /\ goal'[q] = "create" => doc[q].by = q /\ doc[q].version = 0
           /\ Bearing(q)' /\ goal'[q] # "create" /\ file'[id[q]].dst \in Record =>
                /\ doc[q].by = file'[id[q]].dst.by
                /\ doc[q].version >= file'[id[q]].dst.version
    BY <1>1, <1>2, <1>5, <1>6, <1>8, <1>15, <2>2 DEF Identity
  <2>6. /\ step'[p] # "baseline" /\ goal'[p] # "create"
        /\ doc[p].by = file'[id[p]].dst.by
        /\ doc[p].version >= file'[id[p]].dst.version
    BY <1>2, <1>4, <1>5, <1>12
  <2> QED
    BY <1>2, <1>6, <2>4, <2>5, <2>6 DEF Identity
<1>16. ASSUME Alone, Ages PROVE Ages'
  <2>1. Live = {p}
    BY <1>1, <1>16, AloneIsOne
  <2>2. \A j \in Id : file'[j].dst \in Record => file'[j].dst.born <= births
    <3> SUFFICES ASSUME NEW j \in Id, file'[j].dst \in Record
                 PROVE  file'[j].dst.born <= births
      OBVIOUS
    <3> HIDE DEF i
    <3>1. CASE j = i
      BY <1>1, <1>2, <1>16, <3>1 DEF Ages
    <3>2. CASE j # i
      BY <1>11, <1>16, <3>2 DEF Ages
    <3> QED
      BY <3>1, <3>2
  <2>3. doc[p].born <= births /\ (g # "save" => doc[p].born = births) /\ doc[p].born \in Nat
    BY <1>1, <1>4, <1>16 DEF Ages, Record
  <2> HIDE DEF g, v
  <2>4. file'[id[p]].dst = doc[p]
    BY <1>2
  <2> QED
    BY <1>2, <1>3, <1>5, <1>6, <1>16, <2>1, <2>2, <2>3, <2>4 DEF Ages
<1>17. ASSUME Alone, Ages, Pointing PROVE Pointing'
  <2>1. file'[Latest] = file[Latest]
    BY <1>1, <1>2, ContentsAssumption DEF Targets
  <2>2. ASSUME file[Latest].dst = i, NEW r \in created
        PROVE  doc[p].born >= r.born
    <3>1. r.born <= births /\ r.born \in Nat /\ births \in Nat /\ doc[p].born \in Nat
      BY <1>1, <1>17 DEF Ages, Shape, Record
    <3>2. CASE goal[p] # "save"
      BY <1>1, <1>17, <3>1, <3>2 DEF Ages
    <3>3. CASE goal[p] = "save"
      <4>1. file[i].dst \in Record /\ file[i].dst.born >= r.born /\ doc[p].born >= file[i].dst.born
        BY <1>1, <1>17, <2>2, <3>3 DEF Ages, Pointing, Known
      <4>2. file[i].dst.born \in Nat
        BY <4>1 DEF Record
      <4> QED
        BY <3>1, <4>1, <4>2
    <3> QED
      BY <3>2, <3>3
  <2>3. CASE file[Latest].dst = i
    <3> HIDE DEF i
    <3> QED
      BY <1>1, <1>2, <1>3, <1>17, <2>1, <2>2, <2>3 DEF Pointing
  <2>4. CASE file[Latest].dst # i
    <3>1. file[Latest].dst \in Id => file'[file[Latest].dst] = file[file[Latest].dst]
      BY <1>11, <2>4
    <3> HIDE DEF i
    <3> QED
      BY <1>3, <1>17, <2>1, <3>1 DEF Pointing
  <2> QED
    BY <2>3, <2>4
<1> QED
  BY <1>7, <1>9, <1>10, <1>13, <1>14, <1>15, <1>16, <1>17 DEF Alone

\* The pointer is replaced, and Create returns: with one process, by the id of the
\* run just created, and no run is younger.
LEMMA RenamePointerKeepsIInv ==
  ASSUME IInv, NEW p \in Proc, Rename(p), goal[p] = "latest"
  PROVE  IInv'
<1> USE DEF IInv
<1>1. /\ p \in Live /\ Bearing(p) /\ Target(p) = Latest /\ id[p] \in Id
      /\ Payload(p) = id[p] /\ doc[p] \in Record
      /\ Live \subseteq Proc
  BY LiveTarget, RenameMoves DEF Equipped, Live
<1>2. /\ FileShape(file')
      /\ file'[Latest].dst = file[Latest].tmp
      /\ \A u \in Targets : u # Latest => file'[u] = file[u]
      /\ \A q \in Live \ {p} : Own(q) =>
           file'[Target(q)].tmp = file[Target(q)].tmp /\ fd'[q] = fd[q]
      /\ UNCHANGED <<id, doc, begun, second, births, faults>>
  BY <1>1, RenameMoves
<1>3. /\ step' = [step EXCEPT ![p] = "drive"] /\ goal' = [goal EXCEPT ![p] = "save"]
      /\ acked' = acked /\ created' = created \cup {doc[p]}
  BY DEF Rename, Replaced
<1>4. /\ step \in [Proc -> {"new", "baseline", "open", "write", "rename", "drive", "gone"}]
      /\ goal \in [Proc -> {"create", "latest", "save"}]
  BY DEF Shape
<1>5. /\ step'[p] = "drive" /\ goal'[p] = "save"
      /\ \A q \in Proc \ {p} : step'[q] = step[q] /\ goal'[q] = goal[q]
      /\ goal' \in [Proc -> {"create", "latest", "save"}]
  BY <1>1, <1>3, <1>4
<1>6. /\ Live' = Live /\ Bearing(p)'
      /\ \A q \in Live \ {p} : Bearing(q)' <=> Bearing(q)
  BY <1>1, <1>4, <1>5 DEF Live, Bearing
<1>7. Shape'
  <2>1. /\ faults' \in Nat /\ doc' \in [Proc -> Record \cup {None}]
        /\ acked' \in [Id -> Record \cup {None}]
    BY <1>2, <1>3 DEF Shape
  <2>2. created' \in SUBSET Record
    BY <1>1, <1>3 DEF Shape
  <2>3. fd'[p] = "closed"
    BY <1>1, RenameMoves
  <2>4. /\ fd' \in [Proc -> {"closed", "tmp", "dst", "unlinked"}]
        /\ \A q \in Proc \ {p} : fd'[q] = "closed" <=> fd[q] = "closed"
    BY RenameMoves
  <2> QED
    BY <1>1, <1>2, <1>3, <1>5, <2>1, <2>2, <2>3, <2>4, ShapeOfStep
<1>8. \A i \in Id : file'[i] = file[i]
  BY <1>2, ContentsAssumption DEF Targets
<1>9. Equipped' /\ Exclusive'
  BY <1>1, <1>2, <1>5, <1>6 DEF Equipped, Exclusive
<1>10. Writing'
  <2> SUFFICES ASSUME NEW q \in Live, Own(q)'
               PROVE  /\ fd'[q] \in {"closed", "tmp"}
                      /\ step'[q] = "rename" => file'[Target(q)'].tmp = Payload(q)'
    BY <1>6 DEF Writing
  <2>1. CASE q = p
    BY <1>1, <1>5, <2>1, RenameMoves
  <2>2. CASE q # p
    <3>1. Own(q) /\ Target(q)' = Target(q) /\ Payload(q)' = Payload(q) /\ step'[q] = step[q]
      BY <1>1, <1>2, <1>5, <2>2 DEF Own, Alone, Target, Payload
    <3> QED
      BY <1>2, <2>2, <3>1 DEF Writing
  <2> QED
    BY <2>1, <2>2
<1>11. Durable'
  BY <1>3, <1>8 DEF Durable
<1>12. file[id[p]].dst = doc[p]
  BY <1>1 DEF Known
<1>13. Known'
  BY <1>1, <1>2, <1>5, <1>6, <1>8, <1>12 DEF Known, Equipped
<1>14. ASSUME Identity PROVE Identity'
  <2>1. \A i \in Id : file[i].dst \in Record => file[i].dst.by \in Proc
    BY DEF Record
  <2>2. \A q \in Proc : /\ Past(q) => Past(q)'
                        /\ step'[q] = "baseline" => step[q] = "baseline" /\ q # p
                        /\ \A i : Names(i, q)' <=> Names(i, q)
    <3>1. \A q \in Proc : \A i : Names(i, q)' <=> Names(i, q)
      BY <1>2 DEF Names
    <3>2. Past(p)' /\ step'[p] # "baseline"
      BY <1>5 DEF Past, Bearing
    <3>3. \A q \in Proc \ {p} : Past(q)' <=> Past(q)
      BY <1>5 DEF Past, Bearing
    <3> QED
      BY <1>5, <3>1, <3>2, <3>3
  <2>3. \A q \in Live : id[q] \in Id
    BY DEF Equipped
  <2>4. \A i \in Id : file'[i].dst \in Record =>
           Names(i, file[i].dst.by)' /\ Past(file[i].dst.by)'
    BY <1>8, <1>14, <2>1, <2>2 DEF Identity
  <2>5. \A q \in Live :
           /\ step'[q] = "baseline" \/ (Bearing(q)' /\ goal'[q] = "create") => Names(id[q], q)'
           /\ Bearing(q)' /\ goal'[q] = "create" => doc[q].by = q /\ doc[q].version = 0
    BY <1>1, <1>2, <1>5, <1>6, <1>14, <2>2 DEF Identity
  <2>6. \A q \in Live : Bearing(q)' /\ goal'[q] # "create" /\ file'[id[q]].dst \in Record =>
                /\ doc[q].by = file'[id[q]].dst.by
                /\ doc[q].version >= file'[id[q]].dst.version
    BY <1>1, <1>5, <1>6, <1>8, <1>14, <2>3 DEF Identity
  <2> QED
    BY <1>2, <1>6, <2>4, <2>5, <2>6 DEF Identity
<1>15. ASSUME Alone, Ages
       PROVE  Ages' /\ \A r \in created' : doc[p].born >= r.born
  <2>1. Live = {p}
    BY <1>1, <1>15, AloneIsOne
  <2>2. doc[p].born = births /\ births \in Nat /\ created \subseteq Record
    BY <1>1, <1>15 DEF Ages, Shape
  <2>3. \A r \in created' : r.born <= births
    BY <1>3, <1>15, <2>2 DEF Ages
  <2>4. \A r \in created' : r.born \in Nat
    BY <1>1, <1>3, <2>2 DEF Record
  <2>5. \A i \in Id : file'[i].dst \in Record => file'[i].dst.born <= births'
    BY <1>2, <1>8, <1>15 DEF Ages
  <2>6. /\ doc[p].born <= births' /\ doc[p].born >= file'[id[p]].dst.born
    BY <1>1, <1>2, <1>8, <1>12, <2>2
  <2>7. Ages'
    BY <1>2, <1>5, <1>6, <2>1, <2>3, <2>5, <2>6 DEF Ages
  <2>8. \A r \in created' : doc[p].born >= r.born
    BY <2>2, <2>3, <2>4
  <2> QED
    BY <2>7, <2>8
<1>16. ASSUME Alone, Ages PROVE Pointing'
  <2>1. file'[Latest].dst = id[p]
    BY <1>1, <1>2, <1>16, RenameMoves DEF Own
  <2>2. file'[id[p]].dst = doc[p]
    BY <1>1, <1>8, <1>12
  <2> QED
    BY <1>1, <1>15, <1>16, <2>1, <2>2 DEF Pointing
<1> QED
  BY <1>7, <1>9, <1>10, <1>11, <1>13, <1>14, <1>15, <1>16 DEF Alone

-----------------------------------------------------------------------------
(* The theorems.                                                           *)

\* The clock's second, and a step of nothing, change none of it.
LEMMA StillKeepsIInv ==
  ASSUME IInv, Tick \/ UNCHANGED vars
  PROVE  IInv'
<1>1. UNCHANGED <<file, fd, step, goal, id, doc, births, acked, created, begun, faults>>
  BY DEF Tick, vars, diskVars, procVars, clockVars, ghosts
<1>2. second' \in 0..MaxSecond
  BY BoundsAssumption DEF IInv, Shape, Tick, vars, clockVars
<1>3. Live' = Live
  BY <1>1 DEF Live
<1>4. \A q \in Proc : Bearing(q)' = Bearing(q) /\ Target(q)' = Target(q)
                      /\ Payload(q)' = Payload(q) /\ Own(q)' = Own(q)
  BY <1>1 DEF Bearing, Target, Payload, Own, Alone
<1>5. Live \subseteq Proc
  BY DEF Live
<1>6. Shape'
  BY <1>1, <1>2, <1>3 DEF IInv, Shape
<1>7. Equipped' /\ Exclusive' /\ Writing' /\ Durable' /\ Known'
  BY <1>1, <1>3, <1>4, <1>5 DEF IInv, Equipped, Exclusive, Writing, Durable, Known
<1>8. (Ages => Ages') /\ (Pointing => Pointing')
  BY <1>1, <1>3, <1>4, <1>5 DEF Ages, Pointing
<1>9. Identity => Identity'
  <2>1. \A q : (Past(q)' <=> Past(q)) /\ \A i : Names(i, q)' <=> Names(i, q)
    BY <1>1 DEF Past, Bearing, Names
  <2> QED
    BY <1>1, <1>3, <1>4, <1>5, <2>1 DEF Identity
<1> QED
  BY <1>6, <1>7, <1>8, <1>9 DEF IInv, Alone

\* At the start no process is alive and no file is there.
LEMMA InitIInv ==
  ASSUME Init
  PROVE  IInv
<1>1. Live = {} /\ IsFiniteSet(Live) /\ Cardinality(Live) = 0
  BY FS_EmptySet DEF Init, Live
<1>2. \A t \in Targets : file[t] = [dst |-> Absent, tmp |-> Absent]
  BY DEF Init
<1>3. Latest \in Targets /\ \A i \in Id : i \in Targets
  BY DEF Targets
<1>4. Shape
  <2>1. file \in [Targets -> [dst : Content, tmp : Content]]
    BY DEF Init, Content
  <2>2. second \in 0..MaxSecond /\ births \in Nat /\ faults \in Nat /\ 0 <= MaxLive
    BY BoundsAssumption DEF Init
  <2>3. created \in SUBSET Record /\ begun \in [Proc -> 0..MaxSecond]
    BY BoundsAssumption DEF Init
  <2> QED
    BY <1>1, <1>2, <1>3, <2>1, <2>2, <2>3 DEF Shape, Init
<1>5. Equipped /\ Exclusive /\ Writing /\ Known
  BY <1>1 DEF Equipped, Exclusive, Writing, Known
<1>6. Durable
  BY <1>2, <1>3, ContentsAssumption DEF Durable, Init
<1>7. Identity /\ Ages /\ Pointing
  BY <1>1, <1>2, <1>3, ContentsAssumption DEF Identity, Ages, Pointing, Init
<1> QED
  BY <1>4, <1>5, <1>6, <1>7 DEF IInv

\* Every step keeps the invariant.
LEMMA NextKeepsIInv ==
  ASSUME IInv, Apart, [Next]_vars
  PROVE  IInv'
<1>1. CASE Tick \/ UNCHANGED vars
  BY <1>1, StillKeepsIInv
<1>2. ASSUME NEW p \in Proc, BeginCreate(p) PROVE IInv'
  BY <1>2, BeginCreateKeepsIInv
<1>3. ASSUME NEW p \in Proc, CaptureBaseline(p) PROVE IInv'
  BY <1>3, CaptureBaselineKeepsIInv
<1>4. ASSUME NEW p \in Proc, LoadNamed(p) \/ LoadLatest(p) PROVE IInv'
  <2>1. PICK i \in Id : Load(p, i)
    BY <1>4 DEF LoadNamed, LoadLatest
  <2> QED
    BY <2>1, LoadKeepsIInv
<1>5. ASSUME NEW p \in Proc, Transition(p) PROVE IInv'
  BY <1>5, TransitionKeepsIInv
<1>6. ASSUME NEW p \in Proc, OpenTmp(p) PROVE IInv'
  BY <1>6, OpenTmpKeepsIInv
<1>7. ASSUME NEW p \in Proc, WriteTmp(p) PROVE IInv'
  BY <1>7, WriteTmpKeepsIInv
<1>8. ASSUME NEW p \in Proc, Rename(p) PROVE IInv'
  BY <1>8, RenameRunKeepsIInv, RenamePointerKeepsIInv
<1>9. ASSUME NEW p \in Proc, RenameFails(p) PROVE IInv'
  BY <1>9, RenameFailsKeepsIInv
<1>10. ASSUME NEW p \in Proc, Exit(p) \/ Crash(p) PROVE IInv'
  BY <1>10, EndsKeepIInv
<1> QED
  BY <1>1, <1>2, <1>3, <1>4, <1>5, <1>6, <1>7, <1>8, <1>9, <1>10 DEF Next

\* The invariant, where no run has two live processes.
THEOREM StoreInductive ==
  Apart => (Spec => []IInv)
<1> SUFFICES ASSUME Apart PROVE Spec => []IInv
  OBVIOUS
<1>1. Init => IInv
  BY InitIInv
<1>2. IInv /\ [Next]_vars => IInv'
  BY NextKeepsIInv
<1> QED
  BY <1>1, <1>2, PTL DEF Spec

\* What the state holds is of its type.
THEOREM StoreTyped ==
  Apart => (Spec => []TypeOK)
<1>1. IInv => TypeOK
  BY DEF IInv, Shape, Equipped, Live, TypeOK
<1> QED
  BY <1>1, StoreInductive, PTL

\* A transition whose Save returned nil (store.go) is on disk, it or a later one:
\* whichever processes crash or calls fail, and also while others create, save and
\* point to runs of their own.
THEOREM AcknowledgedSavesLast ==
  Apart => (Spec => []AckedIsDurable)
<1>1. IInv => AckedIsDurable
  BY ContentsAssumption DEF IInv, Durable, AckedIsDurable, Whole
<1> QED
  BY <1>1, StoreInductive, PTL

\* With one process at a time, the pointer names a run that can be loaded and is
\* the newest of those created; also when two runs of one task took one id.
THEOREM PointerNamesNewest ==
  Alone => (Spec => []LatestNamesNewest)
<1> SUFFICES ASSUME Alone PROVE Spec => []LatestNamesNewest
  OBVIOUS
<1>1. IInv => LatestNamesNewest
  BY ContentsAssumption DEF IInv, Pointing, LatestNamesNewest, Whole
<1>2. Apart
  BY DEF Apart
<1> QED
  BY <1>1, <1>2, StoreInductive, PTL

\* A run's record is replaced by later states of the same run only, or by the first
\* of another that took its id: of a task with the same slug, begun in the same
\* second (NewID tells no more apart, and Create does not look what is there).  With
\* one process at a time this holds however tasks are named.
THEOREM RunsKeepIdentity ==
  Apart => (Spec => RunKeepsIdentity)
<1> SUFFICES ASSUME Apart PROVE Spec => RunKeepsIdentity
  OBVIOUS
<1>1. ASSUME IInv, [Next]_vars PROVE \A i \in Id : KeepsIdentity(i)
  <2> SUFFICES ASSUME NEW i \in Id, Whole(file[i].dst), Whole(file'[i].dst)
               PROVE  \/ LaterState(file'[i].dst, file[i].dst)
                      \/ TookItsId(file'[i].dst, file[i].dst)
    BY DEF KeepsIdentity
  <2>1. file[i].dst \in Record /\ file[i].dst.version \in Nat
    <3>1. file[i].dst \in Record
      BY <1>1 DEF IInv, Shape, Whole
    <3> QED
      BY <3>1, BoundsAssumption DEF Record
  <2>2. CASE file'[i].dst = file[i].dst
    BY <2>1, <2>2 DEF LaterState
  <2>3. CASE file'[i].dst # file[i].dst
    <3>1. PICK p \in Proc : OpenTmp(p) \/ WriteTmp(p) \/ Rename(p) \/ RenameFails(p)
      BY <1>1, <2>3 DEF Next, vars, diskVars, procVars, Tick, BeginCreate,
         CaptureBaseline, LoadNamed, LoadLatest, Load, Transition, Exit, Crash
    <3>2. i \in Targets /\ i # Latest /\ FileShape(file)
      BY <1>1, ShapeOfFiles, ContentsAssumption DEF Targets
    <3>3. ~ OpenTmp(p) /\ ~ RenameFails(p)
      BY <2>3, <3>2 DEF OpenTmp, RenameFails, FileShape
    <3>4. ~ WriteTmp(p)
      <4> SUFFICES ASSUME WriteTmp(p) PROVE FALSE
        OBVIOUS
      <4>1. p \in Live /\ Bearing(p) /\ fd[p] # "closed"
        BY <1>1 DEF WriteTmp, Live, Bearing, IInv, Shape
      <4>2. fd[p] = "dst" /\ Target(p) = i
        BY <2>3, <3>2 DEF WriteTmp, FileShape
      <4>3. goal[p] # "latest"
        BY <3>2, <4>2 DEF Target
      <4> QED
        BY <1>1, <4>1, <4>2, <4>3 DEF IInv, Writing, Own
    <3>5. Rename(p)
      BY <3>1, <3>3, <3>4
    <3>6. p \in Live /\ Bearing(p) /\ Target(p) = i /\ file'[i].dst = file[Target(p)].tmp
          /\ (Own(p) => file[Target(p)].tmp = Payload(p))
      BY <1>1, <2>3, <3>2, <3>5, RenameMoves
    <3>7. goal[p] # "latest" /\ id[p] = i /\ file'[i].dst = doc[p]
      BY <3>2, <3>6 DEF Target, Own, Payload
    <3>8. CASE goal[p] # "create"
      <4>1. /\ doc[p].by = file[id[p]].dst.by
            /\ doc[p].version >= file[id[p]].dst.version
        BY <1>1, <2>1, <3>6, <3>7, <3>8 DEF IInv, Identity
      <4> QED
        BY <3>7, <4>1 DEF LaterState
    <3>9. CASE goal[p] = "create"
      <4>1. doc[p].by = p /\ doc[p].version = 0 /\ Names(i, p) /\ ~ Past(p)
        BY <1>1, <3>6, <3>7, <3>9 DEF IInv, Identity, Past
      <4>2. Names(i, file[i].dst.by) /\ Past(file[i].dst.by)
        BY <1>1, <2>1 DEF IInv, Identity
      <4>3. SlugOf[p] = SlugOf[file[i].dst.by] /\ begun[p] = begun[file[i].dst.by]
        BY <4>1, <4>2 DEF Names
      <4>4. p # file[i].dst.by
        BY <4>1, <4>2
      <4> QED
        BY <3>7, <4>1, <4>3, <4>4 DEF TookItsId
    <3> QED
      BY <3>8, <3>9
  <2> QED
    BY <2>2, <2>3
<1>2. IInv /\ [Next]_vars => [\A i \in Id : KeepsIdentity(i)]_vars
  BY <1>1
<1> QED
  BY <1>2, StoreInductive, PTL DEF Spec, RunKeepsIdentity

===========================================================================
