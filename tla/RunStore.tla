------------------------------ MODULE RunStore ------------------------------
(***************************************************************************)
(* The runs directory (internal/run: store.go, layout.go, id.go): run.yaml *)
(* of each run and the `latest' pointer, as several processes create runs, *)
(* save them, look them up, crash and meet failing disks.                  *)
(*                                                                         *)
(* Both files are replaced the same way: truncate and write a temporary    *)
(* file next to them, then rename it.  An open descriptor follows its file *)
(* through a rename.  Loss of power is not modelled: nothing is synced.    *)
(***************************************************************************)
EXTENDS Integers, FiniteSets

CONSTANTS
  Proc,        \* processes, each creating or loading one run
  SlugOf,      \* the slug of the task each process would create a run for
  Latest,      \* the pointer file, next to the runs
  Absent,      \* content of a file that does not exist
  Torn,        \* content of a file truncated or half written
  None,        \* no run yet
  MaxSecond,   \* bound on the clock that ids are made from
  MaxVersion,  \* bound on the saves of a run
  MaxFaults,   \* bound on crashes and failing calls
  MaxLive,     \* how many processes run at once
  Sharing      \* a run may have two live processes

ASSUME BoundsAssumption ==
  /\ {MaxSecond, MaxVersion, MaxFaults, MaxLive} \subseteq Nat
  /\ Sharing \in BOOLEAN

VARIABLES
  file,      \* the replaceable files: each with its temporary file
  step,      \* where each process is
  goal,      \* what its current write is for: create, latest or save
  id,        \* the id of its run
  doc,       \* its run record in memory
  fd,        \* where the file it is writing is now: tmp, dst, or unlinked
  second,    \* the wall clock, in the seconds an id shows
  births,    \* readings of the fine clock so far: createdAt is one of them
  acked,     \* the last record of each id whose Save returned nil
  created,   \* the records whose Create returned nil
  begun,     \* history: the second in which each process began its Create
  faults

diskVars  == <<file, fd>>
procVars  == <<step, goal, id, doc>>
clockVars == <<second, births>>
ghosts    == <<acked, created, begun>>
vars      == <<diskVars, procVars, clockVars, ghosts, faults>>

-----------------------------------------------------------------------------

Slugs == {SlugOf[p] : p \in Proc}
Id    == [at : 0..MaxSecond, slug : Slugs]

\* Mutant of NewID: the timestamp alone.
NewID_SecondOnly(p) == [at |-> second, slug |-> CHOOSE s \in Slugs : TRUE]

\* NewID: the second and the slug, nothing else.
NewID(p) == [at |-> second, slug |-> SlugOf[p]]

\* run.yaml, as far as the store tells runs apart: whose task, born when, and
\* how many transitions it has seen.
Record  == [by : Proc, born : Nat, version : 0..MaxVersion]
Targets == Id \cup {Latest}

\* The pointer is no run, and what is not whole is not a record.
ASSUME ContentsAssumption ==
  /\ Latest \notin Id
  /\ \A c \in {Absent, Torn, None} : c \notin Record /\ c \notin Id
  /\ Absent # Torn

\* Every variable keeps its type, and a file is open only while it is written.
TypeOK ==
  /\ \A i \in Id : /\ file[i].dst \in Record \cup {Absent, Torn}
                   /\ file[i].tmp \in Record \cup {Absent, Torn}
  /\ file[Latest].dst \in Id \cup {Absent, Torn}
  /\ file[Latest].tmp \in Id \cup {Absent, Torn}
  /\ step \in [Proc -> {"new", "baseline", "open", "write", "rename", "drive", "gone"}]
  /\ goal \in [Proc -> {"create", "latest", "save"}]
  /\ fd \in [Proc -> {"closed", "tmp", "dst", "unlinked"}]
  /\ \A p \in Proc : fd[p] # "closed" <=> step[p] = "write"
  /\ \A p \in Proc : step[p] \notin {"new", "gone"} => id[p] \in Id
  /\ acked \in [Id -> Record \cup {None}]
  /\ created \subseteq Record
  /\ begun \in [Proc -> 0..MaxSecond]

Live   == {p \in Proc : step[p] \notin {"new", "gone"}}
Whole(content) == content \notin {Absent, Torn}

\* The file a process replaces, and what it puts there.
Target(p)  == IF goal[p] = "latest" THEN Latest ELSE id[p]
Payload(p) == IF goal[p] = "latest" THEN id[p] ELSE doc[p]

Fault == faults < MaxFaults /\ faults' = faults + 1

\* An error of Create ends the command; the engine survives one of Save.
AfterError(p) == IF goal[p] = "save" THEN "drive" ELSE "gone"

\* Descriptors of the other writers of t, when its temporary file moves to
\* `to' and what was at `to' goes.
Moved(t, to) ==
  [q \in Proc |->
     IF fd[q] = "closed" \/ Target(q) # t THEN fd[q]
     ELSE IF fd[q] = "tmp" THEN to ELSE IF to = "dst" THEN "unlinked" ELSE fd[q]]

-----------------------------------------------------------------------------
(* Save and WriteLatest: the replacement of a file.                        *)

\* Mutant of OpenTmp: the file itself is written in place.
OpenTmp_InPlace(p) ==
  /\ step[p] = "open"
  /\ \/ /\ file' = [file EXCEPT ![Target(p)] = [dst |-> Torn, tmp |-> Payload(p)]]
        /\ fd' = [fd EXCEPT ![p] = "tmp"]
        /\ step' = [step EXCEPT ![p] = "write"]
        /\ UNCHANGED faults
     \/ /\ Fault /\ step' = [step EXCEPT ![p] = AfterError(p)]
        /\ UNCHANGED <<file, fd>>
  /\ UNCHANGED <<goal, id, doc, clockVars, ghosts>>

\* os.WriteFile opens the temporary file and truncates it.  A process that
\* has its file open already cannot be here.
OpenTmp(p) ==
  /\ step[p] = "open"
  /\ \/ /\ file' = [file EXCEPT ![Target(p)].tmp = Torn]
        /\ fd' = [fd EXCEPT ![p] = "tmp"]
        /\ step' = [step EXCEPT ![p] = "write"]
        /\ UNCHANGED faults
     \/ /\ Fault /\ step' = [step EXCEPT ![p] = AfterError(p)]
        /\ UNCHANGED <<file, fd>>
  /\ UNCHANGED <<goal, id, doc, clockVars, ghosts>>

\* It writes and closes it, wherever a rename has taken it; or the disk is full.
WriteTmp(p) ==
  /\ step[p] = "write"
  /\ \/ /\ file' = IF fd[p] = "unlinked" THEN file
                   ELSE IF fd[p] = "dst" THEN [file EXCEPT ![Target(p)].dst = Payload(p)]
                   ELSE [file EXCEPT ![Target(p)].tmp = Payload(p)]
        /\ step' = [step EXCEPT ![p] = "rename"]
        /\ UNCHANGED faults
     \/ /\ Fault /\ step' = [step EXCEPT ![p] = AfterError(p)]
        /\ UNCHANGED file
  /\ fd' = [fd EXCEPT ![p] = "closed"]
  /\ UNCHANGED <<goal, id, doc, clockVars, ghosts>>

\* What a completed replacement leads to: Create goes on to the pointer, and
\* then returns its run to be driven.
Replaced(p) ==
  /\ step' = [step EXCEPT ![p] = IF goal[p] = "create" THEN "open" ELSE "drive"]
  /\ goal' = [goal EXCEPT ![p] = IF goal[p] = "create" THEN "latest" ELSE "save"]
  /\ acked' = IF goal[p] = "latest" THEN acked ELSE [acked EXCEPT ![id[p]] = doc[p]]
  /\ created' = IF goal[p] = "latest" THEN created \cup {doc[p]} ELSE created
  /\ UNCHANGED begun

Rename(p) ==
  /\ step[p] = "rename" /\ file[Target(p)].tmp # Absent
  /\ file' = [file EXCEPT ![Target(p)] = [dst |-> @.tmp, tmp |-> Absent]]
  /\ fd' = Moved(Target(p), "dst")
  /\ Replaced(p)
  /\ UNCHANGED <<id, doc, clockVars, faults>>

\* The rename fails, also when another process has renamed the temporary file
\* away: what is left of it is removed.
RenameFails(p) ==
  /\ step[p] = "rename"
  /\ \/ file[Target(p)].tmp = Absent /\ UNCHANGED faults
     \/ file[Target(p)].tmp # Absent /\ Fault
  /\ file' = [file EXCEPT ![Target(p)].tmp = Absent]
  /\ fd' = Moved(Target(p), "unlinked")
  /\ step' = [step EXCEPT ![p] = AfterError(p)]
  /\ UNCHANGED <<goal, id, doc, clockVars, ghosts>>

-----------------------------------------------------------------------------
(* Create, Load and the transitions of a driven run.                       *)

\* Create allocates the id and the run's directory; that may be there already,
\* with a run in it.
BeginCreate(p) ==
  /\ step[p] = "new" /\ Cardinality(Live) < MaxLive
  /\ id' = [id EXCEPT ![p] = NewID(p)]
  /\ begun' = [begun EXCEPT ![p] = second]
  /\ step' = [step EXCEPT ![p] = "baseline"]
  /\ UNCHANGED <<diskVars, goal, doc, clockVars, acked, created, faults>>

\* Mutant of CaptureBaseline: the pointer is written before the run.
CaptureBaseline_PointerFirst(p) ==
  /\ step[p] = "baseline"
  /\ births' = births + 1
  /\ doc' = [doc EXCEPT ![p] = [by |-> p, born |-> births', version |-> 0]]
  /\ goal' = [goal EXCEPT ![p] = "latest"]
  /\ step' = [step EXCEPT ![p] = "open"]
  /\ UNCHANGED <<diskVars, id, second, ghosts, faults>>

\* The baseline is captured, which takes its time, then createdAt is read.
CaptureBaseline(p) ==
  /\ step[p] = "baseline"
  /\ births' = births + 1
  /\ doc' = [doc EXCEPT ![p] = [by |-> p, born |-> births', version |-> 0]]
  /\ goal' = [goal EXCEPT ![p] = "create"]
  /\ step' = [step EXCEPT ![p] = "open"]
  /\ UNCHANGED <<diskVars, id, second, ghosts, faults>>

\* resolveID and Load: a run that is there and whole is driven from its record.
Load(p, i) ==
  /\ step[p] = "new" /\ Cardinality(Live) < MaxLive
  /\ Whole(file[i].dst)
  /\ Sharing \/ \A q \in Live : id[q] # i
  /\ id' = [id EXCEPT ![p] = i] /\ doc' = [doc EXCEPT ![p] = file[i].dst]
  /\ goal' = [goal EXCEPT ![p] = "save"]
  /\ step' = [step EXCEPT ![p] = "drive"]
  /\ UNCHANGED <<diskVars, clockVars, ghosts, faults>>

LoadNamed(p) == \E i \in Id : Load(p, i)

\* "" and "latest" go through the pointer.
LoadLatest(p) == file[Latest].dst \in Id /\ Load(p, file[Latest].dst)

\* A transition of the run, to be saved.
Transition(p) ==
  /\ step[p] = "drive" /\ doc[p].version < MaxVersion
  /\ doc' = [doc EXCEPT ![p].version = @ + 1]
  /\ step' = [step EXCEPT ![p] = "open"]
  /\ UNCHANGED <<diskVars, goal, id, clockVars, ghosts, faults>>

\* The command ends.
Exit(p) ==
  /\ step[p] = "drive"
  /\ step' = [step EXCEPT ![p] = "gone"]
  /\ UNCHANGED <<diskVars, goal, id, doc, clockVars, ghosts, faults>>

\* The process dies: its descriptors close, its files stay as they are.
Crash(p) ==
  /\ p \in Live /\ Fault
  /\ step' = [step EXCEPT ![p] = "gone"] /\ fd' = [fd EXCEPT ![p] = "closed"]
  /\ UNCHANGED <<file, goal, id, doc, clockVars, ghosts>>

Tick ==
  /\ second < MaxSecond /\ second' = second + 1
  /\ UNCHANGED <<diskVars, procVars, births, ghosts, faults>>

Init ==
  /\ file = [t \in Targets |-> [dst |-> Absent, tmp |-> Absent]]
  /\ step = [p \in Proc |-> "new"] /\ goal = [p \in Proc |-> "save"]
  /\ id = [p \in Proc |-> None] /\ doc = [p \in Proc |-> None]
  /\ fd = [p \in Proc |-> "closed"]
  /\ second = 0 /\ births = 0 /\ faults = 0
  /\ acked = [i \in Id |-> None] /\ created = {} /\ begun = [p \in Proc |-> 0]

Next ==
  \/ \E p \in Proc :
       \/ BeginCreate(p) \/ CaptureBaseline(p) \/ LoadNamed(p) \/ LoadLatest(p)
       \/ Transition(p) \/ OpenTmp(p) \/ WriteTmp(p) \/ Rename(p) \/ RenameFails(p)
       \/ Exit(p) \/ Crash(p)
  \/ Tick

Spec == Init /\ [][Next]_vars

-----------------------------------------------------------------------------
(* Properties.                                                             *)

\* A transition whose Save returned nil is on disk, it or a later one, whatever
\* call fails or process dies in the middle of the next save: resume finds a
\* whole run.yaml and loses at most the transition in flight, unless another run
\* took its id (RunKeepsIdentity).
AckedIsDurable ==
  \A i \in Id : acked[i] # None =>
    Whole(file[i].dst) /\ file[i].dst.version >= acked[i].version

\* The pointer, once there, names a run that can be loaded, and none of the runs
\* whose Create succeeded is newer: also between the steps of the next Create,
\* after a crash in any of them, and when an older run is driven.
LatestNamesNewest ==
  file[Latest].dst # Absent =>
    /\ file[Latest].dst # Torn
    /\ Whole(file[file[Latest].dst].dst)
    /\ \A r \in created : file[file[Latest].dst].dst.born >= r.born

\* A run's record is only replaced by a later state of the same run: no save in
\* flight, nor one that a crash or an error cut off, no load and no driver of
\* another run brings an older state back or another run's in.  There is one way
\* to lose it, the first record of a run that took the same id: of a task with the
\* same slug, begun in the same second.
LaterState(is, was) == is.by = was.by /\ is.version >= was.version
TookItsId(is, was) ==
  /\ is.version = 0 /\ is.by # was.by
  /\ SlugOf[is.by] = SlugOf[was.by] /\ begun[is.by] = begun[was.by]

KeepsIdentity(i) ==
  Whole(file[i].dst) /\ Whole(file'[i].dst) =>
    LaterState(file'[i].dst, file[i].dst) \/ TookItsId(file'[i].dst, file[i].dst)

RunKeepsIdentity == [][\A i \in Id : KeepsIdentity(i)]_vars
=============================================================================
