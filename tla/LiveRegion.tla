----------------------------- MODULE LiveRegion -----------------------------
(***************************************************************************)
(* What one process shows and keeps of its agents: the live region at the  *)
(* foot of the terminal (live.go), whose single owner goroutine receives   *)
(* every command over one unbuffered channel, the progress lines that go   *)
(* through it (progress.go), and the two decorators of a harness: the live *)
(* timer of a call and, outside it, the log of the call and the file with  *)
(* its raw output (invocation.go).  The records of that log go to stderr   *)
(* past the owner, which may be the same screen (observability.go).        *)
(*                                                                         *)
(* The callers are the goroutines that run subtasks, Main the command.     *)
(* Elapsed times, widths and colours are left out.                         *)
(***************************************************************************)
EXTENDS Integers, Sequences, FiniteSets, FiniteSetsExt, SequencesExt

CONSTANTS
  Callers, Main,
  Modes,         \* the values of tty, attached and console considered
  MaxOps,        \* progress lines and calls of all callers
  MaxBeats,      \* heartbeats considered
  MaxFaults      \* calls that fail and files that cannot be written

Threads == Callers \cup {Main}

ASSUME LiveAssumption ==
  /\ Main \notin Callers /\ IsFiniteSet(Callers)
  /\ Modes \subseteq BOOLEAN \X BOOLEAN \X {"elsewhere", "warnings", "all"}
  /\ Threads \cap {"region", "command", "log"} = {}
  /\ {MaxOps, MaxBeats, MaxFaults} \subseteq Nat

VARIABLES
  tty, attached,   \* stdout is a terminal, the run's logs directory is there
  console,   \* which records of the log this screen shows: stderr may go elsewhere,
             \* and shows warnings unless the command is verbose
  \* of the owner
  owner,     \* "select", "handle", "closing", and "gone" once `done' is closed
  handling,  \* the command received: [from, cmd]
  order,     \* the active entries: [id, role], a role being its caller here
  nextID, phase,
  \* of the terminal
  screen,    \* the lines finished, by their writer: [text, on], on being "clean", or
             \* "bar" if the line held something already when it was written
  bar,       \* what the cursor's line holds
  \* of the threads
  pc, want,  \* what a blocked send offers: [cmd, then]
  reply, id, \* the buffered reply channel of a Begin, and what it returned
  said, calls,
  \* of the logger
  seq, mySeq, outs, records, faults,
  beats,
  due        \* history: how many lines each thread had handed over when Close was called

ownerVars  == <<owner, handling, order, nextID, phase>>
terminal   == <<screen, bar>>
threadVars == <<pc, want, reply, id, said, calls>>
logVars    == <<seq, mySeq, outs, records, faults>>
mode       == <<tty, attached, console>>
vars       == <<mode, ownerVars, terminal, threadVars, logVars, beats, due>>

Writers == Threads \cup {"region", "command", "log"}
NoID  == 0
Blank == <<>>
None  == [kind |-> "none"]
NoSend == [cmd |-> None, then |-> "idle"]

-----------------------------------------------------------------------------
(* The owner.                                                              *)

\* Empty if nothing is active.
statusText(entries, label) ==
  IF entries = <<>> THEN Blank
  ELSE <<label>> \o [i \in DOMAIN entries |-> entries[i].role]

redraw == bar' = IF tty THEN statusText(order', phase') ELSE bar

\* A line is written where the cursor's line holds `held'.
Write(writer, text, held) ==
  screen' = [screen EXCEPT ![writer] =
               Append(@, [text |-> text, on |-> IF held = Blank THEN "clean" ELSE "bar"])]

\* The owner's line: on a terminal the region is wiped first.
writeLine(writer, text) == Write(writer, text, IF tty THEN Blank ELSE bar)

\* The first entry of that id goes, if there is one.
removeID(entries, n) ==
  LET at == {i \in DOMAIN entries : entries[i].id = n}
  IN  IF at = {} THEN entries ELSE RemoveAt(entries, Min(at))

HandleBegin(t) ==
  /\ nextID' = nextID + 1
  /\ order' = Append(order, [id |-> nextID', role |-> t])
  /\ reply' = [reply EXCEPT ![t] = nextID']
  /\ UNCHANGED <<phase, screen>> /\ redraw

\* Mutant of HandleEnd: the entry goes, its line stays until the next redraw.
HandleEnd_NoRedraw(n) ==
  /\ order' = removeID(order, n)
  /\ UNCHANGED <<nextID, phase, screen, bar, reply>>

HandleEnd(n) ==
  /\ order' = removeID(order, n)
  /\ UNCHANGED <<nextID, phase, screen, reply>> /\ redraw

HandlePhase(label) ==
  /\ phase' = label
  /\ UNCHANGED <<order, nextID, screen, reply>> /\ redraw

HandleEmit(t, text) ==
  /\ writeLine(t, text)
  /\ UNCHANGED <<order, nextID, phase, reply>> /\ redraw

Handle ==
  LET t   == handling.from
      cmd == handling.cmd
  IN  /\ owner = "handle" /\ owner' = "select"
      /\ \/ cmd.kind = "begin" /\ HandleBegin(t)
         \/ cmd.kind = "end"   /\ HandleEnd(cmd.id)
         \/ cmd.kind = "phase" /\ HandlePhase(cmd.text)
         \/ cmd.kind = "emit"  /\ HandleEmit(t, cmd.text)
      /\ handling' = [from |-> Main, cmd |-> None]
      /\ UNCHANGED <<mode, pc, want, id, said, calls, logVars, beats, due>>

\* The wipe; `done' is closed as the goroutine returns.
HandleStop ==
  /\ owner = "handle" /\ handling.cmd.kind = "stop" /\ owner' = "closing"
  /\ bar' = IF tty THEN Blank ELSE bar
  /\ UNCHANGED <<mode, handling, order, nextID, phase, screen, threadVars, logVars, beats, due>>

CloseDone ==
  /\ owner = "closing" /\ owner' = "gone"
  /\ UNCHANGED <<mode, handling, order, nextID, phase, terminal, threadVars, logVars, beats, due>>

\* A tick redraws the line of a terminal; elsewhere it writes a heartbeat if an
\* agent runs and the last one is long ago.
Tick ==
  /\ owner = "select"
  /\ \/ /\ tty /\ bar' = statusText(order, phase) /\ UNCHANGED <<screen, beats>>
     \/ /\ ~ tty /\ order # <<>> /\ UNCHANGED bar
        /\ beats < MaxBeats /\ beats' = beats + 1
        /\ writeLine("region", [i \in DOMAIN order |-> order[i].role])
  /\ UNCHANGED <<mode, ownerVars, threadVars, logVars, due>>

-----------------------------------------------------------------------------
(* The threads.                                                            *)

Goto(t, place) == pc' = [pc EXCEPT ![t] = place]

\* A thread blocks in a select until the owner takes its command or is gone.
send(t, cmd, then) ==
  /\ Goto(t, "send")
  /\ want' = [want EXCEPT ![t] = [cmd |-> cmd, then |-> then]]

\* The rendezvous: the thread goes on while the owner handles the command.
Receive(t) ==
  /\ owner = "select" /\ pc[t] = "send"
  /\ owner' = "handle" /\ handling' = [from |-> t, cmd |-> want[t].cmd]
  /\ Goto(t, want[t].then) /\ want' = [want EXCEPT ![t] = NoSend]
  /\ UNCHANGED <<mode, order, nextID, phase, terminal, reply, id, said, calls, logVars, beats, due>>

\* Mutant of Abandon: a send that waits for the owner alone.
Abandon_Never(t) == FALSE

\* The owner is gone, the command is dropped.
Abandon(t) ==
  /\ owner = "gone" /\ pc[t] = "send"
  /\ Goto(t, want[t].then) /\ want' = [want EXCEPT ![t] = NoSend]
  /\ UNCHANGED <<mode, ownerVars, terminal, reply, id, said, calls, logVars, beats, due>>

\* The second select of Begin; with both ready either may be taken.
Begun(t) ==
  /\ pc[t] = "begun" /\ Goto(t, "work")
  /\ \/ reply[t] # NoID /\ id' = [id EXCEPT ![t] = reply[t]]
     \/ owner = "gone" /\ id' = [id EXCEPT ![t] = NoID]
  /\ reply' = [reply EXCEPT ![t] = NoID]
  /\ UNCHANGED <<mode, ownerVars, terminal, want, said, calls, logVars, beats, due>>

Operations == SumFunctionOnSet(said, Callers) + SumFunctionOnSet(calls, Callers)

Saying(t) == pc[t] = "send" /\ want[t].cmd.kind = "emit"

\* A progress line between two calls.
Say(c) ==
  /\ pc[c] = "idle" /\ Operations < MaxOps
  /\ said' = [said EXCEPT ![c] = @ + 1]
  /\ send(c, [kind |-> "emit", text |-> said'[c]], "idle")
  /\ UNCHANGED <<mode, ownerVars, terminal, reply, id, calls, logVars, beats, due>>

\* A record of the log, which its console handler writes to stderr in one piece, past
\* the owner: its newline ends whatever the line held.  Between the two writes of an
\* Emit that is nothing.  What a record says is left out.
Log(level) ==
  IF console = "all" \/ (console = "warnings" /\ level = "warn")
  THEN /\ \E held \in {bar} \cup IF handling.cmd.kind = "emit" THEN {Blank} ELSE {} :
            Write("log", 0, held)
       /\ bar' = Blank
  ELSE UNCHANGED terminal

\* Mutant of StartCall: the counter is read and written without its lock.
StartCall_Unlocked(c) ==
  /\ pc[c] = "idle" /\ Operations < MaxOps
  /\ calls' = [calls EXCEPT ![c] = @ + 1]
  /\ mySeq' = [mySeq EXCEPT ![c] = seq + 1] /\ seq' \in {seq, seq + 1}
  /\ Log("info") /\ send(c, [kind |-> "begin"], "begun")
  /\ UNCHANGED <<mode, ownerVars, reply, id, said, outs, records, faults, beats, due>>

\* The outer decorator numbers the call and logs its start, the inner one begins its
\* timer.
StartCall(c) ==
  /\ pc[c] = "idle" /\ Operations < MaxOps
  /\ calls' = [calls EXCEPT ![c] = @ + 1]
  /\ seq' = seq + 1 /\ mySeq' = [mySeq EXCEPT ![c] = seq']
  /\ Log("info") /\ send(c, [kind |-> "begin"], "begun")
  /\ UNCHANGED <<mode, ownerVars, reply, id, said, outs, records, faults, beats, due>>

\* The agent's call returns, whatever its outcome: End is deferred, End(0) a no-op.
EndCall(c) ==
  /\ pc[c] = "work"
  /\ IF id[c] = NoID THEN Goto(c, "log") /\ UNCHANGED want
     ELSE send(c, [kind |-> "end", id |-> id[c]], "log")
  /\ UNCHANGED <<mode, ownerVars, terminal, reply, id, said, calls, logVars, beats, due>>

Fault == faults < MaxFaults /\ faults' = faults + 1

\* persistRaw fails to write the file, which is a warning of its own.  What is left of
\* such a file is left out: no record points to it.
PersistFails(c) ==
  /\ pc[c] = "log" /\ Goto(c, "close")
  /\ attached /\ Fault /\ Log("warn")
  /\ UNCHANGED <<mode, ownerVars, want, reply, id, said, calls, seq, mySeq, outs, records, beats, due>>

\* persistRaw and the closing record, which points to the file if there is one: none is
\* written without a logs directory, or of a call without output.  The record is a
\* warning if the call failed.  All callers have the same role here, so that the number
\* alone tells files apart.
LogCall(c) ==
  /\ pc[c] \in {"log", "close"} /\ Goto(c, "idle")
  /\ \/ /\ pc[c] = "log" /\ attached
        /\ outs' = [n \in DOMAIN outs \cup {mySeq[c]} |->
                      IF n = mySeq[c] THEN <<c, calls[c]>> ELSE outs[n]]
        /\ records' = records \cup {[seq |-> mySeq[c], call |-> <<c, calls[c]>>]}
     \/ UNCHANGED <<outs, records>>
  /\ \/ Log("info") /\ UNCHANGED faults
     \/ Log("warn") /\ Fault
  /\ id' = [id EXCEPT ![c] = NoID] /\ mySeq' = [mySeq EXCEPT ![c] = 0]
  /\ UNCHANGED <<mode, ownerVars, want, reply, said, calls, seq, beats, due>>

\* PhaseStarted: the label, then a banner.
PhaseStarted ==
  /\ \/ /\ pc[Main] = "start" /\ send(Main, [kind |-> "phase", text |-> "Planning"], "label")
        /\ UNCHANGED said
     \/ /\ pc[Main] = "label" /\ send(Main, [kind |-> "emit", text |-> 1], "open")
        /\ said' = [said EXCEPT ![Main] = 1]
  /\ UNCHANGED <<mode, ownerVars, terminal, reply, id, calls, logVars, beats, due>>

\* Progress.Close: Stop sends, then waits for `done'; deferred, it is called again
\* when the command returns.
Stop ==
  /\ \/ /\ pc[Main] = "open"
        /\ due' = [t \in Threads |-> said[t] - IF Saying(t) THEN 1 ELSE 0]
     \/ pc[Main] = "printed" /\ UNCHANGED due
  /\ send(Main, [kind |-> "stop"], "stopping")
  /\ UNCHANGED <<mode, ownerVars, terminal, reply, id, said, calls, logVars, beats>>

Printed == screen["command"] # <<>>

\* Mutant of Stopped: Stop returns once its command is taken.
Stopped_Unawaited ==
  /\ pc[Main] = "stopping"
  /\ Goto(Main, IF Printed THEN "exit" ELSE "closed")
  /\ UNCHANGED <<mode, ownerVars, terminal, want, reply, id, said, calls, logVars, beats, due>>

Stopped ==
  /\ pc[Main] = "stopping" /\ owner = "gone"
  /\ Goto(Main, IF Printed THEN "exit" ELSE "closed")
  /\ UNCHANGED <<mode, ownerVars, terminal, want, reply, id, said, calls, logVars, beats, due>>

\* The summary goes to stdout past the region.
PrintSummary ==
  /\ pc[Main] = "closed" /\ Goto(Main, "printed")
  /\ Write("command", 1, bar)
  /\ UNCHANGED <<mode, ownerVars, bar, want, reply, id, said, calls, logVars, beats, due>>

Init ==
  /\ \E m \in Modes : tty = m[1] /\ attached = m[2] /\ console = m[3]
  /\ owner = "select" /\ handling = [from |-> Main, cmd |-> None]
  /\ order = <<>> /\ nextID = NoID /\ phase = ""
  /\ screen = [w \in Writers |-> <<>>] /\ bar = Blank
  /\ pc = [t \in Threads |-> IF t = Main THEN "start" ELSE "idle"]
  /\ want = [t \in Threads |-> NoSend]
  /\ reply = [t \in Threads |-> NoID] /\ id = [t \in Threads |-> NoID]
  /\ said = [t \in Threads |-> 0] /\ calls = [t \in Threads |-> 0]
  /\ seq = 0 /\ mySeq = [t \in Threads |-> 0]
  /\ outs = <<>> /\ records = {} /\ faults = 0
  /\ beats = 0 /\ due = [t \in Threads |-> 0]

OwnerStep   == Handle \/ HandleStop \/ CloseDone
\* What a thread in the middle of an operation does next.
Continue(t) == \/ Receive(t) \/ Abandon(t) \/ Begun(t)
               \/ t \in Callers /\ (EndCall(t) \/ PersistFails(t) \/ LogCall(t))
               \/ t = Main /\ (Stopped \/ PhaseStarted)

Next == \/ OwnerStep \/ Tick
        \/ \E t \in Threads : Continue(t)
        \/ \E c \in Callers : Say(c) \/ StartCall(c)
        \/ Stop \/ PrintSummary

\* The goroutines are scheduled, a select takes every case that stays ready, and an
\* agent's call ends (Invocation.CallReturns).  Nobody has to begin anything.
Spec == Init /\ [][Next]_vars /\ WF_vars(OwnerStep) /\ \A t \in Threads : WF_vars(Continue(t))

-----------------------------------------------------------------------------
(* Properties.                                                             *)

\* Progress, heartbeats and the summary start on a clean line, the summary although it
\* does not go through the region; so does a record of the log, unless a terminal
\* shows it: there it may stand behind the bar.
Untangled ==
  \A w \in Writers : \A i \in DOMAIN screen[w] : screen[w][i].on = "clean" \/ (w = "log" /\ tty)

\* The lines of a thread are shown in the order it said them, without a gap and
\* none twice; and once Close has returned, all of those whose Emit had returned
\* when it was called.
LinesKept ==
  \A t \in Threads :
    /\ \A i \in DOMAIN screen[t] : screen[t][i].text = i
    /\ pc[Main] \in {"closed", "printed", "exit"} => Len(screen[t]) >= due[t]

\* What the user has scrolled past can be read, up to a bar in front of a record of the
\* log, and is complete.
Readable == Untangled /\ LinesKept

\* While the owner waits, the active entries are the calls now running, one entry
\* each, and the line of a terminal shows just these, or nothing until the next redraw
\* if a record of the log has ended it: no timer outlives its call, none is missing.
InCall(c) == \/ pc[c] \in {"begun", "work"}
             \/ pc[c] = "send" /\ want[c].cmd.kind = "end"
TimersShowCalls ==
  owner = "select" =>
    /\ {order[i].role : i \in DOMAIN order} = {c \in Callers : InCall(c)}
    /\ Len(order) = Cardinality({c \in Callers : InCall(c)})
    /\ \/ bar = IF tty THEN statusText(order, phase) ELSE Blank
       \/ bar = Blank /\ screen["log"] # <<>>

\* The file a record points to holds the output of the record's own call.
PointerIsOwn == \A r \in records : outs[r.seq] = r.call

\* No thread is blocked for ever, whether the region runs, stops or has stopped.
Blocked(t)   == pc[t] \in {"send", "begun", "stopping"}
NobodyHangs  == \A t \in Threads : Blocked(t) ~> ~ Blocked(t)
=============================================================================
