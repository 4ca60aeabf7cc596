------------------------- MODULE LiveRegionProofs --------------------------
(***************************************************************************)
(* Proofs about LiveRegion, for any number of callers, operations and      *)
(* heartbeats, with and without a terminal: what was written stays         *)
(* readable, the live line shows the calls now running, and a log record   *)
(* points to the output of its own call.                                   *)
(***************************************************************************)
EXTENDS LiveRegion, FiniteSetTheorems, TLAPS

-----------------------------------------------------------------------------
(* The inductive invariant.                                                *)

\* The owner still takes commands, or handles one.
Serving == owner \in {"select", "handle"}

\* The command of t that the owner has received and not handled yet is of that kind.
Handled(t, kind) == owner = "handle" /\ handling.from = t /\ handling.cmd.kind = kind

Sending(t, kind) == pc[t] = "send" /\ want[t].cmd.kind = kind

\* The lines of a writer, none written into another, but for records of the log that a
\* terminal shows.
Lines(w) ==
  Seq([text : IF w = "region" THEN Seq(Callers) ELSE Nat,
       on   : IF w = "log" /\ tty THEN {"clean", "bar"} ELSE {"clean"}])

\* Types.
Entry == [id : 1..nextID, role : Callers]
OwnerTyped ==
  /\ tty \in BOOLEAN /\ attached \in BOOLEAN
  /\ owner \in {"select", "handle", "closing", "gone"}
  /\ handling.from \in Threads
  /\ nextID \in Nat /\ order \in Seq(Entry)
ScreenTyped ==
  DOMAIN screen = Writers /\ \A w \in Writers : screen[w] \in Lines(w)
Places == {"start", "label", "open", "stopping", "closed", "printed", "exit",
           "idle", "send", "begun", "work", "log", "close"}
ThreadsTyped ==
  /\ pc \in [Threads -> Places] /\ DOMAIN want = Threads
  /\ reply \in [Threads -> Nat] /\ id \in [Threads -> Nat]
  /\ said \in [Threads -> Nat] /\ calls \in [Threads -> Nat]
  /\ seq \in Nat /\ mySeq \in [Threads -> Nat]
  /\ due \in [Threads -> Nat]
LiveTyped == OwnerTyped /\ ScreenTyped /\ ThreadsTyped

\* Where the command is, what its pending send leads to, what the owner may have
\* received of it; its one line comes after the label of the phase.
MainPlace ==
  /\ \/ pc[Main] \in {"start", "label", "open", "stopping", "closed", "printed", "exit"}
     \/ Sending(Main, "phase") /\ want[Main].then = "label"
     \/ Sending(Main, "emit") /\ want[Main].then = "open"
     \/ Sending(Main, "stop") /\ want[Main].then = "stopping"
  /\ ~ Handled(Main, "begin") /\ ~ Handled(Main, "end")
  /\ pc[Main] \in {"start", "label"} \/ Sending(Main, "phase") => said[Main] = 0

\* Where a caller is.
CallerPlace(c) ==
  /\ \/ pc[c] \in {"idle", "begun", "work", "log", "close"}
     \/ Sending(c, "emit") /\ want[c].then = "idle"
     \/ Sending(c, "begin") /\ want[c].then = "begun"
     \/ Sending(c, "end") /\ want[c].then = "log" /\ want[c].cmd.id = id[c]
  /\ ~ Handled(c, "phase") /\ ~ Handled(c, "stop")

\* The owner stops only when the command has called Close, which returns after it.
Closing ==
  /\ ~ Serving \/ (owner = "handle" /\ handling.cmd.kind = "stop") =>
       pc[Main] \in {"stopping", "closed", "printed", "exit"} \/ Sending(Main, "stop")
  /\ pc[Main] \in {"closed", "printed", "exit"} => owner = "gone"

\* Off a terminal the line of the cursor is empty; so is it once the owner has
\* wiped it; and on one it shows the active entries, unless a record of the log ended it.
BarShows ==
  \/ bar = IF tty /\ Serving THEN statusText(order, phase) ELSE Blank
  \/ bar = Blank /\ screen["log"] # <<>>

\* The lines of a thread stand in its order on the screen; the next is on its way.
OnItsWay(t) == IF Handled(t, "emit") THEN 1 ELSE 0
LinesInv ==
  \A t \in Threads :
    /\ \A i \in DOMAIN screen[t] : screen[t][i].text = i
    /\ Serving => said[t] = Len(screen[t]) + OnItsWay(t) + (IF Saying(t) THEN 1 ELSE 0)
    /\ Handled(t, "emit") => handling.cmd.text = Len(screen[t]) + 1
    /\ Serving /\ Saying(t) => want[t].cmd.text = said[t]
    /\ due[t] <= Len(screen[t]) + OnItsWay(t)

\* The entries have ids and callers of their own.
Distinct ==
  \A i, j \in DOMAIN order :
    order[i].id = order[j].id \/ order[i].role = order[j].role => i = j

\* What a caller in a call knows of its timer.
CallInv(c) ==
  /\ Handled(c, "begin") => pc[c] = "begun" /\ reply[c] = NoID
  /\ reply[c] # NoID => pc[c] = "begun"
  /\ Handled(c, "end") => ~ InCall(c)

\* The caller has an entry, and its id.
HasTimer(c) == (InCall(c) /\ ~ Handled(c, "begin")) \/ Handled(c, "end")
TimerOf(c) ==
  IF Handled(c, "end") THEN handling.cmd.id
  ELSE IF pc[c] = "begun" THEN reply[c] ELSE id[c]

TimersInv ==
  /\ Distinct
  /\ \A c \in Callers : CallInv(c)
  /\ Serving =>
       /\ \A i \in DOMAIN order : HasTimer(order[i].role) /\ order[i].id = TimerOf(order[i].role)
       /\ \A c \in Callers : HasTimer(c) => \E i \in DOMAIN order : order[i].role = c

\* A call under way, and one ended but not logged, has a number nobody else has.
Numbered(c) ==
  pc[c] \in {"begun", "work", "log", "close"} \/ Sending(c, "begin") \/ Sending(c, "end")
LogInv ==
  /\ \A c \in Callers :
       /\ Numbered(c) => mySeq[c] # 0
       /\ mySeq[c] <= seq
       /\ \A d \in Callers : mySeq[c] = mySeq[d] /\ mySeq[c] # 0 => c = d
       /\ \A r \in records : mySeq[c] # r.seq
  /\ \A r \in records : r.seq \in 1..seq /\ r.seq \in DOMAIN outs /\ outs[r.seq] = r.call

LInv ==
  /\ LiveTyped /\ MainPlace /\ (\A c \in Callers : CallerPlace(c))
  /\ Closing /\ BarShows /\ LinesInv /\ TimersInv /\ LogInv

-----------------------------------------------------------------------------
(* What a step leaves alone.                                               *)

\* The command and the callers are threads, and different ones.
LEMMA WhoIsWho ==
  /\ Main \in Threads /\ Main \notin Callers /\ Callers \subseteq Threads
  /\ Threads \subseteq Writers /\ {"region", "command", "log"} \subseteq Writers
  /\ Threads \cap {"region", "command", "log"} = {}
  BY LiveAssumption DEF Threads, Writers

\* What a send changes.
LEMMA Sends ==
  ASSUME ThreadsTyped, NEW t \in Threads, NEW cmd, NEW then, send(t, cmd, then)
  PROVE  /\ \A u \in Threads : pc'[u] = IF u = t THEN "send" ELSE pc[u]
         /\ \A u \in Threads : want'[u] = IF u = t THEN [cmd |-> cmd, then |-> then] ELSE want[u]
         /\ pc' \in [Threads -> Places]
         /\ DOMAIN want' = Threads
  BY DEF ThreadsTyped, Places, send, Goto

\* A step that leaves the command where it is.
LEMMA MainStays ==
  ASSUME MainPlace, Closing,
         pc'[Main] = pc[Main], want'[Main] = want[Main], said'[Main] = said[Main],
         UNCHANGED <<owner, handling>>
  PROVE  MainPlace' /\ Closing'
  BY DEF MainPlace, Closing, Handled, Sending, Serving

\* A step that leaves a caller where it is.
LEMMA CallerStays ==
  ASSUME NEW c \in Callers, CallerPlace(c),
         pc'[c] = pc[c], want'[c] = want[c], id'[c] = id[c], UNCHANGED <<owner, handling>>
  PROVE  CallerPlace(c)'
  BY DEF CallerPlace, Handled, Sending

\* A step in which no thread writes, begins or gets rid of a line.
LEMMA LinesStay ==
  ASSUME LinesInv, UNCHANGED <<owner, handling, said, due>>,
         \A t \in Threads : /\ screen'[t] = screen[t]
                            /\ Saying(t)' <=> Saying(t)
                            /\ Saying(t) => want'[t] = want[t]
  PROVE  LinesInv'
<1>1. \A t \in Threads : OnItsWay(t)' = OnItsWay(t) /\ (Handled(t, "emit")' <=> Handled(t, "emit"))
  BY DEF OnItsWay, Handled
<1>2. Serving' <=> Serving
  BY DEF Serving
<1> QED
  BY <1>1, <1>2 DEF LinesInv

\* A step that begins and ends no timer.
LEMMA TimersStay ==
  ASSUME TimersInv, UNCHANGED <<owner, handling, order, reply, id>>,
         \A i \in DOMAIN order : order[i].role \in Callers,
         \A c \in Callers : (InCall(c)' <=> InCall(c)) /\ (pc'[c] = "begun" <=> pc[c] = "begun")
  PROVE  TimersInv'
<1>1. \A c \in Callers : /\ Handled(c, "begin")' <=> Handled(c, "begin")
                         /\ Handled(c, "end")' <=> Handled(c, "end")
  BY DEF Handled
<1>2. \A c \in Callers : CallInv(c)' /\ TimerOf(c)' = TimerOf(c) /\ (HasTimer(c)' <=> HasTimer(c))
  BY <1>1 DEF TimersInv, CallInv, TimerOf, HasTimer
<1>3. (Serving' <=> Serving) /\ (Distinct' <=> Distinct)
  BY DEF Serving, Distinct
<1> QED
  BY <1>2, <1>3 DEF TimersInv

\* A step that numbers and logs no call.
LEMMA LogStays ==
  ASSUME LogInv, UNCHANGED logVars, \A c \in Callers : Numbered(c)' => Numbered(c)
  PROVE  LogInv'
  BY DEF LogInv, logVars

\* A step that leaves the line of the cursor, and what it shows.
LEMMA BarStays ==
  ASSUME BarShows, UNCHANGED <<tty, owner, order, phase, bar>>,
         screen'["log"] = screen["log"]
  PROVE  BarShows'
  BY DEF BarShows, Serving

\* The entries have the roles of callers, the ids given out.
LEMMA EntriesTyped ==
  ASSUME OwnerTyped
  PROVE  \A i \in DOMAIN order : order[i].role \in Callers /\ order[i].id \in 1..nextID
<1>1. \A i \in DOMAIN order : order[i] \in Entry
  BY DEF OwnerTyped
<1> QED
  BY <1>1 DEF Entry

\* A step that leaves the owner and the screen.
LEMMA TypesStay ==
  ASSUME OwnerTyped, ScreenTyped, UNCHANGED <<mode, ownerVars, screen>>
  PROVE  OwnerTyped' /\ ScreenTyped'
<1>1. OwnerTyped'
  BY DEF OwnerTyped, Entry, mode, ownerVars
<1>2. ScreenTyped'
  BY DEF ScreenTyped, Lines, mode
<1> QED
  BY <1>1, <1>2

\* A record of the log is written, or shown elsewhere: the line of the cursor is then
\* empty, and the lines of the others stay.
LEMMA LogWrites ==
  ASSUME OwnerTyped, ScreenTyped, BarShows, NEW level, Log(level), UNCHANGED <<mode, ownerVars>>
  PROVE  /\ OwnerTyped' /\ ScreenTyped' /\ BarShows'
         /\ \A t \in Threads : screen'[t] = screen[t]
<1>1. CASE UNCHANGED terminal
  BY <1>1, TypesStay, BarStays DEF mode, ownerVars, terminal
<1>2. CASE bar' = Blank /\ \E held \in {bar, Blank} : Write("log", 0, held)
  <2>1. PICK held \in {bar, Blank} : Write("log", 0, held)
    BY <1>2
  <2> DEFINE line == [text |-> 0, on |-> IF held = Blank THEN "clean" ELSE "bar"]
  <2>2. line \in [text : Nat, on : IF tty THEN {"clean", "bar"} ELSE {"clean"}]
    <3>1. ~ tty => held = Blank
      BY <2>1 DEF BarShows
    <3> QED
      BY <3>1
  <2>3. /\ DOMAIN screen' = Writers /\ screen'["log"] = Append(screen["log"], line)
        /\ \A w \in Writers : w # "log" => screen'[w] = screen[w]
    BY <2>1, WhoIsWho DEF ScreenTyped, Write
  <2> HIDE DEF line
  <2>4. screen["log"] \in Lines("log")
    BY WhoIsWho DEF ScreenTyped
  <2>5. /\ Append(screen["log"], line) \in Lines("log") /\ Append(screen["log"], line) # <<>>
    BY <2>2, <2>4 DEF Lines
  <2>6. OwnerTyped'
    BY DEF OwnerTyped, Entry, mode, ownerVars
  <2>7. ScreenTyped'
    BY <2>3, <2>5 DEF ScreenTyped, Lines, mode
  <2>8. BarShows'
    BY <1>2, <2>3, <2>5 DEF BarShows
  <2> QED
    BY <2>3, <2>6, <2>7, <2>8, WhoIsWho
<1> QED
  BY <1>1, <1>2 DEF Log

-----------------------------------------------------------------------------
(* Steps of the callers.                                                   *)

\* A progress line of a caller.
LEMMA SayKeepsLInv ==
  ASSUME LInv, NEW c \in Callers, Say(c)
  PROVE  LInv'
<1> DEFINE emit == [kind |-> "emit", text |-> said'[c]]
<1>1. /\ pc[c] = "idle" /\ said' = [said EXCEPT ![c] = @ + 1] /\ send(c, emit, "idle")
      /\ UNCHANGED <<mode, ownerVars, terminal, reply, id, calls, logVars, beats, due>>
  BY DEF Say
<1>2. emit.kind = "emit" /\ emit.text = said'[c]
  OBVIOUS
<1> HIDE DEF emit
<1>3. OwnerTyped /\ ScreenTyped /\ ThreadsTyped
  BY DEF LInv, LiveTyped
<1>4. /\ \A u \in Threads : pc'[u] = IF u = c THEN "send" ELSE pc[u]
      /\ \A u \in Threads : want'[u] = IF u = c THEN [cmd |-> emit, then |-> "idle"] ELSE want[u]
      /\ pc' \in [Threads -> Places]
      /\ DOMAIN want' = Threads
  BY <1>1, <1>3, WhoIsWho, Sends
<1>5. said' \in [Threads -> Nat] /\ \A u \in Threads : said'[u] = IF u = c THEN said[u] + 1 ELSE said[u]
  BY <1>1, <1>3, WhoIsWho DEF ThreadsTyped
<1>6. LiveTyped'
  <2>1. OwnerTyped' /\ ScreenTyped'
    BY <1>1, <1>3, TypesStay DEF terminal
  <2>2. ThreadsTyped'
    BY <1>1, <1>3, <1>4, <1>5 DEF ThreadsTyped, logVars
  <2> QED
    BY <2>1, <2>2 DEF LiveTyped
<1>7. MainPlace' /\ Closing'
  BY <1>1, <1>4, <1>5, MainStays, WhoIsWho DEF LInv, ownerVars
<1>8. ASSUME NEW d \in Callers PROVE CallerPlace(d)'
  <2>1. CASE d = c
    BY <1>1, <1>2, <1>4, <2>1, WhoIsWho DEF LInv, CallerPlace, Handled, Sending, ownerVars
  <2>2. CASE d # c
    BY <1>1, <1>4, <2>2, CallerStays, WhoIsWho DEF LInv, ownerVars
  <2> QED
    BY <2>1, <2>2
<1>9. BarShows'
  BY <1>1, BarStays DEF LInv, ownerVars, terminal, mode
<1>10. LinesInv'
  <2> SUFFICES ASSUME NEW t \in Threads
               PROVE  /\ \A i \in DOMAIN screen[t] : screen[t][i].text = i
                      /\ Serving => said'[t] = Len(screen[t]) + OnItsWay(t)
                                               + (IF Saying(t)' THEN 1 ELSE 0)
                      /\ Handled(t, "emit") => handling.cmd.text = Len(screen[t]) + 1
                      /\ Serving /\ Saying(t)' => want'[t].cmd.text = said'[t]
                      /\ due[t] <= Len(screen[t]) + OnItsWay(t)
    BY <1>1 DEF LinesInv, ownerVars, terminal, OnItsWay, Handled, Serving
  <2>1. CASE t = c
    <3>1. Saying(t)' /\ ~ Saying(t) /\ want'[t].cmd.text = said'[t] /\ said'[t] = said[t] + 1
      BY <1>1, <1>2, <1>4, <1>5, <2>1 DEF Saying
    <3>2. said[t] \in Nat /\ Len(screen[t]) \in Nat /\ OnItsWay(t) \in {0, 1}
      BY <1>3, WhoIsWho DEF ThreadsTyped, ScreenTyped, OnItsWay, Lines
    <3> QED
      BY <3>1, <3>2 DEF LInv, LinesInv
  <2>2. CASE t # c
    <3>1. (Saying(t)' <=> Saying(t)) /\ want'[t] = want[t] /\ said'[t] = said[t]
      BY <1>4, <1>5, <2>2 DEF Saying
    <3> QED
      BY <3>1 DEF LInv, LinesInv
  <2> QED
    BY <2>1, <2>2
<1>11. TimersInv'
  BY <1>1, <1>2, <1>3, <1>4, TimersStay, EntriesTyped, WhoIsWho DEF LInv, InCall, ownerVars
<1>12. LogInv'
  BY <1>1, <1>2, <1>4, LogStays, WhoIsWho DEF LInv, Numbered, Sending
<1> QED
  BY <1>6, <1>7, <1>8, <1>9, <1>10, <1>11, <1>12 DEF LInv

\* A call gets its number and asks for its timer.
LEMMA StartCallKeepsLInv ==
  ASSUME LInv, NEW c \in Callers, StartCall(c)
  PROVE  LInv'
<1> DEFINE begin == [kind |-> "begin"]
<1>1. /\ pc[c] = "idle" /\ calls' = [calls EXCEPT ![c] = @ + 1]
      /\ seq' = seq + 1 /\ mySeq' = [mySeq EXCEPT ![c] = seq'] /\ send(c, begin, "begun")
      /\ Log("info")
      /\ UNCHANGED <<mode, ownerVars, reply, id, said, outs, records, faults, beats, due>>
  BY DEF StartCall
<1>2. begin.kind = "begin"
  OBVIOUS
<1> HIDE DEF begin
<1>3. OwnerTyped /\ ScreenTyped /\ ThreadsTyped
  BY DEF LInv, LiveTyped
<1>4. /\ \A u \in Threads : pc'[u] = IF u = c THEN "send" ELSE pc[u]
      /\ \A u \in Threads : want'[u] = IF u = c THEN [cmd |-> begin, then |-> "begun"] ELSE want[u]
      /\ pc' \in [Threads -> Places]
      /\ DOMAIN want' = Threads
  BY <1>1, <1>3, WhoIsWho, Sends
<1>5. /\ calls' \in [Threads -> Nat] /\ mySeq' \in [Threads -> Nat]
      /\ \A u \in Threads : mySeq'[u] = IF u = c THEN seq + 1 ELSE mySeq[u]
  BY <1>1, <1>3, WhoIsWho DEF ThreadsTyped
<1>6. /\ OwnerTyped' /\ ScreenTyped' /\ BarShows'
       /\ \A u \in Threads : screen'[u] = screen[u]
  BY <1>1, <1>3, LogWrites DEF LInv
<1>7. LiveTyped'
  <2>1. OwnerTyped' /\ ScreenTyped'
    BY <1>6
  <2>2. ThreadsTyped'
    BY <1>1, <1>3, <1>4, <1>5 DEF ThreadsTyped
  <2> QED
    BY <2>1, <2>2 DEF LiveTyped
<1>8. MainPlace' /\ Closing'
  BY <1>1, <1>4, MainStays, WhoIsWho DEF LInv, ownerVars
<1>9. ASSUME NEW d \in Callers PROVE CallerPlace(d)'
  <2>1. CASE d = c
    BY <1>1, <1>2, <1>4, <2>1, WhoIsWho DEF LInv, CallerPlace, Handled, Sending, ownerVars
  <2>2. CASE d # c
    BY <1>1, <1>4, <2>2, CallerStays, WhoIsWho DEF LInv, ownerVars
  <2> QED
    BY <2>1, <2>2
<1>10. BarShows'
  BY <1>6
<1>11. LinesInv'
  BY <1>1, <1>2, <1>4, <1>6, LinesStay DEF LInv, Saying, ownerVars
<1>12. TimersInv'
  BY <1>1, <1>2, <1>3, <1>4, TimersStay, EntriesTyped, WhoIsWho DEF LInv, InCall, ownerVars
<1>13. LogInv'
  <2>1. \A d \in Callers : d # c => (Numbered(d)' <=> Numbered(d)) /\ mySeq'[d] = mySeq[d]
    BY <1>4, <1>5, WhoIsWho DEF Numbered, Sending
  <2>2. mySeq'[c] = seq + 1 /\ seq' = seq + 1 /\ seq \in Nat
    BY <1>1, <1>3, <1>5, WhoIsWho DEF ThreadsTyped
  <2>3. \A d \in Callers : mySeq[d] \in Nat
    BY <1>3, WhoIsWho DEF ThreadsTyped
  <2> QED
    BY <1>1, <2>1, <2>2, <2>3 DEF LInv, LogInv
<1> QED
  BY <1>7, <1>8, <1>9, <1>10, <1>11, <1>12, <1>13 DEF LInv

\* The call of a caller that has no timer returns.
LEMMA EndUntimedKeepsLInv ==
  ASSUME LInv, NEW c \in Callers, EndCall(c), id[c] = NoID
  PROVE  LInv'
<1>1. /\ pc[c] = "work" /\ pc' = [pc EXCEPT ![c] = "log"]
      /\ UNCHANGED <<want, mode, ownerVars, terminal, reply, id, said, calls, logVars, beats, due>>
  BY DEF EndCall, Goto
<1>2. OwnerTyped /\ ScreenTyped /\ ThreadsTyped
  BY DEF LInv, LiveTyped
<1>3. /\ \A u \in Threads : pc'[u] = IF u = c THEN "log" ELSE pc[u]
      /\ pc' \in [Threads -> Places]
  BY <1>1, <1>2, WhoIsWho DEF ThreadsTyped, Places
<1>4. ~ Serving
  <2> SUFFICES ASSUME Serving PROVE FALSE
    OBVIOUS
  <2>1. HasTimer(c) /\ TimerOf(c) = NoID
    BY <1>1 DEF LInv, TimersInv, CallInv, HasTimer, InCall, TimerOf
  <2>2. PICK i \in DOMAIN order : order[i].role = c
    BY <2>1 DEF LInv, TimersInv
  <2>3. order[i].id = NoID
    BY <2>1, <2>2 DEF LInv, TimersInv
  <2> QED
    BY <1>2, <2>3, EntriesTyped DEF OwnerTyped, NoID
<1>5. LiveTyped'
  <2>1. OwnerTyped' /\ ScreenTyped'
    BY <1>1, <1>2, TypesStay DEF terminal
  <2>2. ThreadsTyped'
    BY <1>1, <1>2, <1>3 DEF ThreadsTyped, logVars
  <2> QED
    BY <2>1, <2>2 DEF LiveTyped
<1>6. MainPlace' /\ Closing'
  BY <1>1, <1>3, MainStays, WhoIsWho DEF LInv, ownerVars
<1>7. ASSUME NEW d \in Callers PROVE CallerPlace(d)'
  <2>1. CASE d = c
    BY <1>1, <1>3, <2>1, WhoIsWho DEF LInv, CallerPlace, Handled, Sending, ownerVars
  <2>2. CASE d # c
    BY <1>1, <1>3, <2>2, CallerStays, WhoIsWho DEF LInv, ownerVars
  <2> QED
    BY <2>1, <2>2
<1>8. BarShows'
  BY <1>1, BarStays DEF LInv, ownerVars, terminal, mode
<1>9. LinesInv'
  BY <1>1, <1>3, LinesStay DEF LInv, Saying, ownerVars, terminal
<1>10. TimersInv'
  BY <1>1, <1>3, <1>4, WhoIsWho
     DEF LInv, TimersInv, CallInv, Distinct, Handled, Serving, InCall, ownerVars
<1>11. LogInv'
  BY <1>1, <1>3, LogStays, WhoIsWho DEF LInv, Numbered, Sending
<1> QED
  BY <1>5, <1>6, <1>7, <1>8, <1>9, <1>10, <1>11 DEF LInv

\* The call of a caller returns, its timer is to go.
LEMMA EndTimedKeepsLInv ==
  ASSUME LInv, NEW c \in Callers, EndCall(c), id[c] # NoID
  PROVE  LInv'
<1> DEFINE end == [kind |-> "end", id |-> id[c]]
<1>1. /\ pc[c] = "work" /\ send(c, end, "log")
      /\ UNCHANGED <<mode, ownerVars, terminal, reply, id, said, calls, logVars, beats, due>>
  BY DEF EndCall
<1>2. end.kind = "end" /\ end.id = id[c]
  OBVIOUS
<1> HIDE DEF end
<1>3. OwnerTyped /\ ScreenTyped /\ ThreadsTyped
  BY DEF LInv, LiveTyped
<1>4. /\ \A u \in Threads : pc'[u] = IF u = c THEN "send" ELSE pc[u]
      /\ \A u \in Threads : want'[u] = IF u = c THEN [cmd |-> end, then |-> "log"] ELSE want[u]
      /\ pc' \in [Threads -> Places]
      /\ DOMAIN want' = Threads
  BY <1>1, <1>3, WhoIsWho, Sends
<1>5. LiveTyped'
  <2>1. OwnerTyped' /\ ScreenTyped'
    BY <1>1, <1>3, TypesStay DEF terminal
  <2>2. ThreadsTyped'
    BY <1>1, <1>3, <1>4 DEF ThreadsTyped, logVars
  <2> QED
    BY <2>1, <2>2 DEF LiveTyped
<1>6. MainPlace' /\ Closing'
  BY <1>1, <1>4, MainStays, WhoIsWho DEF LInv, ownerVars
<1>7. ASSUME NEW d \in Callers PROVE CallerPlace(d)'
  <2>1. CASE d = c
    BY <1>1, <1>2, <1>4, <2>1, WhoIsWho DEF LInv, CallerPlace, Handled, Sending, ownerVars
  <2>2. CASE d # c
    BY <1>1, <1>4, <2>2, CallerStays, WhoIsWho DEF LInv, ownerVars
  <2> QED
    BY <2>1, <2>2
<1>8. BarShows'
  BY <1>1, BarStays DEF LInv, ownerVars, terminal, mode
<1>9. LinesInv'
  BY <1>1, <1>2, <1>4, LinesStay DEF LInv, Saying, ownerVars, terminal
<1>10. TimersInv'
  BY <1>1, <1>2, <1>3, <1>4, TimersStay, EntriesTyped, WhoIsWho DEF LInv, InCall, ownerVars
<1>11. LogInv'
  BY <1>1, <1>2, <1>4, LogStays, WhoIsWho DEF LInv, Numbered, Sending
<1> QED
  BY <1>5, <1>6, <1>7, <1>8, <1>9, <1>10, <1>11 DEF LInv

\* The output of a call cannot be written, which is shown.
LEMMA PersistFailsKeepsLInv ==
  ASSUME LInv, NEW c \in Callers, PersistFails(c)
  PROVE  LInv'
<1>1. /\ pc[c] = "log" /\ pc' = [pc EXCEPT ![c] = "close"] /\ Log("warn")
      /\ UNCHANGED <<mode, ownerVars, want, reply, id, said, calls, seq, mySeq, outs, records, beats, due>>
  BY DEF PersistFails, Goto
<1>2. OwnerTyped /\ ScreenTyped /\ ThreadsTyped
  BY DEF LInv, LiveTyped
<1>3. /\ \A u \in Threads : pc'[u] = IF u = c THEN "close" ELSE pc[u]
      /\ pc' \in [Threads -> Places]
  BY <1>1, <1>2, WhoIsWho DEF ThreadsTyped, Places
<1>4. /\ OwnerTyped' /\ ScreenTyped' /\ BarShows'
      /\ \A u \in Threads : screen'[u] = screen[u]
  BY <1>1, <1>2, LogWrites DEF LInv
<1>5. LiveTyped'
  <2>1. ThreadsTyped'
    BY <1>1, <1>2, <1>3 DEF ThreadsTyped
  <2> QED
    BY <1>4, <2>1 DEF LiveTyped
<1>6. MainPlace' /\ Closing'
  BY <1>1, <1>3, MainStays, WhoIsWho DEF LInv, ownerVars
<1>7. ASSUME NEW d \in Callers PROVE CallerPlace(d)'
  <2>1. CASE d = c
    BY <1>1, <1>3, <2>1, WhoIsWho DEF LInv, CallerPlace, Handled, Sending, ownerVars
  <2>2. CASE d # c
    BY <1>1, <1>3, <2>2, CallerStays, WhoIsWho DEF LInv, ownerVars
  <2> QED
    BY <2>1, <2>2
<1>8. LinesInv'
  BY <1>1, <1>3, <1>4, LinesStay DEF LInv, Saying, ownerVars
<1>9. TimersInv'
  BY <1>1, <1>2, <1>3, TimersStay, EntriesTyped, WhoIsWho DEF LInv, InCall, ownerVars
<1>10. LogInv'
  <2>1. \A d \in Callers : Numbered(d)' => Numbered(d)
    BY <1>1, <1>3, WhoIsWho DEF Numbered, Sending
  <2> QED
    BY <1>1, <2>1 DEF LInv, LogInv
<1> QED
  BY <1>4, <1>5, <1>6, <1>7, <1>8, <1>9, <1>10 DEF LInv

\* A call is logged, its output kept if there is a directory for it.
LEMMA LogCallKeepsLInv ==
  ASSUME LInv, NEW c \in Callers, LogCall(c)
  PROVE  LInv'
<1>1. /\ pc[c] \in {"log", "close"} /\ pc' = [pc EXCEPT ![c] = "idle"]
      /\ id' = [id EXCEPT ![c] = NoID] /\ mySeq' = [mySeq EXCEPT ![c] = 0]
      /\ UNCHANGED <<mode, ownerVars, want, reply, said, calls, seq, beats, due>>
  BY DEF LogCall, Goto
<1>2. OwnerTyped /\ ScreenTyped /\ ThreadsTyped
  BY DEF LInv, LiveTyped
<1>3. /\ \A u \in Threads : pc'[u] = IF u = c THEN "idle" ELSE pc[u]
      /\ \A u \in Threads : id'[u] = IF u = c THEN NoID ELSE id[u]
      /\ \A u \in Threads : mySeq'[u] = IF u = c THEN 0 ELSE mySeq[u]
      /\ pc' \in [Threads -> Places] /\ id' \in [Threads -> Nat] /\ mySeq' \in [Threads -> Nat]
  BY <1>1, <1>2, WhoIsWho DEF ThreadsTyped, Places, NoID
<1>4. /\ OwnerTyped' /\ ScreenTyped' /\ BarShows'
       /\ \A u \in Threads : screen'[u] = screen[u]
  <2>1. PICK level \in {"info", "warn"} : Log(level)
    BY DEF LogCall
  <2> QED
    BY <1>1, <1>2, <2>1, LogWrites DEF LInv
<1>5. LiveTyped'
  <2>1. OwnerTyped' /\ ScreenTyped'
    BY <1>4
  <2>2. ThreadsTyped'
    BY <1>1, <1>2, <1>3 DEF ThreadsTyped
  <2> QED
    BY <2>1, <2>2 DEF LiveTyped
<1>6. MainPlace' /\ Closing'
  BY <1>1, <1>3, MainStays, WhoIsWho DEF LInv, ownerVars
<1>7. ASSUME NEW d \in Callers PROVE CallerPlace(d)'
  <2>1. CASE d = c
    BY <1>1, <1>3, <2>1, WhoIsWho DEF LInv, CallerPlace, Handled, Sending, ownerVars
  <2>2. CASE d # c
    BY <1>1, <1>3, <2>2, CallerStays, WhoIsWho DEF LInv, ownerVars
  <2> QED
    BY <2>1, <2>2
<1>8. BarShows'
  BY <1>4
<1>9. LinesInv'
  BY <1>1, <1>3, <1>4, LinesStay DEF LInv, Saying, ownerVars
<1>10. TimersInv'
  <2>1. \A d \in Callers : /\ Handled(d, "begin")' <=> Handled(d, "begin")
                           /\ Handled(d, "end")' <=> Handled(d, "end")
    BY <1>1 DEF Handled, ownerVars
  <2>2. \A d \in Callers : (InCall(d)' <=> InCall(d)) /\ (pc'[d] = "begun" <=> pc[d] = "begun")
    BY <1>1, <1>3, WhoIsWho DEF InCall
  <2>3. \A d \in Callers : CallInv(d)' /\ (HasTimer(d)' <=> HasTimer(d))
    BY <1>1, <2>1, <2>2 DEF LInv, TimersInv, CallInv, HasTimer
  <2>4. \A d \in Callers : HasTimer(d) => TimerOf(d)' = TimerOf(d)
    BY <1>1, <1>3, <2>1, <2>2, WhoIsWho DEF HasTimer, TimerOf, InCall, ownerVars, Handled
  <2>5. (Serving' <=> Serving) /\ (Distinct' <=> Distinct)
    BY <1>1 DEF Serving, Distinct, ownerVars
  <2> QED
    BY <1>1, <1>2, <2>3, <2>4, <2>5, EntriesTyped DEF LInv, TimersInv, ownerVars
<1>11. LogInv'
  <2>1. /\ mySeq[c] \in 1..seq /\ mySeq[c] # 0
        /\ \A r \in records : mySeq[c] # r.seq
    BY <1>1, <1>2, WhoIsWho DEF LInv, LogInv, Numbered, ThreadsTyped
  <2>2. \A d \in Callers : /\ Numbered(d)' => Numbered(d) /\ d # c
                           /\ mySeq'[d] = IF d = c THEN 0 ELSE mySeq[d]
    BY <1>1, <1>3, WhoIsWho DEF Numbered, Sending
  <2>3. seq \in Nat
    BY <1>2 DEF ThreadsTyped
  <2>4. CASE UNCHANGED <<outs, records>>
    BY <1>1, <2>2, <2>3, <2>4 DEF LInv, LogInv
  <2>5. CASE /\ outs' = [n \in DOMAIN outs \cup {mySeq[c]} |->
                            IF n = mySeq[c] THEN <<c, calls[c]>> ELSE outs[n]]
             /\ records' = records \cup {[seq |-> mySeq[c], call |-> <<c, calls[c]>>]}
    <3>1. /\ DOMAIN outs' = {mySeq[c]} \cup DOMAIN outs
          /\ outs'[mySeq[c]] = <<c, calls[c]>>
          /\ \A n \in DOMAIN outs : n # mySeq[c] => outs'[n] = outs[n]
      BY <2>5
    <3>2. \A r \in records' : r.seq \in 1..seq /\ r.seq \in DOMAIN outs' /\ outs'[r.seq] = r.call
      BY <2>1, <2>5, <3>1 DEF LInv, LogInv
    <3>3. \A r \in records' : r.seq = mySeq[c] \/ r \in records
      BY <2>5
    <3>4. \A d \in Callers : \A r \in records' : mySeq'[d] # r.seq
      BY <2>1, <2>2, <2>3, <3>2, <3>3 DEF LInv, LogInv
    <3> QED
      BY <1>1, <2>2, <2>3, <3>2, <3>4 DEF LInv, LogInv
  <2> QED
    BY <2>4, <2>5 DEF LogCall
<1> QED
  BY <1>5, <1>6, <1>7, <1>8, <1>9, <1>10, <1>11 DEF LInv

\* The answer to a Begin, or none because the owner is gone.
LEMMA BegunKeepsLInv ==
  ASSUME LInv, NEW c \in Threads, Begun(c)
  PROVE  LInv'
<1>1. /\ pc[c] = "begun" /\ pc' = [pc EXCEPT ![c] = "work"]
      /\ \/ reply[c] # NoID /\ id' = [id EXCEPT ![c] = reply[c]]
         \/ owner = "gone" /\ id' = [id EXCEPT ![c] = NoID]
      /\ reply' = [reply EXCEPT ![c] = NoID]
      /\ UNCHANGED <<mode, ownerVars, terminal, want, said, calls, logVars, beats, due>>
  BY DEF Begun, Goto
<1>2. OwnerTyped /\ ScreenTyped /\ ThreadsTyped
  BY DEF LInv, LiveTyped
<1>3. c \in Callers
  BY <1>1 DEF LInv, MainPlace, Sending, Threads
<1>4. /\ \A u \in Threads : pc'[u] = IF u = c THEN "work" ELSE pc[u]
      /\ \A u \in Threads : reply'[u] = IF u = c THEN NoID ELSE reply[u]
      /\ \A u \in Threads : u # c => id'[u] = id[u]
      /\ id'[c] = reply[c] \/ owner = "gone"
      /\ owner # "gone" => reply[c] # NoID
      /\ pc' \in [Threads -> Places] /\ id' \in [Threads -> Nat] /\ reply' \in [Threads -> Nat]
  BY <1>1, <1>2 DEF ThreadsTyped, Places, NoID
<1>5. LiveTyped'
  <2>1. OwnerTyped' /\ ScreenTyped'
    BY <1>1, <1>2, TypesStay DEF terminal
  <2>2. ThreadsTyped'
    BY <1>1, <1>2, <1>4 DEF ThreadsTyped, logVars
  <2> QED
    BY <2>1, <2>2 DEF LiveTyped
<1>6. MainPlace' /\ Closing'
  BY <1>1, <1>3, <1>4, MainStays, WhoIsWho DEF LInv, ownerVars
<1>7. ASSUME NEW d \in Callers PROVE CallerPlace(d)'
  <2>1. CASE d = c
    BY <1>1, <1>4, <2>1, WhoIsWho DEF LInv, CallerPlace, Handled, Sending, ownerVars
  <2>2. CASE d # c
    BY <1>1, <1>4, <2>2, CallerStays, WhoIsWho DEF LInv, ownerVars
  <2> QED
    BY <2>1, <2>2
<1>8. BarShows'
  BY <1>1, BarStays DEF LInv, ownerVars, terminal, mode
<1>9. LinesInv'
  BY <1>1, <1>4, LinesStay DEF LInv, Saying, ownerVars, terminal
<1>10. TimersInv'
  <2>1. \A d \in Callers : /\ Handled(d, "begin")' <=> Handled(d, "begin")
                           /\ Handled(d, "end")' <=> Handled(d, "end")
                           /\ InCall(d)' <=> InCall(d)
    BY <1>1, <1>4, WhoIsWho DEF Handled, InCall, ownerVars
  <2>2. \A d \in Callers : CallInv(d)' /\ (HasTimer(d)' <=> HasTimer(d))
    BY <1>1, <1>4, <2>1, WhoIsWho DEF LInv, TimersInv, CallInv, HasTimer, Handled
  <2>3. Serving => \A d \in Callers : HasTimer(d) => TimerOf(d)' = TimerOf(d)
    <3> SUFFICES ASSUME Serving, NEW d \in Callers, HasTimer(d) PROVE TimerOf(d)' = TimerOf(d)
      OBVIOUS
    <3>1. CASE d = c
      BY <1>1, <1>4, <2>1, <3>1 DEF LInv, TimersInv, CallInv, TimerOf, InCall, Serving, ownerVars
    <3>2. CASE d # c
      BY <1>1, <1>4, <2>1, <3>2, WhoIsWho DEF TimerOf, ownerVars
    <3> QED
      BY <3>1, <3>2
  <2>4. (Serving' <=> Serving) /\ (Distinct' <=> Distinct)
    BY <1>1 DEF Serving, Distinct, ownerVars
  <2> QED
    BY <1>1, <1>2, <2>2, <2>3, <2>4, EntriesTyped DEF LInv, TimersInv, ownerVars
<1>11. LogInv'
  BY <1>1, <1>4, LogStays, WhoIsWho DEF LInv, Numbered, Sending
<1> QED
  BY <1>5, <1>6, <1>7, <1>8, <1>9, <1>10, <1>11 DEF LInv

-----------------------------------------------------------------------------
(* The rendezvous with the owner, and its absence.                         *)

\* What a blocked send leads to.
LEMMA ThenIsAPlace ==
  ASSUME LInv, NEW t \in Threads, pc[t] = "send"
  PROVE  /\ want[t].then \in Places \ {"send", "work", "start"}
         /\ t = Main => \/ want[t].cmd.kind = "phase" /\ want[t].then = "label"
                        \/ want[t].cmd.kind = "emit" /\ want[t].then = "open"
                        \/ want[t].cmd.kind = "stop" /\ want[t].then = "stopping"
         /\ t # Main => \/ want[t].cmd.kind = "emit" /\ want[t].then = "idle"
                        \/ want[t].cmd.kind = "begin" /\ want[t].then = "begun"
                        \/ want[t].cmd.kind = "end" /\ want[t].then = "log"
                             /\ want[t].cmd.id = id[t]
<1>1. CASE t = Main
  BY <1>1 DEF LInv, MainPlace, Sending, Places
<1>2. CASE t \in Callers
  BY <1>2, LiveAssumption DEF LInv, CallerPlace, Sending, Places
<1> QED
  BY <1>1, <1>2 DEF Threads

\* A send is given up: the owner is gone.
LEMMA AbandonKeepsLInv ==
  ASSUME LInv, NEW t \in Threads, Abandon(t)
  PROVE  LInv'
<1>1. /\ owner = "gone" /\ pc[t] = "send"
      /\ pc' = [pc EXCEPT ![t] = want[t].then] /\ want' = [want EXCEPT ![t] = NoSend]
      /\ UNCHANGED <<mode, ownerVars, terminal, reply, id, said, calls, logVars, beats, due>>
  BY DEF Abandon, Goto
<1>2. OwnerTyped /\ ScreenTyped /\ ThreadsTyped
  BY DEF LInv, LiveTyped
<1>3. ~ Serving /\ ~ Serving' /\ \A u, k : ~ Handled(u, k) /\ ~ Handled(u, k)'
  BY <1>1 DEF Serving, Handled, ownerVars
<1>4. /\ \A u \in Threads : pc'[u] = IF u = t THEN want[t].then ELSE pc[u]
      /\ \A u \in Threads : want'[u] = IF u = t THEN NoSend ELSE want[u]
      /\ pc' \in [Threads -> Places] /\ DOMAIN want' = Threads
  BY <1>1, <1>2, ThenIsAPlace DEF ThreadsTyped
<1>5. LiveTyped'
  <2>1. OwnerTyped' /\ ScreenTyped'
    BY <1>1, <1>2, TypesStay DEF terminal
  <2>2. ThreadsTyped'
    BY <1>1, <1>2, <1>4 DEF ThreadsTyped, logVars
  <2> QED
    BY <2>1, <2>2 DEF LiveTyped
<1>6. MainPlace' /\ Closing'
  <2>1. CASE t = Main
    <3>1. pc'[Main] = "stopping" /\ owner' = "gone"
      BY <1>1, <1>3, <1>4, <2>1, ThenIsAPlace DEF LInv, Closing, Sending, ownerVars
    <3> QED
      BY <1>3, <3>1 DEF MainPlace, Closing, Sending
  <2>2. CASE t # Main
    BY <1>1, <1>4, <2>2, MainStays, WhoIsWho DEF LInv, ownerVars
  <2> QED
    BY <2>1, <2>2
<1>7. ASSUME NEW d \in Callers PROVE CallerPlace(d)'
  <2>1. CASE d = t
    BY <1>1, <1>3, <1>4, <2>1, ThenIsAPlace, WhoIsWho DEF CallerPlace
  <2>2. CASE d # t
    BY <1>1, <1>4, <2>2, CallerStays, WhoIsWho DEF LInv, ownerVars
  <2> QED
    BY <2>1, <2>2
<1>8. BarShows'
  BY <1>1, BarStays DEF LInv, ownerVars, terminal, mode
<1>9. LinesInv'
  BY <1>1, <1>3 DEF LInv, LinesInv, OnItsWay, terminal
<1>10. TimersInv'
  BY <1>1, <1>3, <1>4, WhoIsWho DEF LInv, TimersInv, CallInv, Distinct, ownerVars
<1>11. LogInv'
  <2>1. \A d \in Callers : Numbered(d)' => Numbered(d)
    BY <1>1, <1>4, ThenIsAPlace, WhoIsWho DEF Numbered, Sending
  <2> QED
    BY <1>1, <2>1, LogStays DEF LInv
<1> QED
  BY <1>5, <1>6, <1>7, <1>8, <1>9, <1>10, <1>11 DEF LInv

\* The owner takes a command.
LEMMA ReceiveKeepsLInv ==
  ASSUME LInv, NEW t \in Threads, Receive(t)
  PROVE  LInv'
<1>1. /\ owner = "select" /\ pc[t] = "send"
      /\ owner' = "handle" /\ handling' = [from |-> t, cmd |-> want[t].cmd]
      /\ pc' = [pc EXCEPT ![t] = want[t].then] /\ want' = [want EXCEPT ![t] = NoSend]
      /\ UNCHANGED <<mode, order, nextID, phase, terminal, reply, id, said, calls, logVars, beats, due>>
  BY DEF Receive, Goto
<1>2. OwnerTyped /\ ScreenTyped /\ ThreadsTyped
  BY DEF LInv, LiveTyped
<1>3. Serving /\ Serving' /\ \A u, k : ~ Handled(u, k)
  BY <1>1 DEF Serving, Handled
<1>4. /\ \A u \in Threads : pc'[u] = IF u = t THEN want[t].then ELSE pc[u]
      /\ \A u \in Threads : want'[u] = IF u = t THEN NoSend ELSE want[u]
      /\ pc' \in [Threads -> Places] /\ DOMAIN want' = Threads
  BY <1>1, <1>2, ThenIsAPlace DEF ThreadsTyped
<1>5. \A u, k : Handled(u, k)' <=> u = t /\ k = want[t].cmd.kind
  BY <1>1 DEF Handled
<1>6. LiveTyped'
  <2>1. OwnerTyped' /\ ScreenTyped'
    BY <1>1, <1>2 DEF OwnerTyped, ScreenTyped, Entry, Lines, mode, terminal
  <2>2. ThreadsTyped'
    BY <1>1, <1>2, <1>4 DEF ThreadsTyped, logVars
  <2> QED
    BY <2>1, <2>2 DEF LiveTyped
<1>7. MainPlace' /\ Closing'
  <2>1. MainPlace'
    <3>1. CASE t = Main
      BY <1>1, <1>4, <1>5, <3>1, ThenIsAPlace DEF LInv, MainPlace, Sending
    <3>2. CASE t # Main
      BY <1>1, <1>4, <1>5, <3>2, WhoIsWho DEF LInv, MainPlace, Sending
    <3> QED
      BY <3>1, <3>2
  <2>2. Closing'
    <3>1. CASE t = Main
      BY <1>1, <1>3, <1>4, <3>1, ThenIsAPlace DEF Closing, Sending
    <3>2. CASE t # Main
      BY <1>1, <1>3, <1>4, <3>2, ThenIsAPlace, WhoIsWho DEF LInv, Closing, Sending
    <3> QED
      BY <3>1, <3>2
  <2> QED
    BY <2>1, <2>2
<1>8. ASSUME NEW d \in Callers PROVE CallerPlace(d)'
  <2>1. CASE d = t
    BY <1>1, <1>4, <1>5, <2>1, ThenIsAPlace, WhoIsWho DEF CallerPlace
  <2>2. CASE d # t
    BY <1>1, <1>4, <1>5, <2>2, WhoIsWho DEF LInv, CallerPlace, Sending
  <2> QED
    BY <2>1, <2>2
<1>9. BarShows'
  BY <1>1, <1>3 DEF LInv, BarShows, mode, terminal
<1>10. LinesInv'
  <2> SUFFICES ASSUME NEW u \in Threads
               PROVE  /\ \A i \in DOMAIN screen[u] : screen[u][i].text = i
                      /\ said[u] = Len(screen[u]) + OnItsWay(u)' + (IF Saying(u)' THEN 1 ELSE 0)
                      /\ Handled(u, "emit")' => handling'.cmd.text = Len(screen[u]) + 1
                      /\ Saying(u)' => want'[u].cmd.text = said[u]
                      /\ due[u] <= Len(screen[u]) + OnItsWay(u)'
    BY <1>1 DEF LinesInv, terminal
  <2>1. /\ \A i \in DOMAIN screen[u] : screen[u][i].text = i
        /\ said[u] = Len(screen[u]) + (IF Saying(u) THEN 1 ELSE 0)
        /\ Saying(u) => want[u].cmd.text = said[u]
        /\ due[u] <= Len(screen[u])
    <3>1. OnItsWay(u) = 0 /\ Len(screen[u]) \in Nat
      BY <1>2, <1>3, WhoIsWho DEF OnItsWay, ScreenTyped, Lines
    <3>2. /\ \A i \in DOMAIN screen[u] : screen[u][i].text = i
          /\ said[u] = Len(screen[u]) + OnItsWay(u) + (IF Saying(u) THEN 1 ELSE 0)
          /\ Saying(u) => want[u].cmd.text = said[u]
          /\ due[u] <= Len(screen[u]) + OnItsWay(u)
      BY <1>3 DEF LInv, LinesInv
    <3>3. due[u] \in Nat
      BY <1>2 DEF ThreadsTyped
    <3>4. said[u] = Len(screen[u]) + (IF Saying(u) THEN 1 ELSE 0)
      <4>1. CASE Saying(u)
        BY <3>1, <3>2, <4>1
      <4>2. CASE ~ Saying(u)
        BY <3>1, <3>2, <4>2
      <4> QED
        BY <4>1, <4>2
    <3>5. due[u] <= Len(screen[u])
      BY <3>1, <3>2, <3>3
    <3> QED
      BY <3>2, <3>4, <3>5
  <2>2. said[u] \in Nat /\ due[u] \in Nat /\ Len(screen[u]) \in Nat
    BY <1>2, WhoIsWho DEF ThreadsTyped, ScreenTyped, Lines
  <2>3. CASE u = t /\ Saying(u)
    <3>1. Handled(u, "emit")' /\ OnItsWay(u)' = 1 /\ ~ Saying(u)'
      BY <1>1, <1>4, <1>5, <2>3, ThenIsAPlace DEF OnItsWay, Saying, Places
    <3>2. handling'.cmd.text = said[u]
      BY <1>1, <2>1, <2>3
    <3> QED
      BY <2>1, <2>2, <2>3, <3>1, <3>2
  <2>4. CASE u = t /\ ~ Saying(u)
    <3>1. ~ Handled(u, "emit")' /\ OnItsWay(u)' = 0 /\ ~ Saying(u)'
      BY <1>1, <1>4, <1>5, <2>4, ThenIsAPlace DEF OnItsWay, Saying, Places
    <3> QED
      BY <2>1, <2>2, <2>4, <3>1
  <2>5. CASE u # t
    <3>1. /\ ~ Handled(u, "emit")' /\ OnItsWay(u)' = 0
          /\ (Saying(u)' <=> Saying(u)) /\ want'[u] = want[u]
      BY <1>4, <1>5, <2>5 DEF OnItsWay, Saying
    <3>2. CASE Saying(u)
      BY <2>1, <2>2, <3>1, <3>2
    <3>3. CASE ~ Saying(u)
      <4>1. ~ Saying(u)' /\ said[u] = Len(screen[u])
        BY <2>1, <2>2, <3>1, <3>3
      <4> QED
        BY <2>1, <2>2, <3>1, <4>1
    <3> QED
      BY <3>2, <3>3
  <2> QED
    BY <2>3, <2>4, <2>5
<1>11. TimersInv'
  <2>1. Distinct'
    BY <1>1 DEF LInv, TimersInv, Distinct
  <2>2. \A d \in Callers : reply[d] # NoID => pc[d] = "begun"
    BY DEF LInv, TimersInv, CallInv
  <2>3. ASSUME NEW d \in Callers
        PROVE  CallInv(d)' /\ (HasTimer(d)' <=> HasTimer(d)) /\ (HasTimer(d) => TimerOf(d)' = TimerOf(d))
    <3>1. CASE d # t
      <4>1. pc'[d] = pc[d] /\ want'[d] = want[d] /\ (InCall(d)' <=> InCall(d))
        BY <1>4, <3>1, WhoIsWho DEF InCall
      <4> QED
        BY <1>1, <1>3, <1>5, <2>2, <3>1, <4>1 DEF CallInv, HasTimer, TimerOf
    <3>2. CASE d = t /\ want[d].cmd.kind = "emit"
      <4>1. pc'[d] = "idle" /\ ~ InCall(d) /\ ~ InCall(d)'
        BY <1>1, <1>4, <3>2, ThenIsAPlace, WhoIsWho DEF InCall
      <4> QED
        BY <1>1, <1>3, <1>5, <2>2, <3>2, <4>1 DEF CallInv, HasTimer
    <3>3. CASE d = t /\ want[d].cmd.kind = "begin"
      <4>1. pc'[d] = "begun" /\ ~ InCall(d)
        BY <1>1, <1>4, <3>3, ThenIsAPlace, WhoIsWho DEF InCall
      <4> QED
        BY <1>1, <1>3, <1>5, <2>2, <3>3, <4>1 DEF CallInv, HasTimer
    <3>4. CASE d = t /\ want[d].cmd.kind = "end"
      <4>1. pc'[d] = "log" /\ InCall(d) /\ ~ InCall(d)' /\ handling'.cmd.id = id[d]
        BY <1>1, <1>4, <3>4, ThenIsAPlace, WhoIsWho DEF InCall
      <4> QED
        BY <1>1, <1>3, <1>5, <2>2, <3>4, <4>1 DEF CallInv, HasTimer, TimerOf
    <3> QED
      BY <1>1, <3>1, <3>2, <3>3, <3>4, ThenIsAPlace, WhoIsWho
  <2> QED
    BY <1>1, <1>2, <1>3, <2>1, <2>3, EntriesTyped DEF LInv, TimersInv
<1>12. LogInv'
  <2>1. \A d \in Callers : Numbered(d)' => Numbered(d)
    BY <1>1, <1>4, ThenIsAPlace, WhoIsWho DEF Numbered, Sending
  <2> QED
    BY <1>1, <2>1, LogStays DEF LInv
<1> QED
  BY <1>6, <1>7, <1>8, <1>9, <1>10, <1>11, <1>12 DEF LInv

-----------------------------------------------------------------------------
(* Steps of the command.                                                   *)

\* A send of the command leaves what callers and the log know.
LEMMA MainSends ==
  ASSUME LInv, NEW cmd, NEW then, send(Main, cmd, then),
         cmd.kind \in {"phase", "emit", "stop"}, pc[Main] # "send",
         UNCHANGED <<mode, ownerVars, terminal, reply, id, calls, logVars>>
  PROVE  /\ \A c \in Callers : CallerPlace(c)'
         /\ BarShows' /\ TimersInv' /\ LogInv' /\ OwnerTyped' /\ ScreenTyped'
<1>1. OwnerTyped /\ ScreenTyped /\ ThreadsTyped
  BY DEF LInv, LiveTyped
<1>2. /\ \A u \in Threads : pc'[u] = IF u = Main THEN "send" ELSE pc[u]
      /\ \A u \in Threads : want'[u] = IF u = Main THEN [cmd |-> cmd, then |-> then] ELSE want[u]
  BY <1>1, WhoIsWho, Sends
<1>3. \A c \in Callers : CallerPlace(c)'
  BY <1>2, CallerStays, WhoIsWho DEF LInv, ownerVars
<1>4. BarShows'
  BY BarStays DEF LInv, ownerVars, terminal, mode
<1>5. TimersInv'
  BY <1>1, <1>2, TimersStay, EntriesTyped, WhoIsWho DEF LInv, InCall, ownerVars
<1>6. LogInv'
  BY <1>2, LogStays, WhoIsWho DEF LInv, Numbered, Sending
<1>7. OwnerTyped' /\ ScreenTyped'
  BY <1>1, TypesStay DEF terminal
<1> QED
  BY <1>3, <1>4, <1>5, <1>6, <1>7

\* The label of the phase, then the banner, which is the first line of the command.
LEMMA PhaseKeepsLInv ==
  ASSUME LInv, PhaseStarted
  PROVE  LInv'
<1>1. OwnerTyped /\ ScreenTyped /\ ThreadsTyped
  BY DEF LInv, LiveTyped
<1>2. UNCHANGED <<mode, ownerVars, terminal, reply, id, calls, logVars, beats, due>>
  BY DEF PhaseStarted
<1>3. CASE /\ pc[Main] = "start" /\ send(Main, [kind |-> "phase", text |-> "Planning"], "label")
           /\ UNCHANGED said
  <2> DEFINE label == [kind |-> "phase", text |-> "Planning"]
  <2>1. label.kind = "phase" /\ send(Main, label, "label")
    BY <1>3
  <2> HIDE DEF label
  <2>2. /\ \A u \in Threads : pc'[u] = IF u = Main THEN "send" ELSE pc[u]
        /\ \A u \in Threads : want'[u] = IF u = Main THEN [cmd |-> label, then |-> "label"] ELSE want[u]
        /\ pc' \in [Threads -> Places] /\ DOMAIN want' = Threads
    BY <1>1, <2>1, WhoIsWho, Sends
  <2>3. /\ \A c \in Callers : CallerPlace(c)'
        /\ BarShows' /\ TimersInv' /\ LogInv' /\ OwnerTyped' /\ ScreenTyped'
    BY <1>2, <1>3, <2>1, MainSends
  <2>4. ThreadsTyped'
    BY <1>1, <1>2, <1>3, <2>2 DEF ThreadsTyped, logVars
  <2>5. MainPlace' /\ Closing'
    BY <1>2, <1>3, <2>1, <2>2, WhoIsWho
       DEF LInv, MainPlace, Closing, Sending, Handled, Serving, ownerVars
  <2>6. LinesInv'
    BY <1>2, <1>3, <2>1, <2>2, LinesStay DEF LInv, Saying, ownerVars, terminal
  <2> QED
    BY <2>3, <2>4, <2>5, <2>6 DEF LInv, LiveTyped
<1>4. CASE /\ pc[Main] = "label" /\ send(Main, [kind |-> "emit", text |-> 1], "open")
           /\ said' = [said EXCEPT ![Main] = 1]
  <2> DEFINE banner == [kind |-> "emit", text |-> 1]
  <2>1. banner.kind = "emit" /\ banner.text = 1 /\ send(Main, banner, "open")
    BY <1>4
  <2> HIDE DEF banner
  <2>2. /\ \A u \in Threads : pc'[u] = IF u = Main THEN "send" ELSE pc[u]
        /\ \A u \in Threads : want'[u] = IF u = Main THEN [cmd |-> banner, then |-> "open"] ELSE want[u]
        /\ pc' \in [Threads -> Places] /\ DOMAIN want' = Threads
    BY <1>1, <2>1, WhoIsWho, Sends
  <2>3. /\ \A c \in Callers : CallerPlace(c)'
        /\ BarShows' /\ TimersInv' /\ LogInv' /\ OwnerTyped' /\ ScreenTyped'
    BY <1>2, <1>4, <2>1, MainSends
  <2>4. said' \in [Threads -> Nat] /\ \A u \in Threads : said'[u] = IF u = Main THEN 1 ELSE said[u]
    BY <1>1, <1>4 DEF ThreadsTyped
  <2>5. ThreadsTyped'
    BY <1>1, <1>2, <2>2, <2>4 DEF ThreadsTyped, logVars
  <2>6. MainPlace' /\ Closing'
    BY <1>2, <1>4, <2>1, <2>2, WhoIsWho
       DEF LInv, MainPlace, Closing, Sending, Handled, Serving, ownerVars
  <2>7. Serving /\ said[Main] = 0 /\ ~ Saying(Main)
    BY <1>4 DEF LInv, MainPlace, Closing, Saying, Sending
  <2>8. LinesInv'
    <3> SUFFICES ASSUME NEW t \in Threads
                 PROVE  /\ \A i \in DOMAIN screen[t] : screen[t][i].text = i
                        /\ Serving => said'[t] = Len(screen[t]) + OnItsWay(t)
                                                 + (IF Saying(t)' THEN 1 ELSE 0)
                        /\ Handled(t, "emit") => handling.cmd.text = Len(screen[t]) + 1
                        /\ Serving /\ Saying(t)' => want'[t].cmd.text = said'[t]
                        /\ due[t] <= Len(screen[t]) + OnItsWay(t)
      BY <1>2 DEF LinesInv, ownerVars, terminal, OnItsWay, Handled, Serving
    <3>1. CASE t = Main
      <4>1. Saying(t)' /\ want'[t].cmd.text = said'[t] /\ said'[t] = said[t] + 1
        BY <2>1, <2>2, <2>4, <2>7, <3>1, WhoIsWho DEF Saying
      <4>2. said[t] \in Nat /\ Len(screen[t]) \in Nat /\ OnItsWay(t) \in {0, 1}
        BY <1>1, WhoIsWho DEF ThreadsTyped, ScreenTyped, OnItsWay, Lines
      <4> QED
        BY <2>7, <3>1, <4>1, <4>2 DEF LInv, LinesInv
    <3>2. CASE t # Main
      <4>1. (Saying(t)' <=> Saying(t)) /\ want'[t] = want[t] /\ said'[t] = said[t]
        BY <2>2, <2>4, <3>2 DEF Saying
      <4> QED
        BY <4>1 DEF LInv, LinesInv
    <3> QED
      BY <3>1, <3>2
  <2> QED
    BY <2>3, <2>5, <2>6, <2>8 DEF LInv, LiveTyped
<1> QED
  BY <1>3, <1>4 DEF PhaseStarted

\* Close asks the owner to stop; what has been handed over by now is to be shown.
LEMMA StopKeepsLInv ==
  ASSUME LInv, Stop
  PROVE  LInv'
<1> DEFINE stop == [kind |-> "stop"]
<1>1. /\ pc[Main] \in {"open", "printed"} /\ send(Main, stop, "stopping")
      /\ UNCHANGED <<mode, ownerVars, terminal, reply, id, said, calls, logVars, beats>>
      /\ \/ /\ pc[Main] = "open"
            /\ due' = [t \in Threads |-> said[t] - IF Saying(t) THEN 1 ELSE 0]
         \/ pc[Main] = "printed" /\ UNCHANGED due
  BY DEF Stop
<1>2. stop.kind = "stop"
  OBVIOUS
<1> HIDE DEF stop
<1>3. OwnerTyped /\ ScreenTyped /\ ThreadsTyped
  BY DEF LInv, LiveTyped
<1>4. /\ \A u \in Threads : pc'[u] = IF u = Main THEN "send" ELSE pc[u]
      /\ \A u \in Threads : want'[u] = IF u = Main THEN [cmd |-> stop, then |-> "stopping"] ELSE want[u]
      /\ pc' \in [Threads -> Places] /\ DOMAIN want' = Threads
  BY <1>1, <1>3, WhoIsWho, Sends
<1>5. /\ \A c \in Callers : CallerPlace(c)'
      /\ BarShows' /\ TimersInv' /\ LogInv' /\ OwnerTyped' /\ ScreenTyped'
  BY <1>1, <1>2, MainSends
<1>6. MainPlace' /\ Closing'
  BY <1>1, <1>2, <1>4, WhoIsWho
     DEF LInv, MainPlace, Closing, Sending, Handled, Serving, ownerVars
<1>7. ASSUME NEW t \in Threads PROVE due'[t] \in Nat /\ due'[t] <= Len(screen[t]) + OnItsWay(t)
  <2>1. said[t] \in Nat /\ Len(screen[t]) \in Nat /\ OnItsWay(t) \in {0, 1} /\ due[t] \in Nat
    BY <1>3, WhoIsWho DEF ThreadsTyped, ScreenTyped, OnItsWay, Lines
  <2>2. CASE pc[Main] = "open"
    <3>1. Serving
      BY <2>2 DEF LInv, Closing, Sending
    <3>2. said[t] = Len(screen[t]) + OnItsWay(t) + (IF Saying(t) THEN 1 ELSE 0)
      BY <3>1 DEF LInv, LinesInv
    <3>3. due'[t] = said[t] - IF Saying(t) THEN 1 ELSE 0
      BY <1>1, <2>2
    <3>4. CASE Saying(t)
      BY <2>1, <3>2, <3>3, <3>4
    <3>5. CASE ~ Saying(t)
      BY <2>1, <3>2, <3>3, <3>5
    <3> QED
      BY <3>4, <3>5
  <2>3. CASE pc[Main] = "printed"
    BY <1>1, <2>1, <2>3 DEF LInv, LinesInv
  <2> QED
    BY <1>1, <2>2, <2>3
<1>8. ThreadsTyped'
  <2>1. due' \in [Threads -> Nat]
    <3>1. CASE pc[Main] = "open"
      BY <1>1, <1>7, <3>1
    <3>2. CASE pc[Main] = "printed"
      BY <1>1, <1>3, <3>2 DEF ThreadsTyped
    <3> QED
      BY <1>1, <3>1, <3>2
  <2> QED
    BY <1>1, <1>3, <1>4, <2>1 DEF ThreadsTyped, logVars
<1>9. LinesInv'
  <2>1. \A t \in Threads : (Saying(t)' <=> Saying(t)) /\ (Saying(t) => want'[t] = want[t])
    BY <1>1, <1>2, <1>4 DEF Saying
  <2>2. \A t \in Threads : OnItsWay(t)' = OnItsWay(t) /\ (Handled(t, "emit")' <=> Handled(t, "emit"))
    BY <1>1 DEF OnItsWay, Handled, ownerVars
  <2> QED
    BY <1>1, <1>7, <2>1, <2>2 DEF LInv, LinesInv, Serving, ownerVars, terminal
<1> QED
  BY <1>5, <1>6, <1>8, <1>9 DEF LInv, LiveTyped

\* Stop returns once the owner is gone; the summary is printed after the first.
LEMMA AfterStopKeepsLInv ==
  ASSUME LInv, Stopped \/ PrintSummary
  PROVE  LInv'
<1>1. PICK place \in {"closed", "printed", "exit"} :
        /\ owner = "gone" /\ pc[Main] # "send"
        /\ pc' = [pc EXCEPT ![Main] = place]
        /\ UNCHANGED <<mode, ownerVars, bar, want, reply, id, said, calls, logVars, beats, due>>
        /\ \/ UNCHANGED screen
           \/ screen' = [screen EXCEPT !["command"] = 
                        Append(@, [text |-> 1, on |-> IF bar = Blank THEN "clean" ELSE "bar"])]
  <2>1. CASE Stopped
    BY <2>1 DEF Stopped, Goto, terminal
  <2>2. CASE PrintSummary
    BY <2>2 DEF PrintSummary, Goto, Write, LInv, Closing
  <2> QED
    BY <2>1, <2>2
<1>2. OwnerTyped /\ ScreenTyped /\ ThreadsTyped
  BY DEF LInv, LiveTyped
<1>3. ~ Serving /\ ~ Serving' /\ \A u, k : ~ Handled(u, k) /\ ~ Handled(u, k)'
  BY <1>1 DEF Serving, Handled, ownerVars
<1>4. /\ \A u \in Threads : pc'[u] = IF u = Main THEN place ELSE pc[u]
      /\ pc' \in [Threads -> Places]
  BY <1>1, <1>2, WhoIsWho DEF ThreadsTyped, Places
<1>5. /\ DOMAIN screen' = Writers
      /\ \A w \in Writers : w # "command" => screen'[w] = screen[w]
      /\ screen'["command"] \in Lines("command")
  <2>1. bar = <<>>
    BY <1>3 DEF LInv, BarShows, Blank
  <2>2. screen["command"] \in Lines("command")
    BY <1>2, WhoIsWho DEF ScreenTyped
  <2>3. Append(screen["command"], [text |-> 1, on |-> IF bar = Blank THEN "clean" ELSE "bar"])
          \in Lines("command")
    BY <2>1, <2>2 DEF Lines, Blank
  <2> QED
    BY <1>1, <1>2, <2>2, <2>3, WhoIsWho DEF ScreenTyped
<1>6. LiveTyped'
  <2>1. OwnerTyped'
    BY <1>1, <1>2 DEF OwnerTyped, Entry, mode, ownerVars
  <2>2. ScreenTyped'
    BY <1>1, <1>2, <1>5 DEF ScreenTyped, Lines, mode
  <2>3. ThreadsTyped'
    BY <1>1, <1>2, <1>4 DEF ThreadsTyped, logVars
  <2> QED
    BY <2>1, <2>2, <2>3 DEF LiveTyped
<1>7. MainPlace' /\ Closing'
  BY <1>1, <1>3, <1>4, WhoIsWho DEF MainPlace, Closing, Sending, ownerVars
<1>8. ASSUME NEW d \in Callers PROVE CallerPlace(d)'
  BY <1>1, <1>4, CallerStays, WhoIsWho DEF LInv, ownerVars
<1>9. BarShows'
  BY <1>1, <1>5, BarStays, WhoIsWho DEF LInv, ownerVars, mode
<1>10. LinesInv'
  <2>1. \A t \in Threads : screen'[t] = screen[t]
    BY <1>5, WhoIsWho
  <2> QED
    BY <1>1, <1>3, <2>1 DEF LInv, LinesInv, OnItsWay
<1>11. TimersInv'
  BY <1>1, <1>2, <1>4, TimersStay, EntriesTyped, WhoIsWho DEF LInv, InCall, ownerVars
<1>12. LogInv'
  BY <1>1, <1>4, LogStays, WhoIsWho DEF LInv, Numbered, Sending
<1> QED
  BY <1>6, <1>7, <1>8, <1>9, <1>10, <1>11, <1>12 DEF LInv

-----------------------------------------------------------------------------
(* Steps of the owner.                                                     *)

\* What the owner is about to do, by the kind of the command it has.
LEMMA HandleCases ==
  ASSUME Handle
  PROVE  /\ owner = "handle" /\ owner' = "select" /\ redraw
         /\ UNCHANGED <<mode, pc, want, id, said, calls, logVars, beats, due>>
         /\ handling' = [from |-> Main, cmd |-> None]
         /\ \/ handling.cmd.kind = "begin" /\ HandleBegin(handling.from)
            \/ handling.cmd.kind = "end" /\ HandleEnd(handling.cmd.id)
            \/ handling.cmd.kind = "phase" /\ HandlePhase(handling.cmd.text)
            \/ handling.cmd.kind = "emit" /\ HandleEmit(handling.from, handling.cmd.text)
  BY DEF Handle, HandleBegin, HandleEnd, HandlePhase, HandleEmit

\* Handling any command leaves the threads and the log, and redraws the line.
LEMMA HandleLeaves ==
  ASSUME LInv, Handle
  PROVE  /\ MainPlace' /\ Closing' /\ BarShows' /\ LogInv'
         /\ \A c \in Callers : CallerPlace(c)'
         /\ Serving /\ Serving' /\ \A u, k : ~ Handled(u, k)'
<1>1. /\ owner = "handle" /\ owner' = "select" /\ redraw
      /\ UNCHANGED <<mode, pc, want, id, said, calls, logVars, beats, due>>
      /\ handling.cmd.kind # "stop"
  BY HandleCases
<1>2. Serving /\ Serving' /\ \A u, k : ~ Handled(u, k)'
  BY <1>1 DEF Serving, Handled
<1>3. MainPlace' /\ Closing'
  BY <1>1, <1>2 DEF LInv, MainPlace, Closing, Sending
<1>4. \A c \in Callers : CallerPlace(c)'
  BY <1>1, <1>2 DEF LInv, CallerPlace, Sending
<1>5. BarShows'
  BY <1>1, <1>2 DEF LInv, BarShows, redraw, mode
<1>6. LogInv'
  BY <1>1, LogStays DEF LInv, Numbered, Sending
<1> QED
  BY <1>2, <1>3, <1>4, <1>5, <1>6

\* Handling a command that is no line.
LEMMA HandledUnsaid ==
  ASSUME LInv, Handle, handling.cmd.kind # "emit", UNCHANGED screen
  PROVE  LinesInv'
<1>1. \A t \in Threads : OnItsWay(t) = 0 /\ OnItsWay(t)' = 0
  BY HandleCases, HandleLeaves DEF OnItsWay, Handled
<1>2. UNCHANGED <<want, said, due>> /\ \A t \in Threads : Saying(t)' <=> Saying(t)
  BY HandleCases DEF Saying
<1>3. Serving /\ Serving' /\ \A t \in Threads : ~ Handled(t, "emit")'
  BY HandleLeaves
<1> SUFFICES ASSUME NEW t \in Threads
             PROVE  /\ \A i \in DOMAIN screen[t] : screen[t][i].text = i
                    /\ said[t] = Len(screen[t]) + OnItsWay(t)' + (IF Saying(t)' THEN 1 ELSE 0)
                    /\ Saying(t)' => want[t].cmd.text = said[t]
                    /\ due[t] <= Len(screen[t]) + OnItsWay(t)'
  BY <1>2, <1>3 DEF LinesInv
<1>4. /\ \A i \in DOMAIN screen[t] : screen[t][i].text = i
      /\ said[t] = Len(screen[t]) + OnItsWay(t) + (IF Saying(t) THEN 1 ELSE 0)
      /\ Saying(t) => want[t].cmd.text = said[t]
      /\ due[t] <= Len(screen[t]) + OnItsWay(t)
  BY <1>3 DEF LInv, LinesInv
<1> QED
  BY <1>1, <1>2, <1>4

\* Handling a command that neither begins nor ends a timer.
LEMMA HandledUntimed ==
  ASSUME LInv, Handle, handling.cmd.kind \notin {"begin", "end"}, UNCHANGED <<order, reply>>
  PROVE  TimersInv'
<1>1. UNCHANGED <<pc, want, id>>
  BY HandleCases
<1>2. \A c \in Callers : /\ ~ Handled(c, "begin") /\ ~ Handled(c, "begin")'
                         /\ ~ Handled(c, "end") /\ ~ Handled(c, "end")'
                         /\ InCall(c)' <=> InCall(c)
  BY <1>1, HandleLeaves DEF Handled, InCall
<1>3. \A c \in Callers : CallInv(c)' /\ (HasTimer(c)' <=> HasTimer(c)) /\ TimerOf(c)' = TimerOf(c)
  BY <1>1, <1>2 DEF LInv, TimersInv, CallInv, HasTimer, TimerOf
<1>4. Serving /\ Serving' /\ (Distinct' <=> Distinct)
  BY HandleLeaves DEF Distinct
<1>5. \A i \in DOMAIN order : order[i].role \in Callers
  BY EntriesTyped DEF LInv, LiveTyped
<1> QED
  BY <1>3, <1>4, <1>5 DEF LInv, TimersInv

\* The label of the phase changes.
LEMMA HandlePhaseKeepsLInv ==
  ASSUME LInv, Handle, handling.cmd.kind = "phase", HandlePhase(handling.cmd.text)
  PROVE  LInv'
<1>1. UNCHANGED <<order, nextID, screen, reply>>
  BY DEF HandlePhase
<1>2. LiveTyped'
  <2>1. OwnerTyped' /\ ScreenTyped'
    BY <1>1, HandleCases, WhoIsWho
       DEF LInv, LiveTyped, OwnerTyped, ScreenTyped, Entry, Lines, mode
  <2>2. ThreadsTyped'
    BY <1>1, HandleCases DEF LInv, LiveTyped, ThreadsTyped, logVars
  <2> QED
    BY <2>1, <2>2 DEF LiveTyped
<1> QED
  BY <1>1, <1>2, HandleLeaves, HandledUnsaid, HandledUntimed DEF LInv

\* A line with the next number keeps the numbering of the lines before it.
LEMMA NumbersGoOn ==
  ASSUME NEW S, NEW s \in Seq(S), NEW e \in S, e.text = Len(s) + 1,
         \A i \in DOMAIN s : s[i].text = i
  PROVE  \A i \in DOMAIN Append(s, e) : Append(s, e)[i].text = i
<1> SUFFICES ASSUME NEW i \in 1..(Len(s) + 1) PROVE Append(s, e)[i].text = i
  OBVIOUS
<1>1. CASE i = Len(s) + 1
  BY <1>1
<1>2. CASE i # Len(s) + 1
  <2>1. i \in DOMAIN s /\ Append(s, e)[i] = s[i]
    BY <1>2
  <2> QED
    BY <2>1
<1> QED
  BY <1>1, <1>2

\* A line is written.
LEMMA HandleEmitKeepsLInv ==
  ASSUME LInv, Handle, handling.cmd.kind = "emit",
         HandleEmit(handling.from, handling.cmd.text)
  PROVE  LInv'
<1> DEFINE t == handling.from
           held == IF tty THEN Blank ELSE bar
           line == [text |-> handling.cmd.text, on |-> IF held = Blank THEN "clean" ELSE "bar"]
<1>1. /\ screen' = [screen EXCEPT ![t] = Append(@, line)]
      /\ UNCHANGED <<order, nextID, phase, reply>>
  BY DEF HandleEmit, writeLine, Write
<1>2. OwnerTyped /\ ScreenTyped /\ ThreadsTyped
  BY DEF LInv, LiveTyped
<1>3. t \in Threads /\ Handled(t, "emit") /\ OnItsWay(t) = 1
  BY <1>2, HandleCases DEF OwnerTyped, Handled, OnItsWay
<1>4. screen[t] \in Lines(t) /\ Len(screen[t]) \in Nat
  BY <1>2, <1>3, WhoIsWho DEF ScreenTyped, Lines
<1>5. line.text = Len(screen[t]) + 1 /\ line.on = "clean" /\ line \in [text : Nat, on : {"clean"}]
  BY <1>3, <1>4 DEF LInv, LinesInv, BarShows
<1> HIDE DEF line
<1>6. /\ DOMAIN screen' = Writers
      /\ \A w \in Writers : w # t => screen'[w] = screen[w]
      /\ screen'[t] = Append(screen[t], line)
  BY <1>1, <1>2, <1>3, WhoIsWho DEF ScreenTyped
<1>7. screen'[t] \in Lines(t)
  <2>1. Lines(t) = Seq([text : Nat, on : {"clean"}])
    BY <1>3, WhoIsWho DEF Lines
  <2> QED
    BY <1>4, <1>5, <1>6, <2>1
<1>8. LiveTyped'
  <2>1. OwnerTyped'
    BY <1>1, <1>2, HandleCases, WhoIsWho DEF OwnerTyped, Entry, mode
  <2>2. ScreenTyped'
    <3>1. tty' = tty
      BY HandleCases DEF mode
    <3>2. ASSUME NEW w \in Writers, w # t PROVE screen'[w] \in Lines(w)
      BY <1>2, <1>6, <3>2 DEF ScreenTyped
    <3> QED
      BY <1>6, <1>7, <3>1, <3>2 DEF ScreenTyped, Lines
  <2>3. ThreadsTyped'
    BY <1>1, <1>2, HandleCases DEF ThreadsTyped, logVars
  <2> QED
    BY <2>1, <2>2, <2>3 DEF LiveTyped
<1>9. LinesInv'
  <2>1. UNCHANGED <<want, said, due>> /\ \A u \in Threads : Saying(u)' <=> Saying(u)
    BY HandleCases DEF Saying
  <2>2. Serving /\ Serving' /\ \A u \in Threads : ~ Handled(u, "emit")' /\ OnItsWay(u)' = 0
    BY HandleLeaves DEF OnItsWay
  <2> SUFFICES ASSUME NEW u \in Threads
               PROVE  /\ \A i \in DOMAIN screen'[u] : screen'[u][i].text = i
                      /\ said[u] = Len(screen'[u]) + (IF Saying(u) THEN 1 ELSE 0)
                      /\ Saying(u) => want[u].cmd.text = said[u]
                      /\ due[u] <= Len(screen'[u])
    <3>1. \A u \in Threads : Len(screen'[u]) \in Nat
      BY <1>8, WhoIsWho DEF LiveTyped, ScreenTyped, Lines
    <3>2. \A u \in Threads : Len(screen'[u]) + OnItsWay(u)' = Len(screen'[u])
      BY <2>2, <3>1
    <3> QED
      BY <2>1, <2>2, <3>2 DEF LinesInv
  <2>3. /\ \A i \in DOMAIN screen[u] : screen[u][i].text = i
        /\ said[u] = Len(screen[u]) + OnItsWay(u) + (IF Saying(u) THEN 1 ELSE 0)
        /\ Saying(u) => want[u].cmd.text = said[u]
        /\ due[u] <= Len(screen[u]) + OnItsWay(u)
    BY <2>2 DEF LInv, LinesInv
  <2>4. CASE u = t
    <3>1. Len(screen'[u]) = Len(screen[u]) + 1
      BY <1>4, <1>6, <2>4 DEF Lines
    <3>2. \A i \in DOMAIN screen'[u] : screen'[u][i].text = i
      <4>1. Lines(t) = Seq([text : Nat, on : {"clean"}])
        BY <1>3, WhoIsWho DEF Lines
      <4>2. \A i \in DOMAIN Append(screen[t], line) : Append(screen[t], line)[i].text = i
        BY <1>4, <1>5, <2>3, <2>4, <4>1, NumbersGoOn
      <4> QED
        BY <1>6, <2>4, <4>2
    <3> QED
      BY <1>3, <2>3, <2>4, <3>1, <3>2
  <2>5. CASE u # t
    <3>1. screen'[u] = screen[u] /\ OnItsWay(u) = 0 /\ Len(screen[u]) \in Nat
      BY <1>2, <1>6, <2>5, WhoIsWho DEF OnItsWay, Handled, ScreenTyped, Lines
    <3>2. Len(screen[u]) + OnItsWay(u) = Len(screen[u])
      BY <3>1
    <3> QED
      BY <2>3, <3>1, <3>2
  <2> QED
    BY <2>4, <2>5
<1> QED
  BY <1>1, <1>8, <1>9, HandleLeaves, HandledUntimed DEF LInv

\* Ids being distinct, removing one takes out its entry and keeps the order of the others.
LEMMA RemovesItsEntry ==
  ASSUME NEW S, NEW s \in Seq(S), NEW k \in DOMAIN s,
         \A i \in DOMAIN s : s[i].id = s[k].id => i = k
  PROVE  /\ removeID(s, s[k].id) \in Seq(S)
         /\ Len(removeID(s, s[k].id)) = Len(s) - 1
         /\ \A i \in 1..(Len(s) - 1) : removeID(s, s[k].id)[i] = s[IF i < k THEN i ELSE i + 1]
<1>1. {i \in DOMAIN s : s[i].id = s[k].id} = {k}
  OBVIOUS
<1>2. Min({k}) = k
  BY DEF Min
<1>3. removeID(s, s[k].id) = RemoveAt(s, k)
  BY <1>1, <1>2 DEF removeID
<1>4. k \in 1..Len(s) /\ Len(s) \in Nat
  OBVIOUS
<1>5. /\ SubSeq(s, 1, k - 1) \in Seq(S) /\ Len(SubSeq(s, 1, k - 1)) = k - 1
      /\ \A i \in 1..(k - 1) : SubSeq(s, 1, k - 1)[i] = s[i]
  BY <1>4
<1>6. /\ SubSeq(s, k + 1, Len(s)) \in Seq(S) /\ Len(SubSeq(s, k + 1, Len(s))) = Len(s) - k
      /\ \A i \in 1..(Len(s) - k) : SubSeq(s, k + 1, Len(s))[i] = s[k + i]
  BY <1>4
<1> DEFINE p == SubSeq(s, 1, k - 1)
           q == SubSeq(s, k + 1, Len(s))
<1>7. p \in Seq(S) /\ q \in Seq(S) /\ RemoveAt(s, k) = p \o q
  BY <1>5, <1>6 DEF RemoveAt
<1>8. /\ Len(p) = k - 1 /\ Len(q) = Len(s) - k
      /\ \A i \in 1..(k - 1) : p[i] = s[i]
      /\ \A i \in 1..(Len(s) - k) : q[i] = s[k + i]
  BY <1>5, <1>6
<1> HIDE DEF p, q
<1>9. p \o q \in Seq(S) /\ Len(p \o q) = Len(s) - 1
  BY <1>4, <1>7, <1>8
<1>10. ASSUME NEW i \in 1..(Len(s) - 1) PROVE (p \o q)[i] = s[IF i < k THEN i ELSE i + 1]
  <2>1. CASE i < k
    <3>1. i \in 1..Len(p)
      BY <1>4, <1>8, <2>1
    <3> QED
      BY <1>4, <1>7, <1>8, <2>1, <3>1
  <2>2. CASE ~ (i < k)
    <3>1. i - (k - 1) \in 1..(Len(s) - k) /\ k + (i - (k - 1)) = i + 1
      BY <1>4, <2>2
    <3>2. i \in 1..(Len(p) + Len(q)) /\ ~ (i <= Len(p)) /\ Len(p) = k - 1
      BY <1>4, <1>8, <2>2
    <3>3. (p \o q)[i] = q[i - Len(p)]
      BY <1>7, <3>2
    <3> QED
      BY <1>8, <2>2, <3>1, <3>2, <3>3
  <2> QED
    BY <2>1, <2>2
<1> QED
  BY <1>3, <1>7, <1>9, <1>10

\* A sequence over a set is one over a larger set.
LEMMA WiderSeq ==
  ASSUME NEW S, NEW W, S \subseteq W, NEW s, NEW n \in Nat, s \in [1..n -> S]
  PROVE  s \in Seq(W)
<1>1. s \in [1..n -> W]
  OBVIOUS
<1> QED
  BY <1>1

\* A timer begins: the caller that waits for it had none.
LEMMA HandleBeginKeepsLInv ==
  ASSUME LInv, Handle, handling.cmd.kind = "begin", HandleBegin(handling.from)
  PROVE  LInv'
<1>0. PICK t \in Threads : t = handling.from
  BY DEF LInv, LiveTyped, OwnerTyped
<1> DEFINE entry == [id |-> nextID', role |-> t]
<1>1. /\ nextID' = nextID + 1 /\ order' = Append(order, entry)
      /\ reply' = [reply EXCEPT ![t] = nextID'] /\ UNCHANGED <<phase, screen>>
  BY <1>0 DEF HandleBegin
<1>2. OwnerTyped /\ ScreenTyped /\ ThreadsTyped
  BY DEF LInv, LiveTyped
<1>3. t \in Callers /\ Handled(t, "begin")
  BY <1>0, HandleCases DEF Handled, LInv, MainPlace, Threads
<1>4. nextID \in Nat /\ nextID' \in Nat \ {0} /\ entry.id = nextID' /\ entry.role = t
  BY <1>1, <1>2 DEF OwnerTyped
<1>5. entry \in [id : 1..nextID', role : Callers]
  BY <1>3, <1>4
<1> HIDE DEF entry
<1>6. order \in Seq([id : 1..nextID', role : Callers])
  <2>1. Entry \subseteq [id : 1..nextID', role : Callers]
    BY <1>1, <1>4 DEF Entry
  <2>2. order \in [1..Len(order) -> Entry] /\ Len(order) \in Nat
    BY <1>2 DEF OwnerTyped
  <2> QED
    BY <2>1, <2>2, WiderSeq
<1>7. /\ order' \in Seq([id : 1..nextID', role : Callers])
      /\ DOMAIN order' = 1..(Len(order) + 1) /\ DOMAIN order = 1..Len(order) /\ Len(order) \in Nat
      /\ order'[Len(order) + 1] = entry
      /\ \A i \in DOMAIN order : order'[i] = order[i]
  BY <1>1, <1>5, <1>6
<1>8. /\ reply' \in [Threads -> Nat]
      /\ \A u \in Threads : reply'[u] = IF u = t THEN nextID' ELSE reply[u]
  BY <1>1, <1>2, <1>3, <1>4, WhoIsWho DEF ThreadsTyped
<1>9. LiveTyped'
  <2>1. OwnerTyped' /\ ScreenTyped'
    BY <1>1, <1>2, <1>4, <1>7, HandleCases, WhoIsWho
       DEF OwnerTyped, ScreenTyped, Entry, Lines, mode
  <2>2. ThreadsTyped'
    BY <1>2, <1>8, HandleCases DEF ThreadsTyped, logVars
  <2> QED
    BY <2>1, <2>2 DEF LiveTyped
<1>10. \A i \in DOMAIN order : /\ order[i].role \in Callers /\ order[i].role # t
                               /\ order[i].id \in 1..nextID /\ order[i].id # nextID'
  <2>1. ~ HasTimer(t)
    BY <1>3 DEF HasTimer, Handled
  <2>2. Serving
    BY HandleLeaves
  <2> QED
    BY <1>1, <1>2, <1>4, <2>1, <2>2, EntriesTyped DEF LInv, TimersInv
<1>11. TimersInv'
  <2>1. Distinct'
    <3> SUFFICES ASSUME NEW i \in DOMAIN order', NEW j \in DOMAIN order',
                        order'[i].id = order'[j].id \/ order'[i].role = order'[j].role
                 PROVE  i = j
      BY DEF Distinct
    <3>1. CASE i \in DOMAIN order /\ j \in DOMAIN order
      BY <1>7, <3>1 DEF LInv, TimersInv, Distinct
    <3>2. CASE i \in DOMAIN order /\ j = Len(order) + 1
      BY <1>4, <1>7, <1>10, <3>2
    <3>3. CASE i = Len(order) + 1 /\ j \in DOMAIN order
      BY <1>4, <1>7, <1>10, <3>3
    <3>4. CASE i = Len(order) + 1 /\ j = Len(order) + 1
      BY <3>4
    <3> QED
      BY <1>7, <3>1, <3>2, <3>3, <3>4
  <2>2. pc[t] = "begun" /\ UNCHANGED <<pc, want, id>>
    BY <1>3, HandleCases DEF LInv, TimersInv, CallInv, Handled
  <2>3. \A u, k : ~ Handled(u, k)'
    BY HandleLeaves
  <2>4. \A c \in Callers : c # t => ~ Handled(c, "begin") /\ ~ Handled(c, "end")
    BY <1>0 DEF Handled
  <2>5. \A c \in Callers : CallInv(c)'
    BY <1>8, <2>2, <2>3, WhoIsWho DEF LInv, TimersInv, CallInv
  <2>6. HasTimer(t)' /\ TimerOf(t)' = nextID'
    BY <1>3, <1>8, <2>2, <2>3, WhoIsWho DEF HasTimer, TimerOf, InCall
  <2>7. \A c \in Callers : c # t => (HasTimer(c)' <=> HasTimer(c)) /\ TimerOf(c)' = TimerOf(c)
    BY <1>8, <2>2, <2>3, <2>4, WhoIsWho DEF HasTimer, TimerOf, InCall
  <2>8. Serving /\ Serving'
    BY HandleLeaves
  <2>9. ASSUME NEW i \in DOMAIN order'
        PROVE  \E r \in Callers : /\ r = order'[i].role
                                  /\ HasTimer(r)' /\ order'[i].id = TimerOf(r)'
    <3>1. CASE i = Len(order) + 1
      BY <1>3, <1>4, <1>7, <2>6, <3>1
    <3>2. CASE i \in DOMAIN order
      <4>1. PICK r \in Callers : r = order[i].role /\ r # t
        BY <1>10, <3>2
      <4>2. HasTimer(r) /\ order[i].id = TimerOf(r)
        BY <2>8, <3>2, <4>1 DEF LInv, TimersInv
      <4> QED
        BY <1>7, <2>7, <3>2, <4>1, <4>2
    <3> QED
      BY <1>7, <3>1, <3>2
  <2>10. ASSUME NEW c \in Callers, HasTimer(c)' PROVE \E i \in DOMAIN order' : order'[i].role = c
    <3>1. CASE c = t
      BY <1>4, <1>7, <3>1
    <3>2. CASE c # t
      <4>1. PICK i \in DOMAIN order : order[i].role = c
        BY <2>7, <2>8, <2>10, <3>2 DEF LInv, TimersInv
      <4> QED
        BY <1>7, <4>1
    <3> QED
      BY <3>1, <3>2
  <2> QED
    BY <2>1, <2>5, <2>9, <2>10 DEF TimersInv
<1> QED
  BY <1>1, <1>9, <1>11, HandleLeaves, HandledUnsaid DEF LInv

\* A timer ends: the entry of the caller that ended it goes, no other.
LEMMA HandleEndKeepsLInv ==
  ASSUME LInv, Handle, handling.cmd.kind = "end", HandleEnd(handling.cmd.id)
  PROVE  LInv'
<1>0. PICK t \in Threads : t = handling.from
  BY DEF LInv, LiveTyped, OwnerTyped
<1>1. /\ order' = removeID(order, handling.cmd.id)
      /\ UNCHANGED <<nextID, phase, screen, reply>>
  BY DEF HandleEnd
<1>2. OwnerTyped /\ ScreenTyped /\ ThreadsTyped
  BY DEF LInv, LiveTyped
<1>3. t \in Callers /\ Handled(t, "end") /\ Serving
  BY <1>0, HandleCases, HandleLeaves DEF Handled, LInv, MainPlace, Threads
<1>4. PICK k \in DOMAIN order : order[k].role = t /\ order[k].id = handling.cmd.id
  <2>1. HasTimer(t) /\ TimerOf(t) = handling.cmd.id
    BY <1>3 DEF HasTimer, TimerOf
  <2>2. PICK k \in DOMAIN order : order[k].role = t
    BY <1>3, <2>1 DEF LInv, TimersInv
  <2> QED
    BY <1>3, <2>1, <2>2 DEF LInv, TimersInv
<1>5. order \in Seq(Entry) /\ Len(order) \in Nat /\ DOMAIN order = 1..Len(order)
  BY <1>2 DEF OwnerTyped
<1>6. /\ order' \in Seq(Entry) /\ DOMAIN order' = 1..(Len(order) - 1)
      /\ \A i \in DOMAIN order' : order'[i] = order[IF i < k THEN i ELSE i + 1]
  <2>1. \A i \in DOMAIN order : order[i].id = order[k].id => i = k
    BY DEF LInv, TimersInv, Distinct
  <2>2. /\ removeID(order, order[k].id) \in Seq(Entry)
        /\ Len(removeID(order, order[k].id)) = Len(order) - 1
        /\ \A i \in 1..(Len(order) - 1) :
             removeID(order, order[k].id)[i] = order[IF i < k THEN i ELSE i + 1]
    BY <1>5, <2>1, RemovesItsEntry
  <2>3. order' = removeID(order, order[k].id)
    BY <1>1, <1>4
  <2>4. order' \in Seq(Entry) /\ Len(order') = Len(order) - 1
    BY <2>2, <2>3
  <2>5. DOMAIN order' = 1..(Len(order) - 1)
    BY <2>4
  <2> QED
    BY <2>2, <2>3, <2>4, <2>5
<1>7. /\ \A i \in DOMAIN order' : (IF i < k THEN i ELSE i + 1) \in DOMAIN order \ {k}
      /\ \A j \in DOMAIN order \ {k} : \E i \in DOMAIN order' : order'[i] = order[j]
  <2>1. \A i \in DOMAIN order' : (IF i < k THEN i ELSE i + 1) \in DOMAIN order \ {k}
    BY <1>5, <1>6
  <2>2. ASSUME NEW j \in DOMAIN order \ {k} PROVE \E i \in DOMAIN order' : order'[i] = order[j]
    <3>1. CASE j < k
      <4>1. j \in DOMAIN order'
        BY <1>5, <1>6, <3>1
      <4> QED
        BY <1>6, <3>1, <4>1
    <3>2. CASE j > k
      <4>1. j - 1 \in DOMAIN order' /\ ~ (j - 1 < k) /\ (j - 1) + 1 = j
        BY <1>5, <1>6, <3>2
      <4> QED
        BY <1>6, <4>1
    <3> QED
      BY <1>5, <3>1, <3>2
  <2> QED
    BY <2>1, <2>2
<1>8. LiveTyped'
  <2>1. OwnerTyped'
    BY <1>1, <1>2, <1>6, HandleCases, WhoIsWho DEF OwnerTyped, Entry, mode
  <2>2. ScreenTyped'
    BY <1>1, <1>2, HandleCases DEF ScreenTyped, Lines, mode
  <2>3. ThreadsTyped'
    BY <1>1, <1>2, HandleCases DEF ThreadsTyped, logVars
  <2> QED
    BY <2>1, <2>2, <2>3 DEF LiveTyped
<1>9. TimersInv'
  <2>1. Distinct'
    <3> SUFFICES ASSUME NEW i \in DOMAIN order', NEW j \in DOMAIN order',
                        order'[i].id = order'[j].id \/ order'[i].role = order'[j].role
                 PROVE  i = j
      BY DEF Distinct
    <3>1. (IF i < k THEN i ELSE i + 1) = (IF j < k THEN j ELSE j + 1)
      BY <1>6, <1>7 DEF LInv, TimersInv, Distinct
    <3>2. i \in Nat /\ j \in Nat /\ k \in Nat
      BY <1>5, <1>6
    <3> QED
      BY <3>1, <3>2
  <2>2. UNCHANGED <<pc, want, id, reply>>
    BY <1>1, HandleCases
  <2>3. \A u, n : ~ Handled(u, n)'
    BY HandleLeaves
  <2>4. \A c \in Callers : /\ ~ Handled(c, "begin")
                           /\ c # t => ~ Handled(c, "end")
    BY <1>0, <1>3 DEF Handled
  <2>5. \A c \in Callers : CallInv(c)' /\ (InCall(c)' <=> InCall(c))
    BY <2>2, <2>3 DEF LInv, TimersInv, CallInv, InCall
  <2>6. ~ HasTimer(t)'
    BY <1>3, <2>3, <2>5 DEF LInv, TimersInv, CallInv, HasTimer
  <2>7. \A c \in Callers : c # t => (HasTimer(c)' <=> HasTimer(c)) /\ TimerOf(c)' = TimerOf(c)
    BY <2>2, <2>3, <2>4, <2>5 DEF HasTimer, TimerOf
  <2>8. \A j \in DOMAIN order \ {k} : order[j].role # t /\ order[j].role \in Callers
    BY <1>2, <1>4, EntriesTyped DEF LInv, TimersInv, Distinct
  <2>9. ASSUME NEW i \in DOMAIN order'
        PROVE  \E r \in Callers : /\ r = order'[i].role
                                  /\ HasTimer(r)' /\ order'[i].id = TimerOf(r)'
    <3>1. PICK j \in DOMAIN order \ {k} : order'[i] = order[j]
      BY <1>6, <1>7
    <3> QED
      <4>1. PICK r \in Callers : r = order[j].role /\ r # t
        BY <2>8
      <4>2. HasTimer(r) /\ order[j].id = TimerOf(r)
        BY <1>3, <4>1 DEF LInv, TimersInv
      <4> QED
        BY <2>7, <3>1, <4>1, <4>2
  <2>10. ASSUME NEW c \in Callers, HasTimer(c)' PROVE \E i \in DOMAIN order' : order'[i].role = c
    <3>1. c # t
      BY <2>6, <2>10
    <3>2. PICK j \in DOMAIN order : order[j].role = c
      BY <1>3, <2>7, <2>10, <3>1 DEF LInv, TimersInv
    <3>3. j # k
      BY <1>4, <3>1, <3>2
    <3> QED
      BY <1>7, <3>2, <3>3
  <2> QED
    BY <2>1, <2>5, <2>9, <2>10 DEF TimersInv
<1> QED
  BY <1>1, <1>8, <1>9, HandleLeaves, HandledUnsaid DEF LInv

\* Any command but Stop is handled.
LEMMA HandleKeepsLInv ==
  ASSUME LInv, Handle
  PROVE  LInv'
  BY HandleCases, HandleBeginKeepsLInv, HandleEndKeepsLInv, HandlePhaseKeepsLInv,
     HandleEmitKeepsLInv

\* The region is wiped, and then its owner is gone.
LEMMA StoppingKeepsLInv ==
  ASSUME LInv, HandleStop \/ CloseDone
  PROVE  LInv'
<1>1. /\ owner' \in {"closing", "gone"} /\ ~ Serving'
      /\ UNCHANGED <<mode, handling, order, nextID, phase, screen, threadVars, logVars, beats, due>>
      /\ \/ owner = "handle" /\ handling.cmd.kind = "stop"
         \/ owner = "closing"
  BY DEF HandleStop, CloseDone, Serving, terminal
<1>2. OwnerTyped /\ ScreenTyped /\ ThreadsTyped
  BY DEF LInv, LiveTyped
<1>3. \A u, k : ~ Handled(u, k)' /\ (k # "stop" => ~ Handled(u, k))
  BY <1>1 DEF Handled
<1>4. LiveTyped'
  <2>1. OwnerTyped' /\ ScreenTyped'
    BY <1>1, <1>2 DEF OwnerTyped, ScreenTyped, Entry, Lines, mode
  <2>2. ThreadsTyped'
    BY <1>1, <1>2 DEF ThreadsTyped, threadVars, logVars
  <2> QED
    BY <2>1, <2>2 DEF LiveTyped
<1>5. MainPlace' /\ Closing'
  <2>1. MainPlace'
    BY <1>1, <1>3 DEF LInv, MainPlace, Sending, threadVars
  <2>2. pc[Main] \in {"stopping", "closed", "printed", "exit"} \/ Sending(Main, "stop")
    BY <1>1 DEF LInv, Closing, Serving
  <2>3. pc[Main] \notin {"closed", "printed", "exit"}
    BY <1>1 DEF LInv, Closing
  <2> QED
    BY <1>1, <2>1, <2>2, <2>3 DEF Closing, Sending, threadVars
<1>6. \A c \in Callers : CallerPlace(c)'
  BY <1>1, <1>3 DEF LInv, CallerPlace, Sending, threadVars
<1>7. BarShows'
  <2>1. CASE HandleStop
    BY <1>1, <2>1 DEF LInv, BarShows, HandleStop, mode
  <2>2. CASE CloseDone
    BY <1>1, <2>2 DEF LInv, BarShows, CloseDone, Serving, mode, terminal
  <2> QED
    BY <2>1, <2>2
<1>8. LinesInv'
  BY <1>1, <1>3 DEF LInv, LinesInv, OnItsWay
<1>9. TimersInv'
  BY <1>1, <1>3 DEF LInv, TimersInv, Distinct, CallInv, threadVars
<1>10. LogInv'
  BY <1>1, LogStays DEF LInv, Numbered, Sending, threadVars
<1> QED
  BY <1>4, <1>5, <1>6, <1>7, <1>8, <1>9, <1>10 DEF LInv

\* A tick, and a heartbeat off a terminal.
LEMMA TickKeepsLInv ==
  ASSUME LInv, Tick
  PROVE  LInv'
<1> DEFINE beat == [i \in DOMAIN order |-> order[i].role]
<1>1. /\ owner = "select" /\ UNCHANGED <<mode, ownerVars, threadVars, logVars, due>>
      /\ \/ tty /\ bar' = statusText(order, phase) /\ UNCHANGED screen
         \/ ~ tty /\ UNCHANGED bar /\ writeLine("region", beat)
  BY DEF Tick
<1>2. OwnerTyped /\ ScreenTyped /\ ThreadsTyped
  BY DEF LInv, LiveTyped
<1>3. beat \in Seq(Callers)
  <2>1. DOMAIN order = 1..Len(order) /\ Len(order) \in Nat
    BY <1>2 DEF OwnerTyped
  <2>2. beat \in [1..Len(order) -> Callers]
    BY <1>2, <2>1, EntriesTyped
  <2> QED
    BY <2>1, <2>2, WiderSeq
<1> HIDE DEF beat
<1>4. /\ DOMAIN screen' = Writers
      /\ \A w \in Writers : w # "region" => screen'[w] = screen[w]
      /\ screen'["region"] \in Lines("region")
  <2>1. screen["region"] \in Lines("region") /\ DOMAIN screen = Writers
    BY <1>2, WhoIsWho DEF ScreenTyped
  <2>2. CASE UNCHANGED screen
    BY <2>1, <2>2
  <2>3. CASE ~ tty /\ writeLine("region", beat)
    <3>1. screen' = [screen EXCEPT !["region"] = Append(@, [text |-> beat, on |-> "clean"])]
      BY <2>3 DEF writeLine, Write, LInv, BarShows
    <3>2. [text |-> beat, on |-> "clean"] \in [text : Seq(Callers), on : {"clean"}]
      BY <1>3
    <3>3. Append(screen["region"], [text |-> beat, on |-> "clean"]) \in Lines("region")
      BY <2>1, <3>2 DEF Lines
    <3> QED
      BY <2>1, <3>1, <3>3, WhoIsWho
  <2> QED
    BY <1>1, <2>2, <2>3
<1>5. LiveTyped'
  <2>1. OwnerTyped'
    BY <1>1, <1>2 DEF OwnerTyped, Entry, mode, ownerVars
  <2>2. ScreenTyped'
    BY <1>1, <1>2, <1>4 DEF ScreenTyped, Lines, mode
  <2>3. ThreadsTyped'
    BY <1>1, <1>2 DEF ThreadsTyped, threadVars, logVars
  <2> QED
    BY <2>1, <2>2, <2>3 DEF LiveTyped
<1>6. MainPlace' /\ Closing' /\ \A c \in Callers : CallerPlace(c)'
  BY <1>1, MainStays, CallerStays DEF LInv, ownerVars, threadVars
<1>7. BarShows'
  BY <1>1 DEF LInv, BarShows, Serving, mode, ownerVars
<1>8. LinesInv'
  <2>1. \A t \in Threads : /\ screen'[t] = screen[t] /\ OnItsWay(t)' = OnItsWay(t)
                           /\ Handled(t, "emit")' <=> Handled(t, "emit")
                           /\ Saying(t)' <=> Saying(t)
    BY <1>1, <1>4, WhoIsWho DEF OnItsWay, Handled, Saying, ownerVars, threadVars
  <2> QED
    BY <1>1, <2>1 DEF LInv, LinesInv, Serving, ownerVars, threadVars
<1>9. TimersInv'
  BY <1>1, <1>2, TimersStay, EntriesTyped DEF LInv, InCall, ownerVars, threadVars
<1>10. LogInv'
  BY <1>1, LogStays DEF LInv, Numbered, Sending, threadVars
<1> QED
  BY <1>5, <1>6, <1>7, <1>8, <1>9, <1>10 DEF LInv

\* A step of nobody.
LEMMA StutterKeepsLInv ==
  ASSUME LInv, UNCHANGED vars
  PROVE  LInv'
<1>1. UNCHANGED <<mode, ownerVars, terminal, threadVars, logVars, due>>
  BY DEF vars
<1>2. LiveTyped'
  BY <1>1 DEF LInv, LiveTyped, OwnerTyped, ScreenTyped, ThreadsTyped, Entry, Lines, mode,
              ownerVars, terminal, threadVars, logVars
<1>3. MainPlace' /\ Closing' /\ \A c \in Callers : CallerPlace(c)'
  BY <1>1, MainStays, CallerStays DEF LInv, ownerVars, threadVars
<1>4. BarShows'
  BY <1>1, BarStays DEF LInv, mode, ownerVars, terminal
<1>5. LinesInv'
  BY <1>1, LinesStay DEF LInv, Saying, ownerVars, threadVars, terminal
<1>6. TimersInv'
  BY <1>1, TimersStay, EntriesTyped DEF LInv, LiveTyped, InCall, ownerVars, threadVars
<1>7. LogInv'
  BY <1>1, LogStays DEF LInv, Numbered, Sending, threadVars
<1> QED
  BY <1>2, <1>3, <1>4, <1>5, <1>6, <1>7 DEF LInv

-----------------------------------------------------------------------------
(* The theorems.                                                           *)

\* At the start nobody has handed over, begun or logged anything.
LEMMA InitLInv ==
  ASSUME Init
  PROVE  LInv
<1>1. /\ tty \in BOOLEAN /\ attached \in BOOLEAN
      /\ owner = "select" /\ handling = [from |-> Main, cmd |-> None]
      /\ order = <<>> /\ nextID = 0 /\ bar = Blank
      /\ screen = [w \in Writers |-> <<>>]
      /\ pc = [t \in Threads |-> IF t = Main THEN "start" ELSE "idle"]
      /\ want = [t \in Threads |-> NoSend]
      /\ reply = [t \in Threads |-> NoID] /\ id = [t \in Threads |-> NoID]
      /\ said = [t \in Threads |-> 0] /\ calls = [t \in Threads |-> 0]
      /\ seq = 0 /\ mySeq = [t \in Threads |-> 0] /\ records = {}
      /\ due = [t \in Threads |-> 0]
  BY LiveAssumption DEF Init, NoID
<1>2. LiveTyped
  <2>1. OwnerTyped
    BY <1>1, WhoIsWho DEF OwnerTyped
  <2>2. ScreenTyped
    BY <1>1 DEF ScreenTyped, Lines
  <2>3. ThreadsTyped
    BY <1>1 DEF ThreadsTyped, Places, NoID
  <2> QED
    BY <2>1, <2>2, <2>3 DEF LiveTyped
<1>3. MainPlace /\ Closing /\ \A c \in Callers : CallerPlace(c)
  BY <1>1, WhoIsWho DEF MainPlace, Closing, CallerPlace, Handled, Serving
<1>4. BarShows
  BY <1>1 DEF BarShows, statusText, Blank
<1>5. LinesInv
  <2>1. \A t \in Threads : /\ screen[t] = <<>> /\ ~ Handled(t, "emit") /\ ~ Saying(t)
                           /\ said[t] = 0 /\ due[t] = 0
    BY <1>1, WhoIsWho DEF Handled, Saying
  <2>2. \A t \in Threads : OnItsWay(t) = 0 /\ Len(screen[t]) = 0 /\ DOMAIN screen[t] = {}
    BY <2>1 DEF OnItsWay
  <2> QED
    BY <2>1, <2>2 DEF LinesInv
<1>6. TimersInv
  BY <1>1, WhoIsWho DEF TimersInv, Distinct, CallInv, HasTimer, InCall, Handled
<1>7. LogInv
  BY <1>1, WhoIsWho DEF LogInv, Numbered, Sending
<1> QED
  BY <1>2, <1>3, <1>4, <1>5, <1>6, <1>7 DEF LInv

\* Every step keeps the invariant.
LEMMA NextKeepsLInv ==
  ASSUME LInv, [Next]_vars
  PROVE  LInv'
<1>1. CASE OwnerStep
  BY <1>1, HandleKeepsLInv, StoppingKeepsLInv DEF OwnerStep
<1>2. CASE Tick
  BY <1>2, TickKeepsLInv
<1>3. ASSUME NEW t \in Threads, Continue(t) PROVE LInv'
  <2>1. ASSUME t \in Callers, EndCall(t) PROVE LInv'
    BY <2>1, EndTimedKeepsLInv, EndUntimedKeepsLInv
  <2> QED
    BY <1>3, <2>1, ReceiveKeepsLInv, AbandonKeepsLInv, BegunKeepsLInv, PersistFailsKeepsLInv,
       LogCallKeepsLInv, AfterStopKeepsLInv, PhaseKeepsLInv DEF Continue
<1>4. ASSUME NEW c \in Callers, Say(c) \/ StartCall(c) PROVE LInv'
  BY <1>4, SayKeepsLInv, StartCallKeepsLInv
<1>5. CASE Stop \/ PrintSummary
  BY <1>5, StopKeepsLInv, AfterStopKeepsLInv
<1>6. CASE UNCHANGED vars
  BY <1>6, StutterKeepsLInv
<1> QED
  BY <1>1, <1>2, <1>3, <1>4, <1>5, <1>6 DEF Next

\* The invariant.
THEOREM LiveInductive == Spec => []LInv
<1>1. Init => LInv
  BY InitLInv
<1>2. LInv /\ [Next]_vars => LInv'
  BY NextKeepsLInv
<1> QED
  BY <1>1, <1>2, PTL DEF Spec

\* Whatever else is on the screen, progress, heartbeats and the summary start on a clean
\* line; only a record of the log on a terminal may stand behind the bar, as its handler
\* writes to stderr.  Every thread's lines are there in order, and what it had handed
\* over when Close was called is there when Close has returned (live.go, progress.go).
THEOREM ScreenReadable == Spec => []Readable
<1>1. LInv => Readable
  <2> SUFFICES ASSUME LInv PROVE Readable
    OBVIOUS
  <2>1. ASSUME NEW w \in Writers, NEW i \in DOMAIN screen[w]
        PROVE  screen[w][i].on = "clean" \/ (w = "log" /\ tty)
    <3> DEFINE T == [text : IF w = "region" THEN Seq(Callers) ELSE Nat,
                     on   : IF w = "log" /\ tty THEN {"clean", "bar"} ELSE {"clean"}]
    <3>1. screen[w] \in Seq(T)
      BY DEF LInv, LiveTyped, ScreenTyped, Lines
    <3> HIDE DEF T
    <3>2. screen[w][i] \in T
      BY <3>1
    <3> QED
      BY <3>2 DEF T
  <2>2. ASSUME NEW t \in Threads
        PROVE  /\ \A i \in DOMAIN screen[t] : screen[t][i].text = i
               /\ pc[Main] \in {"closed", "printed", "exit"} => Len(screen[t]) >= due[t]
    <3>1. /\ \A i \in DOMAIN screen[t] : screen[t][i].text = i
          /\ due[t] <= Len(screen[t]) + OnItsWay(t)
      BY DEF LInv, LinesInv
    <3>2. Len(screen[t]) \in Nat /\ due[t] \in Nat
      BY WhoIsWho DEF LInv, LiveTyped, ScreenTyped, ThreadsTyped, Lines
    <3>3. pc[Main] \in {"closed", "printed", "exit"} => OnItsWay(t) = 0
      BY DEF LInv, Closing, OnItsWay, Handled
    <3> QED
      BY <3>1, <3>2, <3>3
  <2> QED
    BY <2>1, <2>2 DEF Readable, Untangled, LinesKept
<1> QED
  BY <1>1, LiveInductive, PTL

\* No timer outlives its call and none is missing while the owner waits: the entries
\* are the calls now running, and the line of a terminal shows these, or nothing once a
\* record of the log has ended it (live.go, invocation.go).
THEOREM TimersAreCalls == Spec => []TimersShowCalls
<1>1. LInv => TimersShowCalls
  <2> SUFFICES ASSUME LInv, owner = "select"
               PROVE  /\ {order[i].role : i \in DOMAIN order} = {c \in Callers : InCall(c)}
                      /\ Len(order) = Cardinality({c \in Callers : InCall(c)})
                      /\ \/ bar = IF tty THEN statusText(order, phase) ELSE Blank
                         \/ bar = Blank /\ screen["log"] # <<>>
    BY DEF TimersShowCalls
  <2>1. Serving /\ \A u, k : ~ Handled(u, k)
    BY DEF Serving, Handled
  <2>2. \A c \in Callers : HasTimer(c) <=> InCall(c)
    BY <2>1 DEF HasTimer
  <2>3. \A i \in DOMAIN order : order[i].role \in Callers
    BY EntriesTyped DEF LInv, LiveTyped
  <2> DEFINE inCall == {c \in Callers : InCall(c)}
             entryOf == [i \in DOMAIN order |-> order[i].role]
  <2>4. {order[i].role : i \in DOMAIN order} = inCall
    BY <2>1, <2>2, <2>3 DEF LInv, TimersInv
  <2>5. Len(order) = Cardinality(inCall)
    <3>1. entryOf \in Bijection(DOMAIN order, inCall)
      <4>1. entryOf \in Injection(DOMAIN order, inCall)
        BY <2>4 DEF LInv, TimersInv, Distinct, Injection, IsInjective
      <4>2. entryOf \in Surjection(DOMAIN order, inCall)
        BY <2>4 DEF Surjection
      <4> QED
        BY <4>1, <4>2 DEF Bijection
    <3>2. DOMAIN order = 1..Len(order) /\ Len(order) \in Nat
      BY DEF LInv, LiveTyped, OwnerTyped
    <3>3. IsFiniteSet(1..Len(order)) /\ Cardinality(1..Len(order)) = Len(order)
      <4>1. Cardinality(1..Len(order)) = IF 1 > Len(order) THEN 0 ELSE Len(order) - 1 + 1
        BY <3>2, FS_Interval
      <4>2. IsFiniteSet(1..Len(order))
        BY <3>2, FS_Interval
      <4> QED
        BY <3>2, <4>1, <4>2
    <3>4. ExistsBijection(1..Len(order), inCall)
      BY <3>1, <3>2 DEF ExistsBijection
    <3> QED
      BY <3>2, <3>3, <3>4, FS_Bijection
  <2> QED
    BY <2>1, <2>4, <2>5 DEF LInv, BarShows
<1> QED
  BY <1>1, LiveInductive, PTL

\* The file a log record points to holds the output of that record's own call
\* (invocation.go).
THEOREM PointersAreOwn == Spec => []PointerIsOwn
<1>1. LInv => PointerIsOwn
  BY DEF LInv, LogInv, PointerIsOwn
<1> QED
  BY <1>1, LiveInductive, PTL
=============================================================================
