---------------------------- MODULE UpdateProofs ----------------------------
(***************************************************************************)
(* Theorems about Update, for any units, attempts, updates, crashes and    *)
(* rows the run log is too busy for.  The inductive invariant is in two    *)
(* parts: which attempts the runs of a process hold, and what the run log  *)
(* says of the sessions that wait to be taken up.                          *)
(***************************************************************************)
EXTENDS Update, SequenceTheorems, FiniteSetTheorems, TLAPS

-----------------------------------------------------------------------------
(* An Apply that has begun.                                                *)

\* Once an Apply has begun, nothing it would wait for is under way: an integration begins and takes
\* its road while the updater is idle only.
THEOREM TrialsAreForSomething == Spec => []TrialIsNotForNothing
<1> USE DEF TrialIsNotForNothing, Waited, rows, flows, updater, gates, resume, bounds
<1>1. Init => TrialIsNotForNothing
  BY DEF Init
<1>2. TrialIsNotForNothing /\ [Next]_vars => TrialIsNotForNothing'
  <2> SUFFICES ASSUME TrialIsNotForNothing, [Next]_vars PROVE TrialIsNotForNothing'
    OBVIOUS
  <2>1. CASE UNCHANGED <<upd, mech>>
    BY <2>1
  <2>2. ASSUME NEW u \in Units, Begin(u) PROVE UNCHANGED <<upd, mech>>
    BY <2>2 DEF Begin
  <2>3. ASSUME NEW i \in Ids, RunTurn(i) \/ Stop(i) PROVE UNCHANGED <<upd, mech>>
    BY <2>3 DEF RunTurn, Stop, StartRow, OpenStream, Reply, Closed, Seal, EndRow, Over, Suspends, GoesDown,
                StoppedEarly, StopLands
  <2>4. CASE MechBegins \/ Roads \/ Escalates \/ MechEnds
    BY <2>4 DEF MechBegins, Roads, RoadDecided, Escalates, MechEnds
  <2>5. CASE Press \/ Cancel \/ MaybeApply(TRUE) \/ MaybeApply(FALSE) \/ Fails \/ TrialBegins \/ ShutsDown
    BY <2>5 DEF Press, Cancel, MaybeApply, Fails, TrialBegins, ShutsDown, Goes
  <2>6. CASE SuspendAll \/ \E lost \in SUBSET captured : SuspendRows(lost)
    BY <2>6 DEF SuspendAll, SuspendRows
  <2>7. CASE HandOff \/ HandOffFails \/ Crash
    BY <2>7 DEF HandOff, HandOffFails, Crash, Forgotten
  <2>8. CASE StartsAgain
    BY <2>1, <2>8 DEF StartsAgain, Boots, ResumeReads, ResumeBusy, ResumeRow, TakesUp, TakeUpRaises, ResumeEnds, Write
  <2> QED
    BY <2>1, <2>2, <2>3, <2>4, <2>5, <2>6, <2>7, <2>8 DEF Next, Turns, Applies, vars
<1> QED
  BY <1>1, <1>2, PTL DEF Spec

-----------------------------------------------------------------------------
(* The attempts and who works on them.                                     *)

\* b are the rows a after some of them moved or were told to stop.
Later(a, b) ==
  /\ b \in [Ids -> Row]
  /\ \A i \in Ids : /\ b[i].unit = a[i].unit
                    /\ b[i].state \in Unfinished => a[i].state \in Unfinished
                    /\ b[i].state = "none" <=> a[i].state = "none"

\* What works on an attempt holds it.
RunsHold(a, r) == \A i \in Ids : r[i] # "none" => a[i].state \in HOLDING

\* No unit has two attempts that are not over.
OneLive(a) ==
  \A i, j \in Ids :
    a[i].state \in Unfinished /\ a[j].state \in Unfinished /\ a[i].unit = a[j].unit => i = j

\* Nobody works in a process that is down; rows are taken up while it goes through them only, one at
\* a time, and what is to be taken up next can be.
Phases ==
  /\ boot = "down" => \A i \in Ids : run[i] = "none"
  /\ boot # "resuming" => todo = {} /\ taking = {}
  /\ \A row \in todo \cup taking : row.unit \in Units
  /\ \A row \in taking : taking = {row} /\ ~Unadoptable(row.unit)
  /\ captured # {} => upd = "suspending"

AttTypes == att \in [Ids -> Row] /\ run \in [Ids -> Runs]

AttInv == AttTypes /\ RunsHold(att, run) /\ OneLive(att) /\ Phases

\* A move of one attempt, which is over or still held.
LEMMA MovedLater ==
  ASSUME NEW a \in [Ids -> Row], NEW i \in Ids, NEW to \in {"ending", "ended"}, NEW outcome \in Outcomes
  PROVE  /\ Later(a, Moved(a, i, to, outcome))
         /\ \A j \in Ids \ {i} : Moved(a, i, to, outcome)[j] = a[j]
         /\ to = "ending" /\ a[i].state \in HOLDING => Moved(a, i, to, outcome)[i].state \in HOLDING
<1>1. a[i] \in Row /\ a[i].machine \in Machines /\ a[i].unit \in Units \cup {NoUnit} /\ a[i].stop \in BOOLEAN
  BY DEF Row
<1>2. CASE ~MayMove(a, i, to)
  BY <1>2 DEF Moved, Later
<1>3. CASE MayMove(a, i, to)
  <2> DEFINE r == [a[i] EXCEPT !.state = to, !.outcome = IF to \in ENDS THEN outcome ELSE ""]
  <2>1. Moved(a, i, to, outcome) = [a EXCEPT ![i] = r]
    BY <1>3 DEF Moved
  <2>2. a[i].state \in {"queued", "preparing", "running", "ending"}
    BY <1>1, <1>3 DEF MayMove, MACHINES, Machines
  <2>3. a[i].unit # NoUnit
    BY <1>1, <2>2 DEF Row
  <2>a. r.unit = a[i].unit /\ r.state = to /\ r.machine = a[i].machine /\ r.stop = a[i].stop
        /\ r.outcome = (IF to \in ENDS THEN outcome ELSE "")
    BY <1>1 DEF Row
  <2>b. (IF to \in ENDS THEN outcome ELSE "") \in Outcomes /\ to \in {"none"} \cup Unfinished \cup ENDS
    BY DEF Outcomes, Unfinished, HOLDING, ENDS
  <2>4. r \in Row
    BY <1>1, <2>3, <2>b DEF Row
  <2> HIDE DEF r
  <2> QED
    BY <2>1, <2>2, <2>4, <2>a DEF Later, Unfinished, HOLDING
<1> QED
  BY <1>2, <1>3

\* Rows that moved are held by who holds them, and no two of a unit are live.
LEMMA LaterLive ==
  ASSUME NEW a, NEW b, Later(a, b), OneLive(a)
  PROVE  OneLive(b)
BY DEF Later, OneLive

\* Where no run and no row of a resume is touched but by moves of attempts that are not held after.
LEMMA LaterKeeps ==
  ASSUME AttInv, Later(att, att'), RunsHold(att', run'), run' \in [Ids -> Runs],
         boot # "resuming", todo' = todo, taking' = taking, boot' = "down" => \A i \in Ids : run'[i] = "none",
         captured' # {} => upd' = "suspending"
  PROVE  AttInv'
<1>1. AttTypes'
  BY DEF Later, AttTypes
<1>2. OneLive(att')
  BY LaterLive DEF AttInv
<1>3. Phases'
  BY DEF AttInv, Phases
<1> QED
  BY <1>1, <1>2, <1>3 DEF AttInv

\* A Stop, a recovery and what nobody claimed leave rows that moved.
LEMMA StopLater ==
  ASSUME NEW a \in [Ids -> Row], NEW i \in Ids, a[i].state \in HOLDING
  PROVE  /\ Later(a, StopAsked(a, i)) /\ \A j \in Ids : StopAsked(a, i)[j].state = a[j].state
<1> DEFINE r == [a[i] EXCEPT !.stop = TRUE]
<1>1. r \in Row /\ r.unit = a[i].unit /\ r.state = a[i].state
  BY DEF Row
<1>2. StopAsked(a, i) = [a EXCEPT ![i] = r]
  BY DEF StopAsked
<1> HIDE DEF r
<1> QED
  BY <1>1, <1>2 DEF Later

\* Recovery at a start only ends attempts or puts them back to be claimed; none comes back to life.
LEMMA RecoveredLater ==
  ASSUME AttTypes
  PROVE  Later(att, Recovered) /\ Later(att, Claimed)
         /\ \A i \in Ids : run[i] # "none" => Claimed[i] = att[i]
<1>1. ASSUME NEW i \in Ids, NEW outcome \in {"stopped", "interrupted"}
      PROVE  LET r == Moved(att, i, "ended", outcome)[i]
             IN /\ r \in Row /\ r.unit = att[i].unit
                /\ r.state \in Unfinished => att[i].state \in Unfinished
                /\ r.state = "none" <=> att[i].state = "none"
  <2>1. outcome \in Outcomes
    BY DEF Outcomes
  <2> QED
    BY <2>1, MovedLater DEF AttTypes, Later
<1>2. \A i \in Ids : att[i] \in Row
  BY DEF AttTypes
<1>3. Later(att, Recovered)
  <2>1. \A i \in Ids : \/ Recovered[i] = att[i]
                       \/ Recovered[i] = Moved(att, i, "ended", "stopped")[i]
                       \/ Recovered[i] = Moved(att, i, "ended", "interrupted")[i]
    BY DEF Recovered
  <2>2. Recovered = [i \in Ids |-> Recovered[i]]
    BY DEF Recovered
  <2> QED
    BY <1>1, <1>2, <2>1, <2>2 DEF Later
<1>4. Later(att, Claimed) /\ \A i \in Ids : run[i] # "none" => Claimed[i] = att[i]
  <2>1. \A i \in Ids : \/ Claimed[i] = att[i]
                       \/ run[i] = "none" /\ Claimed[i] = Moved(att, i, "ended", "interrupted")[i]
    BY DEF Claimed
  <2>2. Claimed = [i \in Ids |-> Claimed[i]]
    BY DEF Claimed
  <2> QED
    BY <1>1, <1>2, <2>1, <2>2 DEF Later
<1> QED
  BY <1>3, <1>4

\* A new attempt, of a unit that has none that is not over.
LEMMA OpenedLive ==
  ASSUME NEW a \in [Ids -> Row], NEW u \in Units, NEW i \in Ids, IsNextId(a, i), MayOpen(a, u), OneLive(a)
  PROVE  LET b == Opened(a, i, "step", u, "running")
         IN /\ b \in [Ids -> Row] /\ OneLive(b)
            /\ b[i].unit = u /\ b[i].state = "running" /\ a[i].state = "none"
            /\ \A j \in Ids \ {i} : b[j] = a[j]
<1> DEFINE r == [machine |-> "step", unit |-> u, state |-> "running", outcome |-> "", stop |-> FALSE]
           b == [a EXCEPT ![i] = r]
<1>1. r \in Row
  BY StoreAssumption DEF Row, Machines, Unfinished, HOLDING, Outcomes
<1>2. /\ b \in [Ids -> Row] /\ b[i].unit = u /\ b[i].state = "running" /\ a[i].state = "none"
      /\ \A j \in Ids \ {i} : b[j] = a[j]
  BY <1>1 DEF IsNextId
<1>3. \A j \in Ids : ~(a[j].unit = u /\ a[j].state \in Unfinished)
  BY DEF MayOpen, Live
<1> HIDE DEF b
<1>4. OneLive(b)
  BY <1>2, <1>3 DEF OneLive
<1> QED
  BY <1>2, <1>4 DEF b, Opened

\* A turn of a run that leaves its row: the run goes on, or is over.
LEMMA RunMovesOn ==
  ASSUME AttInv, NEW i \in Ids, NEW r \in Runs, run[i] # "none", run' = [run EXCEPT ![i] = r],
         \/ att' = att
         \/ att' = Moved(att, i, "ending", "")
         \/ r = "none" /\ \E outcome \in Outcomes : att' = Moved(att, i, "ended", outcome),
         boot # "resuming", UNCHANGED <<todo, taking, boot, captured, upd>>
  PROVE  AttInv' /\ Later(att, att')
<1>1. att \in [Ids -> Row] /\ run \in [Ids -> Runs] /\ att[i].state \in HOLDING /\ "" \in Outcomes
  BY DEF AttInv, AttTypes, RunsHold, Outcomes
<1>2. CASE att' = att
  <2>1. Later(att, att')
    BY <1>1, <1>2 DEF Later
  <2>2. RunsHold(att', run')
    BY <1>1, <1>2 DEF AttInv, RunsHold
  <2> QED
    BY <1>1, <2>1, <2>2, LaterKeeps DEF AttInv, Phases
<1>3. CASE att' = Moved(att, i, "ending", "")
  <2>1. Later(att, att') /\ att'[i].state \in HOLDING /\ \A j \in Ids \ {i} : att'[j] = att[j]
    BY <1>1, <1>3, MovedLater
  <2>2. RunsHold(att', run')
    BY <1>1, <2>1 DEF AttInv, RunsHold
  <2> QED
    BY <1>1, <2>1, <2>2, LaterKeeps DEF AttInv, Phases
<1>4. ASSUME NEW outcome \in Outcomes, r = "none", att' = Moved(att, i, "ended", outcome)
      PROVE  AttInv' /\ Later(att, att')
  <2>1. Later(att, att') /\ \A j \in Ids \ {i} : att'[j] = att[j]
    BY <1>1, <1>4, MovedLater
  <2>2. RunsHold(att', run')
    BY <1>1, <1>4, <2>1 DEF AttInv, RunsHold
  <2> QED
    BY <1>1, <2>1, <2>2, LaterKeeps DEF AttInv, Phases
<1> QED
  BY <1>2, <1>3, <1>4

\* What a run does in its turn, told by its run and its row alone.
LEMMA RunTurns ==
  ASSUME AttTypes, NEW i \in Ids, RunTurn(i)
  PROVE  /\ run[i] # "none" /\ UNCHANGED <<sid, todo, taking, takes, boot, captured, upd>>
         /\ \E r \in Runs : /\ run' = [run EXCEPT ![i] = r]
                            /\ \/ att' = att
                               \/ att' = Moved(att, i, "ending", "")
                               \/ r = "none" /\ \E outcome \in Outcomes : att' = Moved(att, i, "ended", outcome)
         /\ \/ log' = log
            \/ \E kind \in {"start", "end"} : log' = [log EXCEPT ![att[i].unit] = Append(@, Entry(kind, sid[i], 0))]
<1> USE DEF rows, flows, updater, gates, resume, bounds, Runs, Outcomes, TaskOver, SetRun, Turn
<1>1. CASE StartRow(i) \/ OpenStream(i) \/ Reply(i) \/ Closed(i) \/ EndRow(i) \/ StopLands(i)
  BY <1>1 DEF StartRow, OpenStream, Reply, Closed, EndRow, StopLands, Write
<1>2. CASE \E repair \in BOOLEAN : Seal(i, repair)
  <2>1. \/ run' = [run EXCEPT ![i] = "streaming"]
        \/ run' = run /\ run[i] = "concluding"
    BY <1>2 DEF Seal
  <2>2. \E r \in Runs : run' = [run EXCEPT ![i] = r]
    <3>1. CASE run' = [run EXCEPT ![i] = "streaming"]
      BY <3>1
    <3>2. CASE run' = run /\ run[i] = "concluding"
      <4>1. run' = [run EXCEPT ![i] = "concluding"]
        BY <3>2 DEF AttTypes
      <4> QED
        BY <4>1
    <3> QED
      BY <2>1, <3>1, <3>2
  <2> QED
    BY <1>2, <2>2 DEF Seal
<1>3. CASE Over(i)
  <2> DEFINE outcome == CASE att[i].state = "running" -> "stopped" [] att[i].stop -> "stop_late" [] OTHER -> "done"
  <2>1. outcome \in Outcomes
    OBVIOUS
  <2>2. att' = Moved(att, i, "ended", outcome)
    BY <1>3 DEF Over
  <2> HIDE DEF outcome
  <2>3. /\ run[i] # "none" /\ run' = [run EXCEPT ![i] = "none"]
        /\ UNCHANGED <<sid, todo, taking, takes, boot, captured, upd, log>>
    BY <1>3 DEF Over
  <2> QED
    BY <2>1, <2>2, <2>3
<1>4. CASE Suspends(i) \/ GoesDown(i)
  BY <1>4 DEF Suspends, GoesDown
<1>5. CASE StoppedEarly(i)
  BY <1>5 DEF StoppedEarly, Told
<1> QED
  BY <1>1, <1>2, <1>3, <1>4, <1>5 DEF RunTurn

\* An attempt that is there stays, and stays of its unit.
Stays == \A i \in Ids : att[i].state # "none" => att'[i].state # "none" /\ att'[i].unit = att[i].unit

\* The attempt opened is the next id's, of a unit that has none that is not over.
Opens(i) == /\ IsNextId(att, i) /\ att'[i].unit \in Units /\ MayOpen(att, att'[i].unit)
            /\ att'[i].state \in Unfinished
            /\ \A j \in Ids \ {i} : att'[j] = att[j]

MovesOrOpens == Later(att, att') \/ \E i \in Ids : Opens(i)

\* A process that is gone leaves no run, and no row to take up.
LEMMA ForgottenKeeps ==
  ASSUME AttInv, Forgotten, UNCHANGED att, boot' = "down"
  PROVE  AttInv'
<1>1. AttTypes'
  BY DEF Forgotten, Runs, AttInv, AttTypes
<1>2. RunsHold(att', run')
  BY DEF Forgotten, RunsHold
<1>3. Phases'
  BY DEF Forgotten, Phases
<1> QED
  BY <1>1, <1>2, <1>3 DEF AttInv

\* Every step keeps what is said of the rows of attempts, and moves attempts or opens one.
LEMMA AttMoves == AttInv /\ [Next]_vars => AttInv' /\ MovesOrOpens
<1> SUFFICES ASSUME AttInv, [Next]_vars PROVE AttInv' /\ MovesOrOpens
  OBVIOUS
<1> USE DEF rows, flows, updater, gates, resume, bounds
<1>0. att \in [Ids -> Row] /\ run \in [Ids -> Runs] /\ Later(att, att) /\ Phases /\ RunsHold(att, run)
  BY DEF AttInv, AttTypes, Later
<1>1. ASSUME Later(att, att') PROVE MovesOrOpens
  BY <1>1 DEF MovesOrOpens
\* Nothing of the attempts, of their runs or of the rows taken up is touched.
<1>2. ASSUME UNCHANGED <<att, run, boot, todo, taking>>, captured' # {} => upd' = "suspending"
      PROVE  AttInv' /\ MovesOrOpens
  BY <1>0, <1>1, <1>2 DEF AttInv, AttTypes, Phases, RunsHold, OneLive, Unadoptable, MayOpen, Live, LeftRunning
<1>3. ASSUME NEW u \in Units, Begin(u), boot # "resuming" PROVE AttInv' /\ MovesOrOpens
  <2>1. PICK i \in Ids : /\ IsNextId(att, i) /\ MayOpen(att, u)
                         /\ att' = Opened(att, i, "step", u, "running") /\ run' = [run EXCEPT ![i] = "opening"]
    BY <1>3 DEF Begin, SetRun
  <2>2. /\ att' \in [Ids -> Row] /\ OneLive(att') /\ att'[i].state = "running" /\ att'[i].unit = u
        /\ \A j \in Ids \ {i} : att'[j] = att[j]
    BY <1>0, <2>1, OpenedLive DEF AttInv
  <2>3. AttTypes' /\ RunsHold(att', run')
    BY <1>0, <2>1, <2>2 DEF AttTypes, RunsHold, Runs, HOLDING
  <2>4. Phases'
    BY <1>0, <1>3 DEF Begin, Serving, Phases
  <2> QED
    BY <2>1, <2>2, <2>3, <2>4 DEF AttInv, MovesOrOpens, Opens, Unfinished, HOLDING
<1>4. ASSUME NEW i \in Ids, RunTurn(i), boot # "resuming" PROVE AttInv' /\ MovesOrOpens
  <2>1. AttInv' /\ Later(att, att')
    BY <1>0, <1>4, RunTurns, RunMovesOn DEF AttInv
  <2> QED
    BY <1>1, <2>1
<1>5. ASSUME NEW i \in Ids, Stop(i), boot # "resuming" PROVE AttInv' /\ MovesOrOpens
  <2>1. Later(att, att') /\ \A j \in Ids : att'[j].state = att[j].state
    BY <1>0, <1>5, StopLater DEF Stop
  <2>2. RunsHold(att', run') /\ run' \in [Ids -> Runs]
    BY <1>0, <1>5, <2>1 DEF Stop, RunsHold
  <2>3. UNCHANGED <<run, boot, todo, taking, captured, upd>>
    BY <1>5 DEF Stop
  <2> QED
    BY <1>0, <1>1, <1>5, <2>1, <2>2, <2>3, LaterKeeps DEF Phases
<1>6. CASE MechBegins \/ Roads \/ Escalates \/ MechEnds
  BY <1>0, <1>2, <1>6 DEF MechBegins, Roads, RoadDecided, Escalates, MechEnds, Phases
<1>7. CASE Press \/ Cancel \/ MaybeApply(TRUE) \/ MaybeApply(FALSE) \/ Fails \/ TrialBegins
  BY <1>0, <1>2, <1>7 DEF Press, Cancel, MaybeApply, Fails, TrialBegins, Goes, Phases
<1>8. CASE SuspendAll \/ ShutsDown \/ \E lost \in SUBSET captured : SuspendRows(lost)
  BY <1>0, <1>2, <1>8 DEF SuspendAll, ShutsDown, SuspendRows, Phases
<1>9. CASE HandOff \/ Crash
  BY <1>0, <1>1, <1>9, ForgottenKeeps DEF HandOff, Crash
<1>10. CASE HandOffFails /\ boot # "resuming"
  <2>1. /\ att' = Recovered /\ UNCHANGED <<run, todo, taking, captured>> /\ boot' = "recovering" /\ upd = "down"
        /\ \A i \in Ids : run[i] = "none"
    BY <1>10 DEF HandOffFails, HandedOver
  <2>2. Later(att, att')
    BY <2>1, RecoveredLater DEF AttInv
  <2> QED
    BY <1>0, <1>1, <1>10, <2>1, <2>2, LaterKeeps DEF Phases, RunsHold
<1>11. CASE Boots
  <2>1. /\ att' = Recovered /\ UNCHANGED <<run, todo, taking, captured, upd>> /\ boot' = "recovering" /\ boot = "down"
    BY <1>11 DEF Boots
  <2>2. Later(att, att')
    BY <2>1, RecoveredLater DEF AttInv
  <2> QED
    BY <1>0, <1>1, <2>1, <2>2, LaterKeeps DEF Phases, RunsHold
<1>12. ASSUME NEW read \in BOOLEAN, ResumeReads(read) PROVE AttInv' /\ MovesOrOpens
  <2>1. UNCHANGED <<att, run, taking, captured, upd>> /\ boot = "recovering" /\ boot' = "resuming"
    BY <1>12 DEF ResumeReads
  <2>2. \A row \in todo' : row.unit \in Units
    <3>1. ASSUME NEW row \in UNION {{[unit |-> u, pos |-> p, gone |-> MovedOn(u, p)] : p \in Unresumed(u)} : u \in Units}
          PROVE  row.unit \in Units
      OBVIOUS
    <3> QED
      BY <1>12, <3>1 DEF ResumeReads
  <2> QED
    BY <1>0, <1>1, <2>1, <2>2 DEF AttInv, AttTypes, Phases
<1>13. ASSUME NEW row \in todo, ResumeBusy(row) PROVE AttInv' /\ MovesOrOpens
  BY <1>0, <1>1, <1>13 DEF ResumeBusy, IsNextRow, AttInv, AttTypes, Phases
<1>14. ASSUME NEW row \in todo, NEW unfit \in BOOLEAN, ResumeRow(row, unfit) PROVE AttInv' /\ MovesOrOpens
  <2>0. /\ UNCHANGED <<att, run, boot, captured, upd>> /\ todo' = todo \ {row}
        /\ taking' = IF unfit \/ row.gone \/ Unadoptable(row.unit) THEN {} ELSE {row}
    BY <1>14 DEF ResumeRow
  <2>1. taking' = {} \/ (taking' = {row} /\ ~Unadoptable(row.unit))
    BY <2>0
  <2>2. Unadoptable(row.unit)' <=> Unadoptable(row.unit)
    BY <2>0 DEF Unadoptable, MayOpen, Live, LeftRunning
  <2>4. boot = "resuming" /\ boot' # "down"
    BY <1>0, <2>0 DEF Phases
  <2>3. Phases'
    BY <1>0, <2>0, <2>1, <2>2, <2>4 DEF Phases
  <2> QED
    BY <1>0, <1>1, <2>0, <2>3 DEF AttInv, AttTypes
<1>15. ASSUME NEW row \in taking, TakesUp(row) PROVE AttInv' /\ MovesOrOpens
  <2>1. PICK i \in Ids : /\ IF LeftRunning(row.unit) # {} THEN i \in LeftRunning(row.unit) /\ UNCHANGED att
                            ELSE IsNextId(att, i) /\ att' = Opened(att, i, "step", row.unit, "running")
                         /\ run' = [run EXCEPT ![i] = "opened"]
    BY <1>15 DEF TakesUp, SetRun
  <2>2. boot = "resuming" /\ UNCHANGED <<todo, boot, captured, upd>> /\ taking' = {} /\ row.unit \in Units
    BY <1>0, <1>15 DEF TakesUp, Phases
  <2>3. Phases'
    BY <1>0, <2>2 DEF Phases
  <2>4. CASE LeftRunning(row.unit) # {}
    <3>1. RunsHold(att', run') /\ run' \in [Ids -> Runs] /\ UNCHANGED att
      BY <1>0, <2>1, <2>4 DEF RunsHold, LeftRunning, HOLDING, Runs
    <3> QED
      BY <1>0, <1>1, <2>3, <3>1 DEF AttInv, AttTypes
  <2>5. CASE LeftRunning(row.unit) = {}
    <3>1. MayOpen(att, row.unit)
      BY <1>0, <2>5 DEF Phases, Unadoptable
    <3>2. /\ att' \in [Ids -> Row] /\ OneLive(att') /\ att'[i].state = "running" /\ att'[i].unit = row.unit
          /\ \A j \in Ids \ {i} : att'[j] = att[j]
      BY <1>0, <2>1, <2>2, <2>5, <3>1, OpenedLive DEF AttInv
    <3>3. AttTypes' /\ RunsHold(att', run')
      BY <1>0, <2>1, <3>2 DEF AttTypes, RunsHold, Runs, HOLDING
    <3> QED
      BY <2>1, <2>2, <2>3, <2>5, <3>1, <3>2, <3>3 DEF AttInv, MovesOrOpens, Opens, Unfinished, HOLDING
  <2> QED
    BY <2>4, <2>5
<1>16. ASSUME NEW row \in taking, TakeUpRaises(row) PROVE AttInv' /\ MovesOrOpens
  BY <1>0, <1>1, <1>16 DEF TakeUpRaises, AttInv, AttTypes, Phases
<1>17. CASE ResumeEnds
  <2>1. att' = Claimed /\ todo = {} /\ taking = {} /\ boot' = "up" /\ UNCHANGED <<run, todo, taking, captured, upd>>
    BY <1>17 DEF ResumeEnds
  <2>2. Later(att, att') /\ \A i \in Ids : run[i] # "none" => att'[i] = att[i]
    BY <2>1, RecoveredLater DEF AttInv
  <2>3. RunsHold(att', run') /\ OneLive(att')
    BY <1>0, <2>1, <2>2, LaterLive DEF RunsHold, AttInv
  <2> QED
    BY <1>0, <1>1, <2>1, <2>2, <2>3 DEF AttInv, AttTypes, Phases, Later
<1>18. CASE UNCHANGED vars
  BY <1>0, <1>2, <1>18 DEF vars, Phases
<1> QED
  BY <1>3, <1>4, <1>5, <1>6, <1>7, <1>8, <1>9, <1>10, <1>11, <1>12, <1>13, <1>14, <1>15, <1>16, <1>17, <1>18
     DEF Next, Turns, Applies, StartsAgain

\* So no attempt goes away or changes its unit.
LEMMA AttStep == AttInv /\ [Next]_vars => AttInv' /\ Stays
<1>1. MovesOrOpens => Stays
  BY DEF MovesOrOpens, Later, Opens, IsNextId, Stays
<1> QED
  BY <1>1, AttMoves

\* Nobody works at first.
LEMMA AttBegins == Init => AttInv
<1> SUFFICES ASSUME Init PROVE AttInv
  OBVIOUS
<1>1. NoRow \in Row /\ NoRow.state \notin Unfinished
  BY DEF NoRow, Row, Machines, Outcomes, Unfinished, HOLDING
<1>2. /\ att = [i \in Ids |-> NoRow] /\ run = [i \in Ids |-> "none"]
      /\ boot = "up" /\ todo = {} /\ taking = {} /\ captured = {}
  BY DEF Init
<1>3. AttTypes
  BY <1>1, <1>2 DEF AttTypes, Runs
<1>4. RunsHold(att, run) /\ OneLive(att)
  BY <1>1, <1>2 DEF RunsHold, OneLive
<1>5. Phases
  BY <1>2 DEF Phases
<1> QED
  BY <1>3, <1>4, <1>5 DEF AttInv

\* In any behaviour of Update no two runs work on one unit at once: what takes a session up has
\* asked whether the unit is held, and nothing comes between.
THEOREM RunsAreOnePerUnit == Spec => []OneRunPerUnit
<1>1. AttInv => OneRunPerUnit
  BY DEF AttInv, RunsHold, OneLive, OneRunPerUnit, Unfinished
<1> QED
  BY <1>1, AttBegins, AttStep, PTL DEF Spec

-----------------------------------------------------------------------------
(* The run log and the sessions that wait.                                 *)

LogEntry == [kind : {"start", "end", "suspend", "resumed", "refused"}, sid : Ids, of : Nat]

\* A row of a resume has been written for the entry p of l.
Answered(l, p) == \E q \in 1..Len(l) : l[q].of = p

\* The session of the entry p waits to be taken up (Unresumed, of any log).
WaitsAt(l, p) == p \in 1..Len(l) /\ l[p].kind = "suspend" /\ ~Answered(l, p)

Waits(l, s) == \E p \in 1..Len(l) : WaitsAt(l, p) /\ l[p].sid = s

\* No session waits twice.
WaitsOnce(l) == \A p, q \in 1..Len(l) : WaitsAt(l, p) /\ WaitsAt(l, q) /\ l[p].sid = l[q].sid => p = q

LogTypes == log \in [Units -> Seq(LogEntry)] /\ sid \in [Ids -> Ids \cup {0}] /\ captured \subseteq Ids

\* An entry answers an earlier one, if any, and is of an attempt that is there.
EntryOK(l, a) == \A q \in 1..Len(l) : l[q].of < q /\ a[l[q].sid].state # "none"

SidsAre ==
  /\ \A i \in Ids : sid[i] # 0 => att[sid[i]].state # "none"
  /\ \A i \in Ids : run[i] # "none" \/ i \in captured => sid[i] # 0 /\ att[i].state # "none" /\ att[i].unit \in Units

\* A session that runs, or is being paused, does not wait: until the rows of a pause are written.
Pausing == upd \in {"settling", "down"}
NoneRunsThatWaits ==
  \A i \in Ids : (run[i] # "none" /\ ~Pausing) \/ i \in captured => ~Waits(log[att[i].unit], sid[i])

\* After the entry p of l nothing began, nor did its session end.
Newest(l, p) ==
  \A q \in 1..Len(l) : q > p => l[q].kind # "start" /\ ~(l[q].kind = "end" /\ l[q].sid = l[p].sid)

\* What is still to be taken up waits, once each; what is not gone has nothing newer.
TodoWaits ==
  /\ \A r \in todo : WaitsAt(log[r.unit], r.pos) /\ (~r.gone => Newest(log[r.unit], r.pos))
  /\ \A r, t \in todo : r.unit = t.unit /\ r.pos = t.pos => r = t

\* What is being taken up has its `resume` row, was not taken before, and its session waits no more.
TakingIsNew ==
  \A r \in taking :
    /\ r.pos \in 1..Len(log[r.unit]) /\ Answered(log[r.unit], r.pos)
    /\ ~Waits(log[r.unit], log[r.unit][r.pos].sid)
    /\ \A n \in 1..Len(takes) : takes[n] # <<r.unit, r.pos>>

TakesAnswered ==
  /\ takes \in Seq(Units \X Nat) /\ TakenUpOnce
  /\ \A n \in 1..Len(takes) : Answered(log[takes[n][1]], takes[n][2])

LogInv ==
  /\ LogTypes /\ (\A u \in Units : EntryOK(log[u], att) /\ WaitsOnce(log[u])) /\ SidsAre
  /\ NoneRunsThatWaits /\ TodoWaits /\ TakingIsNew /\ TakesAnswered /\ NotOverNewerWork

\* m is the log l with more in it.
Grown(l, m) == m \in Seq(LogEntry) /\ Len(l) <= Len(m) /\ \A k \in 1..Len(l) : m[k] = l[k]

\* The log of every unit stays or grows, by entries of these kinds.
GrowsBy(kinds) ==
  /\ log' \in [Units -> Seq(LogEntry)]
  /\ \A u \in Units :
       /\ Grown(log[u], log'[u])
       /\ \A k \in (Len(log[u]) + 1)..Len(log'[u]) :
            log'[u][k].kind \in kinds /\ log'[u][k].of < k /\ att'[log'[u][k].sid].state # "none"

\* What is answered stays so, and what waits waited, where nothing is suspended.
LEMMA GrownLog ==
  ASSUME NEW l \in Seq(LogEntry), NEW m, Grown(l, m), \A k \in (Len(l) + 1)..Len(m) : m[k].kind # "suspend"
  PROVE  /\ \A p : (Answered(l, p) => Answered(m, p)) /\ (WaitsAt(m, p) => WaitsAt(l, p) /\ m[p] = l[p])
         /\ \A s : Waits(m, s) => Waits(l, s)
         /\ WaitsOnce(l) => WaitsOnce(m)
<1>1. Len(l) \in Nat /\ Len(m) \in Nat
  BY DEF Grown
<1>2. ASSUME NEW p, Answered(l, p) PROVE Answered(m, p)
  BY <1>1, <1>2 DEF Answered, Grown
<1>3. ASSUME NEW p, WaitsAt(m, p) PROVE WaitsAt(l, p) /\ m[p] = l[p]
  <2>1. p \in 1..Len(l)
    BY <1>1, <1>3 DEF WaitsAt
  <2> QED
    BY <1>2, <1>3, <2>1 DEF WaitsAt, Grown
<1>4. ASSUME NEW s, Waits(m, s) PROVE Waits(l, s)
  BY <1>3, <1>4 DEF Waits, WaitsAt
<1>5. ASSUME WaitsOnce(l) PROVE WaitsOnce(m)
  <2> SUFFICES ASSUME NEW p \in 1..Len(m), NEW q \in 1..Len(m), WaitsAt(m, p), WaitsAt(m, q), m[p].sid = m[q].sid
               PROVE  p = q
    BY DEF WaitsOnce
  <2>1. WaitsAt(l, p) /\ WaitsAt(l, q) /\ l[p].sid = l[q].sid
    BY <1>3
  <2> QED
    BY <1>5, <2>1 DEF WaitsOnce, WaitsAt
<1> QED
  BY <1>2, <1>3, <1>4, <1>5

\* Of every log: its entries stay as they should be, what is answered stays so, and nothing newer comes
\* before what was taken up.
LEMMA LogsKeep ==
  ASSUME LogInv, Stays, NEW kinds, GrowsBy(kinds)
  PROVE  /\ \A u \in Units : EntryOK(log'[u], att')
         /\ \A n \in 1..Len(takes) : Answered(log'[takes[n][1]], takes[n][2])
         /\ "resumed" \notin kinds => NotOverNewerWork'
<1>1. ASSUME NEW u \in Units
      PROVE  /\ log[u] \in Seq(LogEntry) /\ log'[u] \in Seq(LogEntry) /\ Grown(log[u], log'[u])
             /\ Len(log[u]) \in Nat /\ Len(log'[u]) \in Nat
             /\ DOMAIN log[u] = 1..Len(log[u]) /\ DOMAIN log'[u] = 1..Len(log'[u])
             /\ EntryOK(log[u], att)
  BY DEF LogInv, LogTypes, GrowsBy
<1>2. ASSUME NEW u \in Units, NEW p, Answered(log[u], p) PROVE Answered(log'[u], p)
  BY <1>1, <1>2 DEF Answered, Grown
<1>3. ASSUME NEW u \in Units, NEW q \in 1..Len(log'[u])
      PROVE  log'[u][q].of < q /\ att'[log'[u][q].sid].state # "none"
  <2>1. CASE q \in 1..Len(log[u])
    <3>1. log[u][q] \in LogEntry /\ log'[u][q] = log[u][q]
      BY <1>1, <2>1, ElementOfSeq DEF Grown
    <3>2. log[u][q].sid \in Ids
      BY <3>1 DEF LogEntry
    <3> QED
      BY <1>1, <2>1, <3>1, <3>2 DEF EntryOK, Stays
  <2>2. CASE q \notin 1..Len(log[u])
    <3>1. q \in (Len(log[u]) + 1)..Len(log'[u])
      BY <1>1, <2>2
    <3> QED
      BY <3>1 DEF GrowsBy
  <2> QED
    BY <2>1, <2>2
<1>4. \A n \in 1..Len(takes) : Answered(log'[takes[n][1]], takes[n][2])
  <2>1. \A n \in 1..Len(takes) : takes[n][1] \in Units
    BY ElementOfSeq DEF LogInv, TakesAnswered
  <2> QED
    BY <1>2, <2>1 DEF LogInv, TakesAnswered
<1>5. ASSUME "resumed" \notin kinds PROVE NotOverNewerWork'
  <2> SUFFICES ASSUME NEW u \in Units, NEW q \in 1..Len(log'[u]), log'[u][q].kind = "resumed",
                      NEW k \in 1..Len(log'[u]), log'[u][q].of < k, k < q
               PROVE  log'[u][k].kind # "start" /\ ~(log'[u][k].kind = "end" /\ log'[u][k].sid = log'[u][q].sid)
    BY <1>1 DEF NotOverNewerWork
  <2>1. q \in 1..Len(log[u])
    BY <1>1, <1>5 DEF GrowsBy
  <2>2. k \in 1..Len(log[u])
    BY <1>1, <2>1
  <2>3. log'[u][q] = log[u][q] /\ log'[u][k] = log[u][k]
    BY <1>1, <2>1, <2>2 DEF Grown
  <2> QED
    BY <1>1, <2>1, <2>2, <2>3 DEF LogInv, NotOverNewerWork
<1> QED
  BY <1>3, <1>4, <1>5 DEF EntryOK

\* The same where nothing is suspended: what waits waited.
LEMMA LogsGrow ==
  ASSUME LogInv, Stays, NEW kinds, "suspend" \notin kinds, GrowsBy(kinds)
  PROVE  /\ \A u \in Units : EntryOK(log'[u], att') /\ WaitsOnce(log'[u])
         /\ \A u \in Units : \A p : WaitsAt(log'[u], p) => WaitsAt(log[u], p) /\ log'[u][p] = log[u][p]
         /\ \A u \in Units : \A s : Waits(log'[u], s) => Waits(log[u], s)
         /\ \A n \in 1..Len(takes) : Answered(log'[takes[n][1]], takes[n][2])
         /\ "resumed" \notin kinds => NotOverNewerWork'
<1>1. ASSUME NEW u \in Units
      PROVE  /\ log[u] \in Seq(LogEntry) /\ Grown(log[u], log'[u])
             /\ \A k \in (Len(log[u]) + 1)..Len(log'[u]) : log'[u][k].kind # "suspend"
             /\ WaitsOnce(log[u])
  BY DEF LogInv, LogTypes, GrowsBy
<1>2. ASSUME NEW u \in Units
      PROVE  /\ \A p : WaitsAt(log'[u], p) => WaitsAt(log[u], p) /\ log'[u][p] = log[u][p]
             /\ \A s : Waits(log'[u], s) => Waits(log[u], s)
             /\ WaitsOnce(log'[u])
  BY <1>1, GrownLog
<1> QED
  BY <1>2, LogsKeep

\* A log that stays, or that some entries are put after.
LEMMA GrowsSame ==
  ASSUME LogTypes, UNCHANGED log, NEW kinds
  PROVE  GrowsBy(kinds)
<1>1. \A u \in Units : log[u] \in Seq(LogEntry) /\ Len(log[u]) \in Nat
  BY DEF LogTypes
<1>2. \A u \in Units : Grown(log[u], log'[u]) /\ (Len(log[u]) + 1)..Len(log'[u]) = {}
  BY <1>1 DEF Grown
<1> QED
  BY <1>2 DEF GrowsBy, LogTypes

\* A log that has entries of some kinds put after its last one grew by those kinds.
LEMMA GrowsByMore ==
  ASSUME LogTypes, NEW kinds, NEW u \in Units, NEW more \in Seq(LogEntry), log' = [log EXCEPT ![u] = @ \o more],
         \A k \in 1..Len(more) : more[k].kind \in kinds /\ more[k].of < Len(log[u]) + k /\ att'[more[k].sid].state # "none"
  PROVE  GrowsBy(kinds)
<1>1. \A v \in Units : log[v] \in Seq(LogEntry) /\ Len(log[v]) \in Nat /\ Len(more) \in Nat
  BY LenProperties DEF LogTypes
<1> DEFINE l == log[u] m == log[u] \o more
<1>2. /\ m \in Seq(LogEntry) /\ Len(m) = Len(l) + Len(more)
      /\ \A k \in 1 .. Len(l) + Len(more) : m[k] = IF k <= Len(l) THEN l[k] ELSE more[k - Len(l)]
  BY <1>1, ConcatProperties
<1>3. log'[u] = m /\ \A v \in Units \ {u} : log'[v] = log[v]
  BY DEF LogTypes
<1>4. log' \in [Units -> Seq(LogEntry)]
  BY <1>2 DEF LogTypes
<1> HIDE DEF m
<1>5. Grown(l, m)
  BY <1>1, <1>2 DEF Grown
<1>6. ASSUME NEW k \in (Len(l) + 1)..Len(m)
      PROVE  m[k].kind \in kinds /\ m[k].of < k /\ att'[m[k].sid].state # "none"
  <2>1. k - Len(l) \in 1..Len(more) /\ m[k] = more[k - Len(l)] /\ Len(l) + (k - Len(l)) = k
    BY <1>1, <1>2
  <2> QED
    BY <2>1
<1>7. ASSUME NEW v \in Units, v # u
      PROVE  Grown(log[v], log'[v]) /\ (Len(log[v]) + 1)..Len(log'[v]) = {}
  BY <1>1, <1>3, <1>7 DEF Grown
<1> QED
  BY <1>3, <1>4, <1>5, <1>6, <1>7 DEF GrowsBy

\* One entry that answers none.
LEMMA GrowsByEntry ==
  ASSUME LogTypes, NEW kinds, NEW u \in Units, NEW kind \in kinds \cap {"start", "end", "suspend", "resumed", "refused"},
         NEW s \in Ids, att'[s].state # "none", log' = [log EXCEPT ![u] = Append(@, Entry(kind, s, 0))]
  PROVE  GrowsBy(kinds)
<1> DEFINE e == Entry(kind, s, 0)
<1>1. e \in LogEntry /\ e.kind = kind /\ e.sid = s /\ e.of = 0
  BY DEF Entry, LogEntry
<1> HIDE DEF e
<1>2. log[u] \in Seq(LogEntry) /\ Len(log[u]) \in Nat
  BY DEF LogTypes
<1>3. Append(log[u], e) = log[u] \o <<e>>
  BY <1>1, <1>2, AppendIsConcat
<1>4. log' = [log EXCEPT ![u] = @ \o <<e>>]
  BY <1>3 DEF e
<1>5. <<e>> \in Seq(LogEntry) /\ Len(<<e>>) = 1 /\ <<e>>[1] = e
  BY <1>1
<1> DEFINE more == <<e>>
<1>6. \A k \in 1..Len(more) : more[k].kind \in kinds /\ more[k].of < Len(log[u]) + k /\ att'[more[k].sid].state # "none"
  BY <1>1, <1>2, <1>5
<1>7. more \in Seq(LogEntry) /\ log' = [log EXCEPT ![u] = @ \o more]
  BY <1>4, <1>5
<1> HIDE DEF more
<1> QED
  BY <1>6, <1>7, GrowsByMore

\* No run begins and nothing is taken up: what runs or is being paused did so before.
QuietRest ==
  /\ todo' = {} /\ taking' = {} /\ takes' = takes /\ sid' = sid /\ captured' \subseteq Ids
  /\ \A i \in Ids : /\ run'[i] # "none" => run[i] # "none" /\ (Pausing => Pausing')
                    /\ i \in captured' => (run[i] # "none" /\ ~Pausing) \/ i \in captured

\* Where sessions begin, end or go on, and none is suspended or taken up, all stays so.
LEMMA LogQuiet ==
  ASSUME LogInv, Stays, GrowsBy({"start", "end"}), QuietRest
  PROVE  LogInv'
<1>1. /\ \A u \in Units : EntryOK(log'[u], att') /\ WaitsOnce(log'[u])
      /\ \A u \in Units : \A s : Waits(log'[u], s) => Waits(log[u], s)
      /\ \A n \in 1..Len(takes) : Answered(log'[takes[n][1]], takes[n][2])
      /\ NotOverNewerWork'
  BY LogsGrow
<1>2. LogTypes' /\ TodoWaits' /\ TakingIsNew'
  BY DEF LogInv, LogTypes, QuietRest, TodoWaits, TakingIsNew, GrowsBy
<1>3. TakesAnswered'
  BY <1>1 DEF LogInv, TakesAnswered, QuietRest, TakenUpOnce
<1>4. SidsAre'
  <2>1. \A i \in Ids : sid[i] # 0 => sid[i] \in Ids
    BY DEF LogInv, LogTypes
  <2> QED
    BY <2>1 DEF LogInv, SidsAre, QuietRest, Stays
<1>5. NoneRunsThatWaits'
  <2> SUFFICES ASSUME NEW i \in Ids, (run'[i] # "none" /\ ~Pausing') \/ i \in captured'
               PROVE  ~Waits(log'[att'[i].unit], sid'[i])
    BY DEF NoneRunsThatWaits
  <2>1. /\ (run[i] # "none" /\ ~Pausing) \/ i \in captured
        /\ sid'[i] = sid[i] /\ att'[i].unit = att[i].unit /\ att[i].unit \in Units
    BY DEF QuietRest, Stays, LogInv, SidsAre
  <2>2. ~Waits(log[att[i].unit], sid[i])
    BY <2>1 DEF LogInv, NoneRunsThatWaits
  <2> QED
    BY <1>1, <2>1, <2>2
<1> QED
  BY <1>1, <1>2, <1>3, <1>4, <1>5 DEF LogInv

\* A turn of a run puts its `start` or its `end` in the log, or nothing.
LEMMA LogRunTurn ==
  ASSUME AttInv, LogInv, Stays, NEW i \in Ids, RunTurn(i), boot # "resuming"
  PROVE  LogInv'
<1>1. /\ run[i] # "none" /\ UNCHANGED <<sid, todo, taking, takes, boot, captured, upd>>
      /\ \E r \in Runs : run' = [run EXCEPT ![i] = r]
      /\ \/ log' = log
         \/ \E kind \in {"start", "end"} : log' = [log EXCEPT ![att[i].unit] = Append(@, Entry(kind, sid[i], 0))]
  BY RunTurns DEF AttInv
<1>2. att[i].unit \in Units /\ sid[i] \in Ids /\ att'[sid[i]].state # "none"
  <2>1. att[i].unit \in Units /\ sid[i] # 0
    BY <1>1 DEF LogInv, SidsAre
  <2>2. sid[i] \in Ids
    BY <2>1 DEF LogInv, LogTypes
  <2> QED
    BY <2>1, <2>2 DEF LogInv, SidsAre, Stays
<1>3. GrowsBy({"start", "end"})
  <2>1. CASE log' = log
    BY <2>1, GrowsSame DEF LogInv
  <2>2. ASSUME NEW kind \in {"start", "end"}, log' = [log EXCEPT ![att[i].unit] = Append(@, Entry(kind, sid[i], 0))]
        PROVE  GrowsBy({"start", "end"})
    BY <1>2, <2>2, GrowsByEntry DEF LogInv
  <2> QED
    BY <1>1, <2>1, <2>2
<1>4. QuietRest
  BY <1>1 DEF QuietRest, Pausing, AttInv, AttTypes, Phases, LogInv, LogTypes
<1> QED
  BY <1>3, <1>4, LogQuiet

\* The steps that write nothing and begin nothing.
LEMMA LogStill ==
  ASSUME AttInv, LogInv, Stays,
         \/ \E i \in Ids : Stop(i)
         \/ MechBegins \/ Roads \/ Escalates \/ MechEnds
         \/ Press \/ Cancel \/ MaybeApply(TRUE) \/ MaybeApply(FALSE) \/ Fails \/ TrialBegins \/ SuspendAll
         \/ ShutsDown \/ HandOff \/ HandOffFails,
         boot # "resuming"
  PROVE  LogInv'
<1> USE DEF rows, flows, updater, gates, resume, bounds
<1>1. UNCHANGED log
  BY DEF Stop, MechBegins, Roads, RoadDecided, Escalates, MechEnds, Press, Cancel, MaybeApply, Fails, TrialBegins,
         Goes, SuspendAll, ShutsDown, HandOff, HandOffFails
<1>2. GrowsBy({"start", "end"})
  BY <1>1, GrowsSame DEF LogInv
<1>3. todo = {} /\ taking = {} /\ captured \subseteq Ids /\ (upd # "suspending" => captured = {})
  BY DEF AttInv, Phases, LogInv, LogTypes
<1>4. ASSUME \E i \in Ids : Stop(i) PROVE QuietRest
  BY <1>3, <1>4 DEF Stop, QuietRest, Pausing
<1>5. ASSUME MechBegins \/ Roads \/ Escalates \/ MechEnds PROVE QuietRest
  BY <1>3, <1>5 DEF MechBegins, Roads, RoadDecided, Escalates, MechEnds, QuietRest, Pausing
<1>6. ASSUME Press \/ Cancel \/ MaybeApply(TRUE) \/ MaybeApply(FALSE) \/ Fails \/ TrialBegins PROVE QuietRest
  BY <1>3, <1>6 DEF Press, Cancel, MaybeApply, Fails, TrialBegins, Goes, QuietRest, Pausing
<1>7. ASSUME SuspendAll PROVE QuietRest
  BY <1>3, <1>7 DEF SuspendAll, InSteps, QuietRest, Pausing
<1>8. ASSUME ShutsDown \/ HandOff \/ HandOffFails PROVE QuietRest
  BY <1>3, <1>8 DEF ShutsDown, HandOff, HandOffFails, HandedOver, Forgotten, QuietRest, Pausing
<1>9. QuietRest
  BY <1>4, <1>5, <1>6, <1>7, <1>8
<1> QED
  BY <1>2, <1>9, LogQuiet

\* A crash and a start leave the log as it is.
LEMMA LogCrash ==
  ASSUME AttInv, LogInv, Stays, Crash \/ Boots
  PROVE  LogInv'
<1> USE DEF rows, flows, updater, gates, resume, bounds
<1>1. UNCHANGED log
  BY DEF Crash, Boots
<1>2. GrowsBy({"start", "end"})
  BY <1>1, GrowsSame DEF LogInv
<1>3. (boot # "resuming" => todo = {} /\ taking = {}) /\ captured \subseteq Ids
  BY DEF AttInv, Phases, LogInv, LogTypes
<1>4. QuietRest
  BY <1>3 DEF Crash, Boots, Forgotten, QuietRest, Pausing
<1> QED
  BY <1>2, <1>4, LogQuiet

\* And so does a step of something else.
LEMMA LogSame ==
  ASSUME LogInv, UNCHANGED vars
  PROVE  LogInv'
BY DEF vars, rows, flows, updater, gates, resume, bounds, LogInv, LogTypes, EntryOK, SidsAre, NoneRunsThatWaits,
  Pausing,
       TodoWaits, TakingIsNew, TakesAnswered, TakenUpOnce, NotOverNewerWork

\* A step begins in a session no entry of the log is of.
LEMMA LogBegins ==
  ASSUME AttInv, LogInv, Stays, NEW u \in Units, Begin(u), boot # "resuming"
  PROVE  LogInv'
<1> USE DEF rows, flows, updater, gates, resume, bounds
<1>1. PICK i \in Ids : /\ IsNextId(att, i) /\ att' = Opened(att, i, "step", u, "running")
                       /\ run' = [run EXCEPT ![i] = "opening"] /\ sid' = [sid EXCEPT ![i] = i]
  BY DEF Begin, SetRun
<1>2. /\ UNCHANGED <<log, takes, upd, captured>> /\ upd = "idle" /\ todo = {} /\ taking = {} /\ todo' = {} /\ taking' = {}
      /\ captured = {}
  BY DEF Begin, AttInv, Phases
<1>3. att \in [Ids -> Row] /\ run \in [Ids -> Runs] /\ att[i].state = "none"
  BY <1>1 DEF AttInv, AttTypes, IsNextId
<1>4. att'[i].state = "running" /\ att'[i].unit = u /\ \A j \in Ids \ {i} : att'[j] = att[j]
  BY <1>1, <1>3 DEF Opened
<1>5. /\ \A v \in Units : EntryOK(log'[v], att') /\ WaitsOnce(log'[v])
      /\ \A n \in 1..Len(takes) : Answered(log'[takes[n][1]], takes[n][2])
      /\ NotOverNewerWork'
  BY <1>2, GrowsSame, LogsGrow, "suspend" \notin {} DEF LogInv
<1>6. LogTypes' /\ TodoWaits' /\ TakingIsNew' /\ TakesAnswered'
  BY <1>1, <1>2, <1>5 DEF LogInv, LogTypes, TodoWaits, TakingIsNew, TakesAnswered, TakenUpOnce
<1>7. sid \in [Ids -> Ids \cup {0}] /\ \A j \in Ids \ {i} : sid'[j] = sid[j] /\ run'[j] = run[j]
  BY <1>1, <1>3 DEF LogInv, LogTypes
<1>8. SidsAre'
  <2>1. sid'[i] = i /\ i # 0 /\ att'[i].state # "none" /\ att'[i].unit \in Units
    BY <1>1, <1>4, <1>7 DEF Ids
  <2>2. ASSUME NEW j \in Ids, sid'[j] # 0 PROVE att'[sid'[j]].state # "none"
    <3>1. CASE j = i
      BY <2>1, <3>1
    <3>2. CASE j # i
      <4>1. sid[j] \in Ids /\ att[sid[j]].state # "none"
        BY <1>7, <2>2, <3>2 DEF LogInv, SidsAre
      <4> QED
        BY <1>7, <3>2, <4>1 DEF Stays
    <3> QED
      BY <3>1, <3>2
  <2>3. ASSUME NEW j \in Ids, run'[j] # "none" \/ j \in captured'
        PROVE  sid'[j] # 0 /\ att'[j].state # "none" /\ att'[j].unit \in Units
    <3>1. CASE j = i
      BY <2>1, <3>1
    <3>2. CASE j # i
      BY <1>2, <1>4, <1>7, <2>3, <3>2 DEF LogInv, SidsAre
    <3> QED
      BY <3>1, <3>2
  <2> QED
    BY <2>2, <2>3 DEF SidsAre
<1>9. ~Waits(log[u], i)
  BY <1>3 DEF Waits, WaitsAt, LogInv, EntryOK
<1>10. NoneRunsThatWaits'
  <2> SUFFICES ASSUME NEW j \in Ids, run'[j] # "none" PROVE ~Waits(log[att'[j].unit], sid'[j])
    BY <1>2 DEF NoneRunsThatWaits
  <2>1. CASE j = i
    BY <1>1, <1>4, <1>7, <1>9, <2>1
  <2>2. CASE j # i
    BY <1>2, <1>4, <1>7, <2>2 DEF LogInv, NoneRunsThatWaits, Pausing
  <2> QED
    BY <2>1, <2>2
<1> QED
  BY <1>5, <1>6, <1>8, <1>10 DEF LogInv

\* The rows of a resume are read: what waits is to be taken up, and is gone if anything is newer.
LEMMA LogReads ==
  ASSUME AttInv, LogInv, Stays, NEW read \in BOOLEAN, ResumeReads(read)
  PROVE  LogInv'
<1> USE DEF rows, flows, updater, gates, resume, bounds
<1>1. /\ UNCHANGED <<att, run, sid, log, takes, upd, captured, taking>> /\ taking = {}
      /\ \/ todo' = {}
         \/ todo' = UNION {{[unit |-> u, pos |-> p, gone |-> MovedOn(u, p)] : p \in Unresumed(u)} : u \in Units}
  BY DEF ResumeReads, AttInv, Phases
<1>2. \A r \in todo' : \E u \in Units : \E p \in Unresumed(u) : r = [unit |-> u, pos |-> p, gone |-> MovedOn(u, p)]
  BY <1>1
<1>3. ASSUME NEW u \in Units, NEW p \in Unresumed(u)
      PROVE  WaitsAt(log[u], p) /\ (~MovedOn(u, p) => Newest(log[u], p))
  <2>1. DOMAIN log[u] = 1..Len(log[u])
    BY DEF LogInv, LogTypes
  <2>2. WaitsAt(log[u], p)
    BY <2>1 DEF WaitsAt, Answered, Unresumed
  <2> QED
    BY <2>1, <2>2 DEF MovedOn, Newest
<1>4. TodoWaits'
  <2>1. \A r \in todo' : WaitsAt(log[r.unit], r.pos) /\ (~r.gone => Newest(log[r.unit], r.pos))
    BY <1>2, <1>3
  <2>2. \A r, t \in todo' : r.unit = t.unit /\ r.pos = t.pos => r = t
    BY <1>2
  <2> QED
    BY <1>1, <2>1, <2>2 DEF TodoWaits
<1> QED
  BY <1>1, <1>4 DEF LogInv, LogTypes, SidsAre, NoneRunsThatWaits, Pausing, TakingIsNew, TakesAnswered, TakenUpOnce,
     NotOverNewerWork

\* A row is left for the next start, or all are through.
LEMMA LogLeaves ==
  ASSUME AttInv, LogInv, Stays, ResumeEnds \/ \E row \in todo : ResumeBusy(row)
  PROVE  LogInv'
<1> USE DEF rows, flows, updater, gates, resume, bounds
<1>1. UNCHANGED <<run, sid, log, takes, upd, captured, taking>> /\ todo' \subseteq todo
  BY DEF ResumeEnds, ResumeBusy
<1>2. /\ \A v \in Units : EntryOK(log'[v], att') /\ WaitsOnce(log'[v])
      /\ NotOverNewerWork'
  BY <1>1, GrowsSame, LogsGrow, "suspend" \notin {} DEF LogInv
<1>3. SidsAre' /\ NoneRunsThatWaits'
  BY <1>1 DEF LogInv, SidsAre, NoneRunsThatWaits, Stays, Pausing, LogTypes
<1>4. TodoWaits'
  BY <1>1 DEF LogInv, TodoWaits
<1> QED
  BY <1>1, <1>2, <1>3, <1>4 DEF LogInv, LogTypes, TakingIsNew, TakesAnswered, TakenUpOnce

\* What is put after an entry that waits leaves it waiting, and the newest, unless it is about it.
LEMMA StillWaits ==
  ASSUME NEW l \in Seq(LogEntry), NEW m, Grown(l, m), NEW p, WaitsAt(l, p),
         \A k \in (Len(l) + 1)..Len(m) : m[k].of # p
  PROVE  WaitsAt(m, p) /\ m[p] = l[p]
<1>1. Len(l) \in Nat /\ Len(m) \in Nat
  BY DEF Grown
<1>2. \A k \in 1..Len(m) : k \in 1..Len(l) \/ k \in (Len(l) + 1)..Len(m)
  BY <1>1
<1>3. p \in 1..Len(l) /\ p \in 1..Len(m) /\ m[p] = l[p]
  BY <1>1 DEF WaitsAt, Grown
<1>4. \A k \in 1..Len(l) : m[k].of # p
  BY DEF WaitsAt, Answered, Grown
<1> QED
  BY <1>2, <1>3, <1>4 DEF WaitsAt, Answered

\* A `start` that is the newest of its log stays it while no other `start` and no `end` of its session is added.
LEMMA StillNewest ==
  ASSUME NEW l \in Seq(LogEntry), NEW m, Grown(l, m), NEW p \in 1..Len(l), Newest(l, p),
         \A k \in (Len(l) + 1)..Len(m) : m[k].kind # "start" /\ (m[k].kind = "end" => m[k].sid # l[p].sid)
  PROVE  Newest(m, p)
<1>1. Len(l) \in Nat /\ Len(m) \in Nat
  BY DEF Grown
<1>2. \A k \in 1..Len(m) : k \in 1..Len(l) \/ k \in (Len(l) + 1)..Len(m)
  BY <1>1
<1> QED
  BY <1>1, <1>2 DEF Newest, Grown

\* What is put in the log while rows are taken up is about none of those still to come.
AboutOthers ==
  \A r \in todo' : \A k \in (Len(log[r.unit]) + 1)..Len(log'[r.unit]) :
    log'[r.unit][k].of # r.pos /\ log'[r.unit][k].sid # log[r.unit][r.pos].sid

\* The suspended starts a process has still to take up wait on while none of them is answered.
LEMMA TodoStays ==
  ASSUME AttInv, LogInv, NEW kinds, "start" \notin kinds, GrowsBy(kinds), todo' \subseteq todo, AboutOthers
  PROVE  TodoWaits'
<1>1. ASSUME NEW r \in todo'
      PROVE  WaitsAt(log'[r.unit], r.pos) /\ (~r.gone => Newest(log'[r.unit], r.pos))
  <2> DEFINE l == log[r.unit] m == log'[r.unit]
  <2>1. r.unit \in Units /\ l \in Seq(LogEntry) /\ Grown(l, m)
    BY DEF AttInv, Phases, LogInv, LogTypes, GrowsBy
  <2>2. /\ WaitsAt(l, r.pos) /\ r.pos \in 1..Len(l) /\ (~r.gone => Newest(l, r.pos))
        /\ \A k \in (Len(l) + 1)..Len(m) : m[k].of # r.pos /\ m[k].sid # l[r.pos].sid /\ m[k].kind # "start"
    BY <2>1 DEF LogInv, TodoWaits, WaitsAt, AboutOthers, GrowsBy
  <2> HIDE DEF l, m
  <2>3. WaitsAt(m, r.pos) /\ (~r.gone => Newest(m, r.pos))
    BY <2>1, <2>2, StillWaits, StillNewest
  <2> QED
    BY <2>3 DEF m
<1> QED
  BY <1>1 DEF LogInv, TodoWaits

\* What two rows still to come, or one of them and one being taken up, are of.
LEMMA TodoApart ==
  ASSUME AttInv, LogInv, NEW r \in todo, NEW s,
         \/ ~Waits(log[r.unit], s)
         \/ \E t \in todo : t # r /\ t.unit = r.unit /\ s = log[r.unit][t.pos].sid
  PROVE  log[r.unit][r.pos].sid # s
<1>1. r.unit \in Units /\ WaitsAt(log[r.unit], r.pos) /\ r.pos \in 1..Len(log[r.unit]) /\ WaitsOnce(log[r.unit])
  BY DEF AttInv, Phases, LogInv, TodoWaits, WaitsAt
<1>2. CASE ~Waits(log[r.unit], s)
  BY <1>1, <1>2 DEF Waits
<1>3. ASSUME NEW t \in todo, t # r, t.unit = r.unit, s = log[r.unit][t.pos].sid
      PROVE  log[r.unit][r.pos].sid # s
  <2>1. WaitsAt(log[r.unit], t.pos) /\ t.pos \in 1..Len(log[r.unit]) /\ t.pos # r.pos
    BY <1>3 DEF LogInv, TodoWaits, WaitsAt
  <2> QED
    BY <1>1, <1>3, <2>1 DEF WaitsOnce
<1> QED
  BY <1>2, <1>3

\* A row that raised before its claim is over, with the `end` of its session.
LEMMA LogRaises ==
  ASSUME AttInv, LogInv, Stays, NEW row \in taking, TakeUpRaises(row)
  PROVE  LogInv'
<1> USE DEF rows, flows, updater, gates, resume, bounds
<1> DEFINE s == log[row.unit][row.pos].sid
<1>1. /\ UNCHANGED <<att, run, sid, takes, upd, captured, todo>> /\ taking' = {}
      /\ log' = [log EXCEPT ![row.unit] = Append(@, Entry("end", s, 0))]
  BY DEF TakeUpRaises, Write
<1>2. /\ row.unit \in Units /\ row.pos \in 1..Len(log[row.unit]) /\ log[row.unit] \in Seq(LogEntry)
      /\ ~Waits(log[row.unit], s)
  BY DEF AttInv, Phases, LogInv, LogTypes, TakingIsNew
<1>3. s \in Ids /\ att'[s].state # "none"
  <2>1. log[row.unit][row.pos] \in LogEntry
    BY <1>2, ElementOfSeq
  <2> QED
    BY <1>1, <1>2, <2>1 DEF LogEntry, LogInv, EntryOK
<1> HIDE DEF s
<1>4. GrowsBy({"end"})
  BY <1>1, <1>2, <1>3, GrowsByEntry DEF LogInv
<1>5. /\ \A v \in Units : EntryOK(log'[v], att') /\ WaitsOnce(log'[v])
      /\ \A v \in Units : \A x : Waits(log'[v], x) => Waits(log[v], x)
      /\ \A n \in 1..Len(takes) : Answered(log'[takes[n][1]], takes[n][2])
      /\ NotOverNewerWork'
  BY <1>4, LogsGrow, "suspend" \notin {"end"}, "resumed" \notin {"end"}
<1>6. AboutOthers
  <2> SUFFICES ASSUME NEW r \in todo, NEW k \in (Len(log[r.unit]) + 1)..Len(log'[r.unit])
               PROVE  log'[r.unit][k].of # r.pos /\ log'[r.unit][k].sid # log[r.unit][r.pos].sid
    BY <1>1 DEF AboutOthers
  <2>1. r.unit \in Units /\ r.pos \in 1..Len(log[r.unit]) /\ log[r.unit] \in Seq(LogEntry) /\ Len(log[r.unit]) \in Nat
    BY DEF AttInv, Phases, LogInv, LogTypes, TodoWaits, WaitsAt
  <2>2. CASE r.unit # row.unit
    BY <1>1, <2>1, <2>2 DEF LogInv, LogTypes
  <2>3. CASE r.unit = row.unit
    <3>1. log[r.unit][r.pos].sid # s
      BY <1>2, <2>3, TodoApart
    <3> DEFINE e == Entry("end", s, 0)
    <3>2. e.of = 0 /\ e.sid = s
      BY DEF Entry
    <3>5. e \in LogEntry
      BY <1>3 DEF Entry, LogEntry
    <3> HIDE DEF e
    <3>3. log'[r.unit] = Append(log[r.unit], e)
      BY <1>1, <1>2, <2>3 DEF e, LogInv, LogTypes
    <3>4. Len(log'[r.unit]) = Len(log[r.unit]) + 1 /\ log'[r.unit][Len(log[r.unit]) + 1] = e
      BY <2>1, <3>3, <3>5, AppendProperties
    <3>6. k = Len(log[r.unit]) + 1
      BY <2>1, <3>4
    <3> QED
      BY <2>1, <3>1, <3>2, <3>4, <3>6
  <2> QED
    BY <2>2, <2>3
<1>7. TodoWaits'
  BY <1>1, <1>4, <1>6, TodoStays, "start" \notin {"end"}
<1>8. LogTypes' /\ TakingIsNew' /\ TakesAnswered'
  BY <1>1, <1>4, <1>5 DEF LogInv, LogTypes, GrowsBy, TakingIsNew, TakesAnswered, TakenUpOnce
<1>9. SidsAre' /\ NoneRunsThatWaits'
  BY <1>1, <1>5 DEF LogInv, SidsAre, NoneRunsThatWaits, Pausing
<1> QED
  BY <1>5, <1>7, <1>8, <1>9 DEF LogInv

\* A session is taken up: on the attempt left running or a new one, and it is not among those taken.
LEMMA LogTakesUp ==
  ASSUME AttInv, LogInv, Stays, NEW row \in taking, TakesUp(row)
  PROVE  LogInv'
<1> USE DEF rows, flows, updater, gates, resume, bounds
<1> DEFINE u == row.unit  s == log[u][row.pos].sid
<1>1. PICK i \in Ids : /\ IF LeftRunning(u) # {} THEN i \in LeftRunning(u) /\ UNCHANGED att
                          ELSE IsNextId(att, i) /\ att' = Opened(att, i, "step", u, "running")
                       /\ run' = [run EXCEPT ![i] = "opened"] /\ sid' = [sid EXCEPT ![i] = s]
  BY DEF TakesUp, SetRun
<1>2. UNCHANGED <<log, upd, captured, todo>> /\ taking' = {} /\ takes' = Append(takes, <<u, row.pos>>)
  BY DEF TakesUp
<1>3. /\ u \in Units /\ row.pos \in 1..Len(log[u]) /\ log[u] \in Seq(LogEntry) /\ Answered(log[u], row.pos)
      /\ ~Waits(log[u], s) /\ \A n \in 1..Len(takes) : takes[n] # <<u, row.pos>>
  BY DEF AttInv, Phases, LogInv, LogTypes, TakingIsNew
<1>4. s \in Ids /\ att'[s].state # "none"
  <2>1. log[u][row.pos] \in LogEntry
    BY <1>3, ElementOfSeq
  <2> QED
    BY <1>3, <2>1 DEF LogEntry, LogInv, EntryOK, Stays
<1>5. att'[i].state # "none" /\ att'[i].unit = u
  <2>1. att \in [Ids -> Row]
    BY DEF AttInv, AttTypes
  <2>2. CASE LeftRunning(u) # {}
    BY <1>1, <2>2 DEF LeftRunning, Live
  <2>3. CASE LeftRunning(u) = {}
    <3>1. att' = [att EXCEPT ![i] = [machine |-> "step", unit |-> u, state |-> "running", outcome |-> "", stop |-> FALSE]]
      BY <1>1, <2>3 DEF Opened
    <3> HIDE DEF u
    <3> QED
      BY <2>1, <3>1
  <2> QED
    BY <2>2, <2>3
<1> HIDE DEF s, u
<1>6. /\ \A v \in Units : EntryOK(log'[v], att') /\ WaitsOnce(log'[v])
      /\ \A n \in 1..Len(takes) : Answered(log'[takes[n][1]], takes[n][2])
      /\ NotOverNewerWork'
  BY <1>2, GrowsSame, LogsGrow, "suspend" \notin {} DEF LogInv
<1>7. sid \in [Ids -> Ids \cup {0}] /\ run \in [Ids -> Runs]
  BY DEF LogInv, LogTypes, AttInv, AttTypes
<1>8. LogTypes' /\ TodoWaits' /\ TakingIsNew'
  BY <1>1, <1>2, <1>4, <1>7 DEF LogInv, LogTypes, TodoWaits, TakingIsNew
<1>9. SidsAre'
  <2>1. sid'[i] = s /\ s # 0
    BY <1>1, <1>4, <1>7 DEF Ids
  <2>2. ASSUME NEW j \in Ids, sid'[j] # 0 PROVE att'[sid'[j]].state # "none"
    <3>1. CASE j = i
      BY <1>4, <2>1, <3>1
    <3>2. CASE j # i
      <4>1. sid'[j] = sid[j] /\ sid[j] \in Ids /\ att[sid[j]].state # "none"
        BY <1>1, <1>7, <2>2, <3>2 DEF LogInv, SidsAre
      <4> QED
        BY <4>1 DEF Stays
    <3> QED
      BY <3>1, <3>2
  <2>3. ASSUME NEW j \in Ids, run'[j] # "none" \/ j \in captured'
        PROVE  sid'[j] # 0 /\ att'[j].state # "none" /\ att'[j].unit \in Units
    <3>1. CASE j = i
      BY <1>3, <1>5, <2>1, <3>1
    <3>2. CASE j # i
      BY <1>1, <1>2, <1>7, <2>3, <3>2 DEF LogInv, SidsAre, Stays
    <3> QED
      BY <3>1, <3>2
  <2> QED
    BY <2>2, <2>3 DEF SidsAre
<1>10. NoneRunsThatWaits'
  <2> SUFFICES ASSUME NEW j \in Ids, (run'[j] # "none" /\ ~Pausing) \/ j \in captured
               PROVE  ~Waits(log[att'[j].unit], sid'[j])
    BY <1>2 DEF NoneRunsThatWaits, Pausing
  <2>1. CASE j = i
    BY <1>1, <1>3, <1>5, <1>7, <2>1
  <2>2. CASE j # i
    <3>1. run'[j] = run[j] /\ sid'[j] = sid[j]
      BY <1>1, <1>7, <2>2
    <3>2. att'[j].unit = att[j].unit
      BY <3>1 DEF LogInv, SidsAre, Stays
    <3> QED
      BY <3>1, <3>2 DEF LogInv, NoneRunsThatWaits
  <2> QED
    BY <2>1, <2>2
<1>11. TakesAnswered'
  <2> DEFINE t == <<u, row.pos>>
  <2>1. takes \in Seq(Units \X Nat) /\ TakenUpOnce /\ t \in Units \X Nat
    BY <1>3 DEF LogInv, TakesAnswered
  <2>t. t[1] = u /\ t[2] = row.pos /\ \A n \in 1..Len(takes) : takes[n] # t
    BY <1>3
  <2> HIDE DEF t
  <2>2. /\ takes' = Append(takes, t) /\ takes' \in Seq(Units \X Nat) /\ Len(takes) \in Nat
        /\ Len(takes') = Len(takes) + 1 /\ takes'[Len(takes) + 1] = t
        /\ \A n \in 1..Len(takes) : takes'[n] = takes[n]
        /\ DOMAIN takes = 1..Len(takes) /\ DOMAIN takes' = 1..Len(takes')
    <3>1. takes' = Append(takes, t)
      BY <1>2 DEF t
    <3> QED
      BY <2>1, <3>1, AppendProperties, LenProperties
  <2>3. \A n \in 1..Len(takes') : n \in 1..Len(takes) \/ n = Len(takes) + 1
    BY <2>2
  <2>4. TakenUpOnce'
    BY <2>1, <2>2, <2>3, <2>t DEF TakenUpOnce, IsInjective
  <2>5. \A n \in 1..Len(takes') : Answered(log'[takes'[n][1]], takes'[n][2])
    BY <1>2, <1>3, <1>6, <2>2, <2>3, <2>t
  <2> QED
    BY <2>2, <2>4, <2>5 DEF TakesAnswered
<1> QED
  BY <1>6, <1>8, <1>9, <1>10, <1>11 DEF LogInv

\* What the rows of a resume put in the log for the entry p of l: that it is refused, with the end of
\* its session, or that it is taken up.
Verdict(s, p, problem) ==
  IF problem THEN <<Entry("refused", s, p), Entry("end", s, 0)>> ELSE <<Entry("resumed", s, p)>>

\* What is written of one suspended start: `resumed`, or why not and, where that is a problem, its end.
LEMMA VerdictIs ==
  ASSUME NEW s \in Ids, NEW p \in Nat, NEW problem \in BOOLEAN
  PROVE  LET m == Verdict(s, p, problem)
         IN /\ m \in Seq(LogEntry) /\ Len(m) \in {1, 2} /\ (~problem => Len(m) = 1)
            /\ m[1].of = p /\ m[1].sid = s
            /\ \A k \in 1..Len(m) : /\ m[k].kind \in IF problem THEN {"refused", "end"} ELSE {"resumed"}
                                    /\ m[k].of \in {0, p} /\ m[k].sid = s
<1> DEFINE a == Entry("refused", s, p)  b == Entry("end", s, 0)  c == Entry("resumed", s, p)
<1>1. /\ a \in LogEntry /\ b \in LogEntry /\ c \in LogEntry
      /\ a.kind = "refused" /\ b.kind = "end" /\ c.kind = "resumed" /\ a.of = p /\ b.of = 0 /\ c.of = p
      /\ a.sid = s /\ b.sid = s /\ c.sid = s
  BY DEF Entry, LogEntry
<1>2. Verdict(s, p, problem) = IF problem THEN <<a, b>> ELSE <<c>>
  BY DEF Verdict
<1> HIDE DEF a, b, c
<1>3. CASE problem
  <2> DEFINE m == <<a, b>>
  <2>1. m \in Seq(LogEntry) /\ Len(m) = 2 /\ m[1] = a /\ m[2] = b
    BY <1>1
  <2>2. \A k \in 1..Len(m) : k = 1 \/ k = 2
    BY <2>1
  <2>3. Verdict(s, p, problem) = m
    BY <1>2, <1>3
  <2> HIDE DEF m
  <2> QED
    BY <1>1, <1>3, <2>1, <2>2, <2>3
<1>4. CASE ~problem
  <2> DEFINE m == <<c>>
  <2>1. m \in Seq(LogEntry) /\ Len(m) = 1 /\ m[1] = c
    BY <1>1
  <2>2. \A k \in 1..Len(m) : k = 1
    BY <2>1
  <2>3. Verdict(s, p, problem) = m
    BY <1>2, <1>4
  <2> HIDE DEF m
  <2> QED
    BY <1>1, <1>4, <2>1, <2>2, <2>3
<1> QED
  BY <1>3, <1>4

\* The `resume` row of one: it waits no more, and it is taken up with nothing newer than it.
LEMMA LogVerdict ==
  ASSUME AttInv, LogInv, Stays, NEW row \in todo, NEW unfit \in BOOLEAN, ResumeRow(row, unfit)
  PROVE  LogInv'
<1> USE DEF rows, flows, updater, gates, resume, bounds
<1> DEFINE u == row.unit  p == row.pos  l == log[u]  s == l[p].sid
           problem == unfit \/ row.gone \/ Unadoptable(u)
           more == Verdict(s, p, problem)  m == l \o more
<1>1. /\ UNCHANGED <<att, run, sid, upd, captured, takes>> /\ todo' = todo \ {row} /\ taking = {}
      /\ taking' = (IF problem THEN {} ELSE {row}) /\ log' = [log EXCEPT ![u] = @ \o more]
  BY DEF ResumeRow, IsNextRow, Verdict
<1>2. /\ u \in Units /\ l \in Seq(LogEntry) /\ Len(l) \in Nat /\ p \in 1..Len(l) /\ ~Answered(l, p) /\ WaitsAt(l, p)
      /\ (~row.gone => Newest(l, p)) /\ problem \in BOOLEAN /\ WaitsOnce(l)
  <2>1. u \in Units /\ WaitsAt(l, p) /\ (~row.gone => Newest(l, p)) /\ l \in Seq(LogEntry) /\ WaitsOnce(l)
    BY DEF AttInv, Phases, LogInv, LogTypes, TodoWaits
  <2>2. problem \in BOOLEAN
    BY DEF Unadoptable, MayOpen
  <2> QED
    BY <2>1, <2>2 DEF WaitsAt
<1>3. s \in Ids /\ att'[s].state # "none"
  <2>1. l[p] \in LogEntry
    BY <1>2, ElementOfSeq
  <2> QED
    BY <1>1, <1>2, <2>1 DEF LogEntry, LogInv, EntryOK
<1>g. ~problem => ~row.gone
  OBVIOUS
<1>4. /\ more \in Seq(LogEntry) /\ Len(more) \in {1, 2} /\ (~problem => Len(more) = 1) /\ more[1].of = p /\ more[1].sid = s
      /\ \A k \in 1..Len(more) : /\ more[k].kind \in IF problem THEN {"refused", "end"} ELSE {"resumed"}
                                 /\ more[k].of \in {0, p} /\ more[k].sid = s
  <2>1. p \in Nat /\ problem \in BOOLEAN /\ s \in Ids
    BY <1>2, <1>3
  <2> HIDE DEF s, problem, p
  <2> QED
    BY <2>1, VerdictIs
<1> HIDE DEF more, problem, s
<1> DEFINE kinds == {"refused", "end", "resumed"}
<1>5. GrowsBy(kinds) /\ (problem => GrowsBy({"refused", "end"}))
  <2>1. \A k \in 1..Len(more) : more[k].of < Len(l) + k /\ att'[more[k].sid].state # "none" /\ more[k].kind \in kinds
                                /\ (problem => more[k].kind \in {"refused", "end"})
    BY <1>2, <1>3, <1>4
  <2>2. log' = [log EXCEPT ![u] = @ \o more] /\ LogTypes
    BY <1>1 DEF LogInv
  <2> HIDE DEF kinds, u
  <2> QED
    BY <1>2, <1>4, <2>1, <2>2, GrowsByMore DEF l
<1>6. /\ log'[u] = m /\ Len(m) = Len(l) + Len(more) /\ \A v \in Units \ {u} : log'[v] = log[v]
      /\ m \in Seq(LogEntry) /\ \A k \in 1..Len(l) : m[k] = l[k]
      /\ \A k \in (Len(l) + 1)..Len(m) : m[k] = more[k - Len(l)] /\ k - Len(l) \in 1..Len(more)
  <2>1. log'[u] = m /\ \A v \in Units \ {u} : log'[v] = log[v]
    BY <1>1, <1>2 DEF LogInv, LogTypes
  <2>2. /\ m \in Seq(LogEntry) /\ Len(m) = Len(l) + Len(more)
        /\ \A k \in 1..Len(l) + Len(more) : m[k] = IF k <= Len(l) THEN l[k] ELSE more[k - Len(l)]
    BY <1>2, <1>4, ConcatProperties
  <2>3. Len(more) \in Nat /\ Len(l) \in Nat
    BY <1>2, <1>4
  <2> HIDE DEF m, l
  <2>4. \A k \in 1..Len(l) : m[k] = l[k]
    BY <2>2, <2>3
  <2>5. ASSUME NEW k \in (Len(l) + 1)..Len(m) PROVE m[k] = more[k - Len(l)] /\ k - Len(l) \in 1..Len(more)
    BY <2>2, <2>3
  <2> QED
    BY <2>1, <2>2, <2>4, <2>5
<1>7. /\ \A v \in Units : EntryOK(log'[v], att') /\ WaitsOnce(log'[v])
      /\ \A v \in Units : \A q : WaitsAt(log'[v], q) => WaitsAt(log[v], q) /\ log'[v][q] = log[v][q]
      /\ \A v \in Units : \A x : Waits(log'[v], x) => Waits(log[v], x)
      /\ \A n \in 1..Len(takes) : Answered(log'[takes[n][1]], takes[n][2])
  BY <1>5, LogsGrow, "suspend" \notin kinds
<1> HIDE DEF m, kinds
<1>8. Len(l) + 1 \in (Len(l) + 1)..Len(m) /\ m[Len(l) + 1] = more[1] /\ Len(m) \in Nat
  <2>1. Len(m) = Len(l) + Len(more) /\ Len(l) \in Nat /\ Len(more) \in {1, 2}
    BY <1>2, <1>4, <1>6
  <2>2. Len(l) + 1 \in (Len(l) + 1)..Len(m) /\ (Len(l) + 1) - Len(l) = 1 /\ Len(m) \in Nat
    <3> HIDE DEF l
    <3> QED
      BY <2>1
  <2> QED
    BY <1>6, <2>2
<1>9. AboutOthers
  <2> SUFFICES ASSUME NEW r \in todo \ {row}, NEW k \in (Len(log[r.unit]) + 1)..Len(log'[r.unit])
               PROVE  log'[r.unit][k].of # r.pos /\ log'[r.unit][k].sid # log[r.unit][r.pos].sid
    BY <1>1 DEF AboutOthers
  <2>1. r.unit \in Units /\ WaitsAt(log[r.unit], r.pos) /\ log[r.unit] \in Seq(LogEntry) /\ Len(log[r.unit]) \in Nat
    BY DEF AttInv, Phases, LogInv, LogTypes, TodoWaits
  <2>2. CASE r.unit # u
    BY <1>6, <2>1, <2>2
  <2>3. CASE r.unit = u
    <3>1. r.pos # p /\ r.pos # 0 /\ s = log[r.unit][p].sid
      BY <2>1, <2>3 DEF LogInv, TodoWaits, WaitsAt, s
    <3>2. log[r.unit][r.pos].sid # s
      BY <2>3, <3>1, TodoApart
    <3>3. k \in (Len(l) + 1)..Len(m) /\ log'[r.unit] = m
      BY <1>6, <2>3
    <3>4. m[k].of \in {0, p} /\ m[k].sid = s
      BY <1>4, <1>6, <3>3
    <3>5. m[k].of # r.pos /\ m[k].sid # log[r.unit][r.pos].sid
      BY <3>1, <3>2, <3>4
    <3> QED
      BY <3>3, <3>5
  <2> QED
    BY <2>2, <2>3
<1>10. TodoWaits'
  BY <1>1, <1>5, <1>9, TodoStays, "start" \notin kinds DEF kinds
<1>11. TakingIsNew'
  <2>1. Answered(m, p) /\ p \in 1..Len(m)
    <3>1. Len(l) \in Nat /\ Len(m) \in Nat /\ Len(l) + 1 <= Len(m) /\ m[Len(l) + 1].of = p
      BY <1>2, <1>4, <1>8
    <3>2. p \in 1..Len(l)
      BY <1>2
    <3> HIDE DEF l, p
    <3>3. Len(l) + 1 \in 1..Len(m) /\ p \in 1..Len(m)
      BY <3>1, <3>2
    <3> QED
      BY <3>1, <3>3 DEF Answered
  <2>2. ~Waits(m, s)
    <3> SUFFICES ASSUME NEW q \in 1..Len(m), WaitsAt(m, q), m[q].sid = s PROVE FALSE
      BY DEF Waits
    <3>1. WaitsAt(l, q) /\ l[q].sid = s
      BY <1>2, <1>6, <1>7
    <3>2. q = p
      BY <1>2, <3>1 DEF WaitsOnce, WaitsAt, s
    <3> QED
      BY <2>1, <3>2 DEF WaitsAt
  <2>3. \A n \in 1..Len(takes) : takes[n] # <<u, p>>
    BY <1>2 DEF LogInv, TakesAnswered
  <2>4. m[p].sid = s
    BY <1>2, <1>6 DEF s
  <2>5. \A r \in taking' : r = row
    BY <1>1
  <2> QED
    BY <1>1, <1>6, <2>1, <2>2, <2>3, <2>4, <2>5 DEF TakingIsNew
<1>12. NotOverNewerWork'
  <2>1. CASE problem
    BY <1>5, <2>1, LogsGrow, "suspend" \notin {"refused", "end"}, "resumed" \notin {"refused", "end"}
  <2>2. CASE ~problem
    <3>1. Newest(l, p) /\ Len(m) = Len(l) + 1 /\ m[Len(l) + 1].of = p /\ m[Len(l) + 1].sid = s
      BY <1>2, <1>4, <1>6, <1>8, <1>g, <2>2
    <3> SUFFICES ASSUME NEW v \in Units, NEW q \in 1..Len(log'[v]), log'[v][q].kind = "resumed",
                        NEW k \in 1..Len(log'[v]), log'[v][q].of < k, k < q
                 PROVE  log'[v][k].kind # "start" /\ ~(log'[v][k].kind = "end" /\ log'[v][k].sid = log'[v][q].sid)
      <4>1. \A v \in Units : DOMAIN log'[v] = 1..Len(log'[v])
        BY <1>5 DEF GrowsBy
      <4> QED
        BY <4>1 DEF NotOverNewerWork
    <3>2. log[v] \in Seq(LogEntry) /\ DOMAIN log[v] = 1..Len(log[v]) /\ Len(log[v]) \in Nat
      BY DEF LogInv, LogTypes
    <3>3. CASE v # u \/ q \in 1..Len(l)
      <4>1. q \in 1..Len(log[v]) /\ k \in 1..Len(log[v]) /\ log'[v][q] = log[v][q] /\ log'[v][k] = log[v][k]
        BY <1>2, <1>6, <3>2, <3>3
      <4> QED
        BY <3>2, <4>1 DEF LogInv, NotOverNewerWork
    <3>4. CASE v = u /\ q \notin 1..Len(l)
      <4>1. q = Len(l) + 1 /\ k \in 1..Len(l) /\ k > p /\ log'[v][k] = l[k] /\ log'[v][q].sid = s
        BY <1>2, <1>6, <3>1, <3>4
      <4>2. l[k].kind # "start" /\ ~(l[k].kind = "end" /\ l[k].sid = l[p].sid)
        BY <3>1, <4>1 DEF Newest
      <4> QED
        BY <4>1, <4>2 DEF s
    <3> QED
      BY <3>3, <3>4
  <2> QED
    BY <2>1, <2>2
<1>13. LogTypes' /\ TakesAnswered'
  BY <1>1, <1>5, <1>7 DEF LogInv, LogTypes, GrowsBy, TakesAnswered, TakenUpOnce
<1>14. SidsAre' /\ NoneRunsThatWaits'
  BY <1>1, <1>7 DEF LogInv, SidsAre, NoneRunsThatWaits, Pausing
<1> QED
  BY <1>7, <1>10, <1>11, <1>12, <1>13, <1>14 DEF LogInv

\* A finite set as a sequence, each element once.
LEMMA SetToSeqIs ==
  ASSUME NEW S, IsFiniteSet(S)
  PROVE  /\ SetToSeq(S) \in Seq(S) /\ Len(SetToSeq(S)) \in Nat
         /\ \A j, k \in 1..Len(SetToSeq(S)) : SetToSeq(S)[j] = SetToSeq(S)[k] => j = k
<1> DEFINE n == Cardinality(S)
<1>1. n \in Nat /\ \E f \in [1..n -> S] : IsInjective(f)
  BY FS_CardinalityType DEF ExistsBijection, Bijection, Injection
<1>2. SetToSeq(S) \in [1..n -> S] /\ IsInjective(SetToSeq(S))
  BY <1>1 DEF SetToSeq
<1> HIDE DEF n
<1>3. SetToSeq(S) \in Seq(S) /\ Len(SetToSeq(S)) = n
  BY <1>1, <1>2
<1> QED
  BY <1>1, <1>2, <1>3 DEF IsInjective

\* The rows of a pause, of one unit.
Paused(u, lost) == {Entry("suspend", sid[i], 0) : i \in {j \in captured \ lost : att[j].unit = u}}

\* What a pause writes in the log of a unit: one `suspend` for each session of it that was captured and not lost.
LEMMA PausedIs ==
  ASSUME LogInv, NEW u \in Units, NEW lost
  PROVE  /\ IsFiniteSet(Paused(u, lost)) /\ Paused(u, lost) \subseteq LogEntry
         /\ \A e \in Paused(u, lost) :
              /\ e.kind = "suspend" /\ e.of = 0 /\ e.sid \in Ids /\ att[e.sid].state # "none" /\ ~Waits(log[u], e.sid)
              /\ e = Entry("suspend", e.sid, 0)
<1> DEFINE of == {j \in captured \ lost : att[j].unit = u}
<1>1. captured \subseteq Ids /\ of \subseteq captured
  BY DEF LogInv, LogTypes
<1>2. IsFiniteSet(Ids)
  BY StoreAssumption, FS_Interval DEF Ids
<1>3. IsFiniteSet(of)
  BY <1>1, <1>2, FS_Subset
<1> DEFINE f == [i \in of |-> Entry("suspend", sid[i], 0)]
<1>4. f \in Surjection(of, Paused(u, lost))
  BY DEF Surjection, Paused
<1>5. IsFiniteSet(Paused(u, lost))
  BY <1>3, <1>4, FS_Surjection
<1>6. ASSUME NEW i \in of
      PROVE  LET e == Entry("suspend", sid[i], 0)
             IN /\ e \in LogEntry /\ e.kind = "suspend" /\ e.of = 0 /\ e.sid = sid[i] /\ e.sid \in Ids
                /\ att[e.sid].state # "none" /\ ~Waits(log[u], e.sid)
  <2>1. sid[i] \in Ids /\ att[sid[i]].state # "none" /\ ~Waits(log[u], sid[i])
    BY <1>1 DEF LogInv, LogTypes, SidsAre, NoneRunsThatWaits
  <2> QED
    BY <2>1 DEF Entry, LogEntry
<1> QED
  BY <1>5, <1>6 DEF Paused

\* The rows of a pause wait, each session once.
LEMMA PausedOnce ==
  ASSUME NEW l \in Seq(LogEntry), NEW f \in Seq(LogEntry), WaitsOnce(l),
         \A j, k \in 1..Len(f) : f[j] = f[k] => j = k,
         \A k \in 1..Len(f) : ~Waits(l, f[k].sid) /\ f[k] = Entry("suspend", f[k].sid, 0)
  PROVE  WaitsOnce(l \o f)
<1> DEFINE m == l \o f
<1>1. /\ Len(l) \in Nat /\ Len(f) \in Nat /\ Len(m) = Len(l) + Len(f)
      /\ \A k \in 1 .. Len(l) + Len(f) : m[k] = IF k <= Len(l) THEN l[k] ELSE f[k - Len(l)]
  BY ConcatProperties
<1> HIDE DEF m
<1>2. \A k \in 1..Len(m) : \/ k \in 1..Len(l) /\ m[k] = l[k]
                           \/ k - Len(l) \in 1..Len(f) /\ m[k] = f[k - Len(l)]
  BY <1>1
<1>3. \A p \in 1..Len(l) : WaitsAt(m, p) => WaitsAt(l, p)
  <2>1. \A k \in 1..Len(l) : k \in 1..Len(m) /\ m[k] = l[k]
    BY <1>1
  <2> QED
    BY <2>1 DEF WaitsAt, Answered
<1>4. ASSUME NEW p \in 1..Len(m), NEW q \in 1..Len(m), WaitsAt(m, p), WaitsAt(m, q), m[p].sid = m[q].sid
      PROVE  p = q
  <2>1. CASE p \in 1..Len(l) /\ q \in 1..Len(l)
    BY <1>1, <1>3, <1>4, <2>1 DEF WaitsOnce
  <2>2. CASE p \in 1..Len(l) /\ q \notin 1..Len(l)
    BY <1>1, <1>2, <1>3, <1>4, <2>2 DEF Waits
  <2>3. CASE p \notin 1..Len(l) /\ q \in 1..Len(l)
    BY <1>1, <1>2, <1>3, <1>4, <2>3 DEF Waits
  <2>4. CASE p \notin 1..Len(l) /\ q \notin 1..Len(l)
    <3> DEFINE j == p - Len(l)  k == q - Len(l)
    <3>1. j \in 1..Len(f) /\ k \in 1..Len(f) /\ f[j].sid = f[k].sid
      BY <1>2, <1>4, <2>4
    <3> HIDE DEF j, k
    <3>2. j = k
      BY <3>1
    <3> QED
      BY <1>1, <3>2 DEF j, k
  <2> QED
    BY <2>1, <2>2, <2>3, <2>4
<1> QED
  BY <1>4 DEF WaitsOnce, m

\* The rows of a pause are written: its sessions wait from here, and run no more when the process does.
LEMMA LogPauses ==
  ASSUME AttInv, LogInv, Stays, NEW lost \in SUBSET captured, SuspendRows(lost), boot # "resuming"
  PROVE  LogInv'
<1> USE DEF rows, flows, updater, gates, resume, bounds
<1>1. /\ UNCHANGED <<att, run, sid, todo, taking, takes>> /\ todo = {} /\ taking = {} /\ upd' = "settling" /\ captured' = {}
      /\ log' = [u \in Units |-> log[u] \o SetToSeq(Paused(u, lost))]
  BY DEF SuspendRows, Paused, AttInv, Phases
<1>2. ASSUME NEW u \in Units
      PROVE  /\ Grown(log[u], log'[u]) /\ log'[u] \in Seq(LogEntry) /\ WaitsOnce(log'[u])
             /\ \A k \in (Len(log[u]) + 1)..Len(log'[u]) :
                  log'[u][k].kind \in {"suspend"} /\ log'[u][k].of < k /\ att'[log'[u][k].sid].state # "none"
  <2> DEFINE l == log[u]  f == SetToSeq(Paused(u, lost))  m == l \o f
  <2>1. f \in Seq(Paused(u, lost)) /\ Len(f) \in Nat /\ \A j, k \in 1..Len(f) : f[j] = f[k] => j = k
    BY PausedIs, SetToSeqIs
  <2>2. l \in Seq(LogEntry) /\ Len(l) \in Nat /\ WaitsOnce(l) /\ log'[u] = m
    BY <1>1 DEF LogInv, LogTypes
  <2> HIDE DEF f, l
  <2>3. \A k \in 1..Len(f) : f[k] \in Paused(u, lost)
    BY <2>1, ElementOfSeq
  <2>4. f \in Seq(LogEntry)
    <3>1. f \in [1..Len(f) -> LogEntry]
      BY <2>1, <2>3, PausedIs, LenProperties
    <3> QED
      BY <2>1, <3>1
  <2>5. \A k \in 1..Len(f) : /\ f[k].kind = "suspend" /\ f[k].of = 0 /\ att'[f[k].sid].state # "none"
                             /\ ~Waits(l, f[k].sid) /\ f[k] = Entry("suspend", f[k].sid, 0)
    BY <1>1, <2>3, PausedIs DEF l
  <2>6. WaitsOnce(m)
    BY <2>1, <2>2, <2>4, <2>5, PausedOnce
  <2>7. /\ m \in Seq(LogEntry) /\ Len(m) = Len(l) + Len(f)
        /\ \A k \in 1 .. Len(l) + Len(f) : m[k] = IF k <= Len(l) THEN l[k] ELSE f[k - Len(l)]
    BY <2>2, <2>4, ConcatProperties
  <2> HIDE DEF m
  <2>8. Grown(l, m)
    BY <2>1, <2>2, <2>7 DEF Grown
  <2>9. \A k \in (Len(l) + 1)..Len(m) : m[k].kind = "suspend" /\ m[k].of < k /\ att'[m[k].sid].state # "none"
    <3> SUFFICES ASSUME NEW k \in (Len(l) + 1)..Len(m)
                 PROVE  m[k].kind = "suspend" /\ m[k].of < k /\ att'[m[k].sid].state # "none"
      OBVIOUS
    <3>1. k - Len(l) \in 1..Len(f) /\ m[k] = f[k - Len(l)] /\ 0 < k
      BY <2>1, <2>2, <2>7
    <3> QED
      BY <2>5, <3>1
  <2> QED
    BY <2>2, <2>6, <2>7, <2>8, <2>9 DEF l
<1>3. GrowsBy({"suspend"})
  BY <1>1, <1>2 DEF GrowsBy
<1>4. /\ \A u \in Units : EntryOK(log'[u], att')
      /\ \A n \in 1..Len(takes) : Answered(log'[takes[n][1]], takes[n][2])
      /\ NotOverNewerWork'
  BY <1>3, LogsKeep, "resumed" \notin {"suspend"}
<1>5. LogTypes' /\ TakesAnswered' /\ TodoWaits' /\ TakingIsNew'
  BY <1>1, <1>3, <1>4 DEF LogInv, LogTypes, GrowsBy, TakesAnswered, TakenUpOnce, TodoWaits, TakingIsNew
<1>6. SidsAre' /\ NoneRunsThatWaits'
  BY <1>1 DEF LogInv, SidsAre, NoneRunsThatWaits, Pausing
<1> QED
  BY <1>2, <1>4, <1>5, <1>6 DEF LogInv

\* Every step keeps what the log says.
LEMMA LogStep == AttInv /\ LogInv /\ [Next]_vars => LogInv'
<1> SUFFICES ASSUME AttInv, LogInv, [Next]_vars PROVE LogInv'
  OBVIOUS
<1>1. Stays
  BY AttStep
<1>2. ASSUME NEW u \in Units, Begin(u), boot # "resuming" PROVE LogInv'
  BY <1>1, <1>2, LogBegins
<1>3. ASSUME NEW i \in Ids, RunTurn(i), boot # "resuming" PROVE LogInv'
  BY <1>1, <1>3, LogRunTurn
<1>4. ASSUME \/ \E i \in Ids : Stop(i)
             \/ MechBegins \/ Roads \/ Escalates \/ MechEnds
             \/ Press \/ Cancel \/ MaybeApply(TRUE) \/ MaybeApply(FALSE) \/ Fails \/ TrialBegins \/ SuspendAll
             \/ ShutsDown \/ HandOff \/ HandOffFails,
             boot # "resuming"
      PROVE  LogInv'
  BY <1>1, <1>4, LogStill
<1>5. ASSUME NEW lost \in SUBSET captured, SuspendRows(lost), boot # "resuming" PROVE LogInv'
  BY <1>1, <1>5, LogPauses
<1>6. CASE StartsAgain
  <2>1. CASE Boots
    BY <1>1, <2>1, LogCrash DEF Boots
  <2>2. ASSUME NEW read \in BOOLEAN, ResumeReads(read) PROVE LogInv'
    BY <1>1, <2>2, LogReads
  <2>3. ASSUME NEW row \in todo, NEW unfit \in BOOLEAN, ResumeRow(row, unfit) PROVE LogInv'
    BY <1>1, <2>3, LogVerdict
  <2>4. CASE ResumeEnds \/ \E row \in todo : ResumeBusy(row)
    BY <1>1, <2>4, LogLeaves
  <2>5. ASSUME NEW row \in taking, TakesUp(row) PROVE LogInv'
    BY <1>1, <2>5, LogTakesUp
  <2>6. ASSUME NEW row \in taking, TakeUpRaises(row) PROVE LogInv'
    BY <1>1, <2>6, LogRaises
  <2> QED
    BY <1>6, <2>1, <2>2, <2>3, <2>4, <2>5, <2>6 DEF StartsAgain
<1>7. CASE Crash
  BY <1>1, <1>7, LogCrash
<1>8. CASE UNCHANGED vars
  BY <1>1, <1>8, LogSame
<1> QED
  BY <1>2, <1>3, <1>4, <1>5, <1>6, <1>7, <1>8 DEF Next, Turns, Applies

\* The log is empty at first.
LEMMA LogBeginsEmpty == Init => LogInv
<1> SUFFICES ASSUME Init PROVE LogInv
  OBVIOUS
<1>1. /\ log = [u \in Units |-> <<>>] /\ sid = [i \in Ids |-> 0] /\ run = [i \in Ids |-> "none"]
      /\ captured = {} /\ todo = {} /\ taking = {} /\ takes = <<>>
  BY DEF Init
<1>2. \A u \in Units : log[u] = <<>> /\ Len(log[u]) = 0 /\ 1..Len(log[u]) = {} /\ DOMAIN log[u] = {}
  BY <1>1
<1>3. LogTypes
  BY <1>1 DEF LogTypes
<1>4. \A u \in Units : EntryOK(log[u], att) /\ WaitsOnce(log[u])
  BY <1>2 DEF EntryOK, WaitsOnce
<1>5. SidsAre /\ NoneRunsThatWaits
  BY <1>1 DEF SidsAre, NoneRunsThatWaits
<1>6. TodoWaits /\ TakingIsNew
  BY <1>1 DEF TodoWaits, TakingIsNew
<1>7. takes \in Seq(Units \X Nat) /\ Len(takes) = 0 /\ 1..Len(takes) = {} /\ DOMAIN takes = {}
  BY <1>1
<1>8. TakesAnswered /\ NotOverNewerWork
  BY <1>2, <1>7 DEF TakesAnswered, TakenUpOnce, IsInjective, NotOverNewerWork
<1> QED
  BY <1>3, <1>4, <1>5, <1>6, <1>8 DEF LogInv

\* In any behaviour of Update, whatever dies, fails or is busy, a suspended session is taken up at
\* most once: its `resume` row is there before it is, and what has one is not read again.
THEOREM SessionsAreTakenUpOnce == Spec => []TakenUpOnce
<1>1. LogInv => TakenUpOnce
  BY DEF LogInv, TakesAnswered
<1> QED
  BY <1>1, AttBegins, LogBeginsEmpty, AttStep, LogStep, PTL DEF Spec

\* And none is taken up over newer work: between its `suspend` row and the `resume` row that takes it
\* up nothing of its unit started, nor did it end itself.
THEOREM NewerWorkIsKept == Spec => []NotOverNewerWork
<1>1. LogInv => NotOverNewerWork
  BY DEF LogInv
<1> QED
  BY <1>1, AttBegins, LogBeginsEmpty, AttStep, LogStep, PTL DEF Spec

-----------------------------------------------------------------------------
(* Types.                                                                  *)

Updaters == {"idle", "pending", "applying", "trial", "suspending", "settling", "down"}
Mechs == {"no", "undecided", "mechanical", "gebo"}
LogRows == [unit : Units, pos : Nat \ {0}, gone : BOOLEAN]

\* A process that is down has no updater at work.
GateTypes ==
  /\ parallel \in 1 .. MaxParallel /\ upd \in Updaters /\ mech \in Mechs /\ told \in BOOLEAN /\ closed \in BOOLEAN
  /\ boot \in {"down", "recovering", "resuming", "up"}
  /\ boot = "down" => upd = "idle"

QueueTypes == todo \cup taking \subseteq LogRows /\ takes \in Seq(Units \X (Nat \ {0}))

\* Only a handle that is still there is marked, and only while sessions are paused.
MarkTypes ==
  /\ stopReq \subseteq Ids /\ marked \subseteq Ids /\ paused \in BOOLEAN
  /\ marked # {} => paused
  /\ \A i \in marked : run[i] # "none"

TypeInv == GateTypes /\ QueueTypes /\ MarkTypes

\* What the turns of a run and a Stop leave of the types.
LEMMA TurnTypes ==
  ASSUME TypeInv, run \in [Ids -> Runs], boot # "down", NEW i \in Ids, RunTurn(i) \/ Stop(i)
  PROVE  TypeInv'
<1>1. UNCHANGED <<parallel, upd, mech, closed, paused, boot, todo, taking, takes>>
  BY DEF RunTurn, Stop, StartRow, OpenStream, Reply, Closed, Seal, EndRow, Over, Suspends, GoesDown, StoppedEarly,
         StopLands, rows, flows, updater, gates, resume, bounds
<1>2. told' = told \/ Told
  BY DEF RunTurn, Stop, StartRow, OpenStream, Reply, Closed, Seal, EndRow, Over, Suspends, GoesDown, StoppedEarly,
         StopLands, rows, flows, updater, gates, resume, bounds
<1>3. \/ TaskOver(i)
      \/ UNCHANGED <<stopReq, marked>> /\ \E r \in Runs \ {"none"} : SetRun(i, r)
      \/ marked' = marked /\ run' = run /\ stopReq' \in {stopReq, stopReq \cup {i}}
  <2>1. CASE Stop(i)
    BY <2>1 DEF Stop
  <2>2. CASE Over(i) \/ Suspends(i) \/ GoesDown(i) \/ StoppedEarly(i)
    BY <2>2 DEF Over, Suspends, GoesDown, StoppedEarly
  <2>3. CASE \E repair \in BOOLEAN : Seal(i, repair)
    BY <2>3 DEF Seal, SetRun, Runs
  <2>4. CASE StartRow(i) \/ OpenStream(i) \/ Reply(i) \/ Closed(i) \/ EndRow(i) \/ StopLands(i)
    BY <2>4 DEF StartRow, OpenStream, Reply, Closed, EndRow, StopLands, Runs
  <2> QED
    BY <2>1, <2>2, <2>3, <2>4 DEF RunTurn
<1>4. GateTypes'
  BY <1>1, <1>2 DEF TypeInv, GateTypes, Told
<1>5. QueueTypes'
  BY <1>1 DEF TypeInv, QueueTypes
<1>6. MarkTypes'
  BY <1>1, <1>3 DEF TypeInv, MarkTypes, TaskOver, SetRun
<1> QED
  BY <1>4, <1>5, <1>6 DEF TypeInv

\* A process that is gone.
LEMMA ForgottenTypes ==
  ASSUME TypeInv, Forgotten, boot' \in {"down", "recovering", "resuming", "up"}, UNCHANGED <<parallel, takes>>
  PROVE  TypeInv'
<1>1. GateTypes'
  BY DEF TypeInv, GateTypes, Forgotten, Updaters, Mechs
<1>2. QueueTypes'
  BY DEF TypeInv, QueueTypes, Forgotten
<1>3. MarkTypes'
  BY DEF TypeInv, MarkTypes, Forgotten
<1> QED
  BY <1>1, <1>2, <1>3 DEF TypeInv

\* What changes neither a run nor what is taken up.
LEMMA UpdaterTypes ==
  ASSUME TypeInv, UNCHANGED <<parallel, run, stopReq, marked, paused, todo, taking, takes>>, closed' \in BOOLEAN,
         upd' \in Updaters, mech' \in Mechs, told' \in BOOLEAN,
         \/ boot' = boot /\ boot # "down"
         \/ boot' \in {"recovering", "up"}
         \/ boot' = boot /\ upd' = upd
  PROVE  TypeInv'
<1>1. GateTypes' /\ QueueTypes' /\ MarkTypes'
  BY DEF TypeInv, GateTypes, QueueTypes, MarkTypes
<1> QED
  BY <1>1 DEF TypeInv

\* What the rows a start reads and writes leave of the types.
LEMMA QueueStepTypes ==
  ASSUME TypeInv, UNCHANGED <<parallel, upd, mech, told, closed, paused, stopReq, marked>>,
         boot' = boot \/ boot' \in {"resuming", "up"},
         QueueTypes', \A i \in marked : run'[i] # "none"
  PROVE  TypeInv'
<1>1. GateTypes' /\ MarkTypes'
  BY DEF TypeInv, GateTypes, MarkTypes
<1> QED
  BY <1>1 DEF TypeInv

\* Every step keeps the types.
LEMMA TypeStep == AttInv /\ LogInv /\ TypeInv /\ [Next]_vars => TypeInv'
<1> SUFFICES ASSUME AttInv, LogInv, TypeInv, [Next]_vars PROVE TypeInv'
  OBVIOUS
<1> USE DEF rows, flows, updater, gates, resume, bounds
<1>0. run \in [Ids -> Runs]
  BY DEF AttInv, AttTypes
<1>1. /\ upd \in Updaters /\ mech \in Mechs /\ told \in BOOLEAN /\ closed \in BOOLEAN /\ (boot = "down" => upd = "idle")
      /\ boot \in {"down", "recovering", "resuming", "up"}
  BY DEF TypeInv, GateTypes
<1>2. ASSUME NEW i \in Ids, RunTurn(i) \/ Stop(i) PROVE TypeInv'
  <2>1. boot # "down"
    BY <1>2 DEF AttInv, Phases, RunTurn, Stop, Serving, Turn, StartRow, OpenStream, Reply, Closed, Seal, EndRow, Over,
                Suspends, GoesDown, StoppedEarly, StopLands
  <2> QED
    BY <1>0, <1>2, <2>1, TurnTypes
<1>3. ASSUME NEW u \in Units, Begin(u) PROVE TypeInv'
  <2>1. /\ UNCHANGED <<parallel, stopReq, marked, paused, closed, upd, mech, told, boot, todo, taking, takes>>
        /\ \E i \in Ids : SetRun(i, "opening")
    BY <1>3 DEF Begin
  <2>2. \A i \in marked : run'[i] # "none"
    BY <1>0, <2>1 DEF SetRun, TypeInv, MarkTypes
  <2>3. QueueTypes'
    BY <2>1 DEF TypeInv, QueueTypes
  <2> QED
    BY <2>1, <2>2, <2>3, QueueStepTypes
<1>4. CASE MechBegins \/ Roads \/ Escalates \/ MechEnds
  <2>1. mech' \in Mechs /\ told' \in BOOLEAN
    BY <1>1, <1>4 DEF MechBegins, Roads, RoadDecided, Escalates, MechEnds, Told, Mechs
  <2>2. UNCHANGED <<parallel, run, stopReq, marked, paused, closed, upd, boot, todo, taking, takes>>
    BY <1>4 DEF MechBegins, Roads, RoadDecided, Escalates, MechEnds
  <2> QED
    BY <1>1, <2>1, <2>2, UpdaterTypes
<1>5. CASE Press \/ Cancel \/ MaybeApply(TRUE) \/ MaybeApply(FALSE) \/ Fails \/ TrialBegins \/ ShutsDown
  <2>1. UNCHANGED <<parallel, run, stopReq, marked, paused, mech, boot, todo, taking, takes>>
    BY <1>5 DEF Press, Cancel, MaybeApply, Fails, TrialBegins, ShutsDown, Goes
  <2>2. upd' \in Updaters /\ told' \in BOOLEAN /\ closed' \in BOOLEAN
    BY <1>1, <1>5 DEF Press, Cancel, MaybeApply, Fails, TrialBegins, ShutsDown, Goes, Updaters
  <2>3. boot # "down" \/ upd' = upd
    BY <1>1, <1>5 DEF Press, Cancel, MaybeApply, Fails, TrialBegins, ShutsDown, Goes, Serving
  <2> QED
    BY <1>1, <2>1, <2>2, <2>3, UpdaterTypes
<1>6. CASE SuspendAll
  <2>1. UNCHANGED <<parallel, run, stopReq, mech, told, closed, boot, todo, taking, takes>> /\ boot # "down"
    BY <1>1, <1>6 DEF SuspendAll
  <2>2. \/ upd' = "pending" /\ UNCHANGED <<paused, marked>>
        \/ upd' = "suspending" /\ paused' = TRUE /\ marked' = marked \cup {i \in Ids : InSteps(i)}
    BY <1>6 DEF SuspendAll
  <2>3. GateTypes' /\ QueueTypes'
    BY <2>1, <2>2 DEF TypeInv, GateTypes, QueueTypes, Updaters
  <2>4. MarkTypes'
    BY <2>1, <2>2 DEF TypeInv, MarkTypes, InSteps
  <2> QED
    BY <2>3, <2>4 DEF TypeInv
<1>7. ASSUME NEW lost \in SUBSET captured, SuspendRows(lost) PROVE TypeInv'
  <2>1. /\ UNCHANGED <<parallel, run, stopReq, marked, paused, mech, told, closed, boot, todo, taking, takes>>
        /\ upd' = "settling" /\ boot # "down"
    BY <1>1, <1>7 DEF SuspendRows
  <2> QED
    BY <1>1, <2>1, UpdaterTypes DEF Updaters
<1>8. CASE HandOff \/ Crash
  BY <1>8, ForgottenTypes DEF HandOff, Crash
<1>9. CASE HandOffFails
  <2>1. marked = {}
    BY <1>9 DEF HandOffFails, HandedOver, TypeInv, MarkTypes
  <2>2. /\ UNCHANGED <<parallel, run, stopReq, marked, mech, told, todo, taking, takes>>
        /\ upd' = "idle" /\ paused' = FALSE /\ closed' = FALSE /\ boot' = "recovering"
    BY <1>9 DEF HandOffFails
  <2>3. GateTypes' /\ QueueTypes' /\ MarkTypes'
    BY <2>1, <2>2 DEF TypeInv, GateTypes, QueueTypes, MarkTypes, Updaters
  <2> QED
    BY <2>3 DEF TypeInv
<1>10. CASE Boots
  <2>1. /\ UNCHANGED <<parallel, run, stopReq, marked, paused, mech, told, closed, upd, todo, taking, takes>>
        /\ boot' = "recovering"
    BY <1>10 DEF Boots
  <2> QED
    BY <1>1, <2>1, UpdaterTypes
<1>11. ASSUME NEW read \in BOOLEAN, ResumeReads(read) PROVE TypeInv'
  <2>1. /\ UNCHANGED <<parallel, run, stopReq, marked, paused, mech, told, closed, upd, taking, takes>>
        /\ boot' = "resuming"
    BY <1>11 DEF ResumeReads
  <2>2. \/ todo' = UNION {{[unit |-> u, pos |-> p, gone |-> MovedOn(u, p)] : p \in Unresumed(u)} : u \in Units}
        \/ todo' = {}
    BY <1>11 DEF ResumeReads
  <2>3. ASSUME NEW u \in Units, NEW p \in Unresumed(u) PROVE [unit |-> u, pos |-> p, gone |-> MovedOn(u, p)] \in LogRows
    <3>1. log[u] \in Seq(LogEntry)
      BY DEF LogInv, LogTypes
    <3>2. DOMAIN log[u] = 1..Len(log[u]) /\ Len(log[u]) \in Nat
      BY <3>1
    <3>3. p \in Nat \ {0}
      BY <3>2 DEF Unresumed
    <3>4. MovedOn(u, p) \in BOOLEAN
      BY DEF MovedOn
    <3> QED
      BY <3>3, <3>4 DEF LogRows
  <2>4. todo' \subseteq LogRows
    BY <2>2, <2>3
  <2>5. QueueTypes'
    BY <2>1, <2>4 DEF TypeInv, QueueTypes
  <2> QED
    BY <2>1, <2>5, QueueStepTypes DEF TypeInv, MarkTypes
<1>12. ASSUME NEW row \in todo, ResumeBusy(row) \/ \E unfit \in BOOLEAN : ResumeRow(row, unfit) PROVE TypeInv'
  <2>1. /\ UNCHANGED <<parallel, run, stopReq, marked, paused, mech, told, closed, upd, boot, takes>>
        /\ todo' = todo \ {row} /\ taking' \in {taking, {}, {row}}
    BY <1>12 DEF ResumeBusy, ResumeRow
  <2>2. QueueTypes'
    BY <2>1 DEF TypeInv, QueueTypes
  <2> QED
    BY <2>1, <2>2, QueueStepTypes DEF TypeInv, MarkTypes
<1>13. ASSUME NEW row \in taking, TakesUp(row) PROVE TypeInv'
  <2>1. /\ UNCHANGED <<parallel, stopReq, marked, paused, mech, told, closed, upd, boot, todo>>
        /\ taking' = {} /\ takes' = Append(takes, <<row.unit, row.pos>>) /\ \E i \in Ids : SetRun(i, "opened")
    BY <1>13 DEF TakesUp
  <2>2. row \in LogRows /\ takes \in Seq(Units \X (Nat \ {0})) /\ todo \subseteq LogRows
    BY DEF TypeInv, QueueTypes
  <2>3. <<row.unit, row.pos>> \in Units \X (Nat \ {0})
    BY <2>2 DEF LogRows
  <2>4. takes' \in Seq(Units \X (Nat \ {0}))
    BY <2>1, <2>2, <2>3
  <2>5. QueueTypes'
    BY <2>1, <2>2, <2>4 DEF QueueTypes
  <2>6. \A i \in marked : run'[i] # "none"
    BY <1>0, <2>1 DEF SetRun, TypeInv, MarkTypes
  <2> QED
    BY <2>1, <2>5, <2>6, QueueStepTypes
<1>14. ASSUME NEW row \in taking, TakeUpRaises(row) PROVE TypeInv'
  <2>1. /\ UNCHANGED <<parallel, run, stopReq, marked, paused, mech, told, closed, upd, boot, todo, takes>> /\ taking' = {}
    BY <1>14 DEF TakeUpRaises
  <2>2. QueueTypes'
    BY <2>1 DEF TypeInv, QueueTypes
  <2> QED
    BY <2>1, <2>2, QueueStepTypes DEF TypeInv, MarkTypes
<1>15. CASE ResumeEnds
  <2>1. /\ UNCHANGED <<parallel, run, stopReq, marked, paused, mech, told, closed, upd, todo, taking, takes>>
        /\ boot' = "up"
    BY <1>15 DEF ResumeEnds
  <2> QED
    BY <1>1, <2>1, UpdaterTypes
<1>16. CASE UNCHANGED vars
  BY <1>1, <1>16, UpdaterTypes DEF vars
<1> QED
  BY <1>2, <1>3, <1>4, <1>5, <1>6, <1>7, <1>8, <1>9, <1>10, <1>11, <1>12, <1>13, <1>14, <1>15, <1>16
     DEF Next, Turns, Applies, StartsAgain

\* The types at first.
LEMMA TypeBegins == Init => TypeInv
<1> SUFFICES ASSUME Init PROVE TypeInv
  OBVIOUS
<1>1. MaxParallel \in 1 .. MaxParallel
  BY StoreAssumption
<1>2. takes \in Seq(Units \X (Nat \ {0}))
  BY DEF Init
<1> QED
  BY <1>1, <1>2 DEF Init, TypeInv, GateTypes, QueueTypes, MarkTypes, Updaters, Mechs

\* The three invariants give the types.
LEMMA TypesHold == AttInv /\ LogInv /\ TypeInv => TypeOK
<1> SUFFICES ASSUME AttInv, LogInv, TypeInv PROVE TypeOK
  OBVIOUS
<1>1. att \in [Ids -> Row] /\ run \in [Ids -> Runs] /\ (boot = "down" => \A i \in Ids : run[i] = "none")
  BY DEF AttInv, AttTypes, Phases
<1>2. Ids \cup {0} = 0 .. MaxAttempts
  BY StoreAssumption DEF Ids
<1>3. sid \in [Ids -> 0 .. MaxAttempts] /\ captured \subseteq Ids
  BY <1>2 DEF LogInv, LogTypes
<1>4. \A u \in Units : log[u] \in Seq(LogEntry) /\ DOMAIN log[u] = 1..Len(log[u]) /\ Len(log[u]) \in Nat
  BY DEF LogInv, LogTypes
<1>5. ASSUME NEW u \in Units, NEW p \in DOMAIN log[u]
      PROVE  log[u][p] \in [kind : {"start", "end", "suspend", "resumed", "refused"}, sid : Ids, of : 0 .. Len(log[u])]
  <2>1. p \in 1..Len(log[u]) /\ log[u][p] \in LogEntry
    BY <1>4, <1>5
  <2>2. log[u][p].of < p
    BY <2>1 DEF LogInv, EntryOK
  <2>3. log[u][p].of \in 0 .. Len(log[u])
    BY <1>4, <2>1, <2>2 DEF LogEntry
  <2> QED
    BY <2>1, <2>3 DEF LogEntry
<1>6. ASSUME NEW row \in todo \cup taking
      PROVE  row.unit \in Units /\ row \in [unit : Units, pos : DOMAIN log[row.unit], gone : BOOLEAN]
  <2>1. row \in LogRows
    BY DEF TypeInv, QueueTypes
  <2>2. row.pos \in 1..Len(log[row.unit])
    BY DEF LogInv, TodoWaits, TakingIsNew, WaitsAt
  <2>3. row.unit \in Units /\ row.pos \in DOMAIN log[row.unit]
    BY <1>4, <2>1, <2>2 DEF LogRows
  <2> QED
    BY <2>1, <2>3 DEF LogRows
<1>7. ASSUME NEW n \in DOMAIN takes PROVE takes[n][1] \in Units /\ takes[n][2] \in DOMAIN log[takes[n][1]]
  <2>1. takes \in Seq(Units \X (Nat \ {0}))
    BY DEF TypeInv, QueueTypes
  <2>2. n \in 1..Len(takes) /\ takes[n] \in Units \X (Nat \ {0})
    BY <2>1
  <2>3. takes[n][1] \in Units /\ takes[n][2] \in Nat \ {0}
    BY <2>2
  <2>4. PICK q \in 1..Len(log[takes[n][1]]) : log[takes[n][1]][q].of = takes[n][2]
    BY <2>2 DEF LogInv, TakesAnswered, Answered
  <2>5. log[takes[n][1]][q].of < q
    BY <2>3 DEF LogInv, EntryOK
  <2> QED
    BY <1>4, <2>3, <2>4, <2>5
<1>8. /\ parallel \in 1 .. MaxParallel /\ stopReq \subseteq Ids /\ marked \subseteq Ids
      /\ upd \in {"idle", "pending", "applying", "trial", "suspending", "settling", "down"}
      /\ mech \in {"no", "undecided", "mechanical", "gebo"}
      /\ told \in BOOLEAN /\ closed \in BOOLEAN /\ paused \in BOOLEAN
      /\ boot \in {"down", "recovering", "resuming", "up"}
      /\ marked # {} => paused
      /\ boot = "down" => upd = "idle"
  BY DEF TypeInv, GateTypes, MarkTypes, Updaters, Mechs
<1> QED
  BY <1>1, <1>3, <1>5, <1>6, <1>7, <1>8 DEF TypeOK

\* In any behaviour of Update every variable has its type, what is to be taken up and what was are rows of
\* a log, a process that is down keeps nothing, and a handle is marked only while sessions are paused.
THEOREM UpdateIsTyped == Spec => []TypeOK
  BY TypesHold, AttBegins, LogBeginsEmpty, TypeBegins, AttStep, LogStep, TypeStep, PTL DEF Spec
-----------------------------------------------------------------------------
(* The lock the rows are: Update implements UnitLock too.                   *)

\* Ids are given in order: no id is skipped.
IdsInOrder == \A i, j \in Ids : j < i /\ att[i].state # "none" => att[j].state # "none"

\* A step that moves attempts gives up the locks of the units whose attempt it ends.
LEMMA MovesGiveUp ==
  ASSUME AttInv, Later(att, att')
  PROVE  [Lock!Next]_Lock!vars
<1> DEFINE ended == {u \in Units : Live(att', u) # Live(att, u)}
<1>1. \A u \in Units : Live(att', u) \subseteq Live(att, u)
  BY DEF Later, Live
<1>2. \A u \in Units : \A i, j \in Live(att, u) : i = j
  BY DEF AttInv, OneLive, Live
<1>3. \A u \in ended : Live(att', u) = {}
  BY <1>1, <1>2
<1>4. {i \in Ids : att'[i].state # "none"} = {i \in Ids : att[i].state # "none"}
  BY DEF Later
<1>5. [u \in Units |-> Live(att', u)]
        = [u \in Units |-> IF u \in ended THEN {} ELSE [v \in Units |-> Live(att, v)][u]]
  BY <1>3
<1>6. ended \in SUBSET Units
  OBVIOUS
<1> HIDE DEF ended
<1>7. Lock!GiveUp(ended)
  BY <1>4, <1>5 DEF Lock!GiveUp
<1> QED
  BY <1>6, <1>7 DEF Lock!Next

\* A click or a session taken up anew takes the lock of its unit, with an id newer than all before.
LEMMA OpensTakes ==
  ASSUME IdsInOrder, NEW i \in Ids, Opens(i)
  PROVE  [Lock!Next]_Lock!vars
<1> DEFINE u == att'[i].unit
           holds == [v \in Units |-> Live(att, v)]
           given == {j \in Ids : att[j].state # "none"}
<1>1. u \in Units /\ Live(att, u) = {} /\ att[i].state = "none" /\ att'[i].state \in Unfinished
  BY DEF Opens, MayOpen, IsNextId
<1>2. "none" \notin Unfinished /\ \A j \in Ids \ {i} : att'[j] = att[j]
  BY DEF Unfinished, HOLDING, Opens
<1>3. att'[i].unit = u
  OBVIOUS
<1> HIDE DEF u
<1>4. \A v \in Units \ {u} : Live(att', v) = Live(att, v)
  BY <1>1, <1>2, <1>3 DEF Live
<1>5. Live(att', u) = {i}
  <2>1. \A j \in Ids : j \in Live(att', u) <=> j = i
    BY <1>1, <1>2, <1>3 DEF Live
  <2>2. Live(att', u) \subseteq Ids
    BY DEF Live
  <2> QED
    BY <2>1, <2>2
<1>6. [v \in Units |-> Live(att', v)] = [holds EXCEPT ![u] = {i}]
  BY <1>1, <1>4, <1>5
<1>7. {j \in Ids : att'[j].state # "none"} = given \cup {i}
  BY <1>1, <1>2
<1>8. \A s \in given : s < i
  BY <1>1 DEF IdsInOrder, Ids
<1>9. Lock!Take(u, i)
  BY <1>1, <1>6, <1>7, <1>8 DEF Lock!Take
<1> QED
  BY <1>1, <1>9 DEF Lock!Next

\* Across an update, a crash, a recovery and what is taken up again, an attempt is still a lock on
\* its unit: no start and no session that goes on takes a unit that is held, and what was ended
\* never holds one again.
THEOREM UpdateKeepsTheLock == Spec => KeepsUnitLock
<1>1. ASSUME Init PROVE IdsInOrder /\ Lock!Init
  <2>1. \A i \in Ids : att[i].state = "none" /\ att[i].state \notin Unfinished
    BY <1>1 DEF Init, NoRow, Unfinished, HOLDING
  <2>2. \A u \in Units : Live(att, u) = {}
    BY <2>1 DEF Live
  <2>3. {i \in Ids : att[i].state # "none"} = {}
    BY <2>1
  <2> QED
    BY <2>1, <2>2, <2>3 DEF IdsInOrder, Lock!Init
<1>2. AttInv /\ IdsInOrder /\ [Next]_vars => IdsInOrder' /\ [Lock!Next]_Lock!vars
  <2> SUFFICES ASSUME AttInv, IdsInOrder, [Next]_vars PROVE IdsInOrder' /\ [Lock!Next]_Lock!vars
    OBVIOUS
  <2>1. CASE Later(att, att')
    <3>1. IdsInOrder'
      BY <2>1 DEF Later, IdsInOrder
    <3> QED
      BY <2>1, <3>1, MovesGiveUp
  <2>2. ASSUME NEW i \in Ids, Opens(i) PROVE IdsInOrder' /\ [Lock!Next]_Lock!vars
    <3>1. /\ \A j \in Ids \ {i} : att'[j].state = "none" <=> att[j].state = "none"
          /\ \A j \in Ids : j < i => att[j].state # "none"
          /\ att[i].state = "none" /\ att'[i].state # "none"
      BY <2>2 DEF Opens, IsNextId, Unfinished, HOLDING
    <3>2. \A j \in Ids : j < i => att'[j].state # "none"
      BY <3>1
    <3>3. IdsInOrder'
      BY <3>1, <3>2 DEF IdsInOrder
    <3> QED
      BY <2>2, <3>3, OpensTakes
  <2> QED
    BY <2>1, <2>2, AttMoves DEF MovesOrOpens
<1>3. AttInv /\ [Next]_vars => AttInv'
  BY AttStep
<1> QED
  BY <1>1, <1>2, <1>3, AttBegins, PTL DEF Spec, KeepsUnitLock, Lock!Spec
=============================================================================
