--------------------------- MODULE AttemptsProofs ---------------------------
(***************************************************************************)
(* Theorems about Attempts, for any number of units, attempts, slots and   *)
(* restarts.  The inductive invariant is Inv: the properties themselves    *)
(* and what the memory of a process says of the rows it works on.          *)
(***************************************************************************)
EXTENDS Attempts, FiniteSetTheorems, NaturalsInduction, TLAPS

\* The coroutine fits its row (RowsMatchTasks, of one attempt).
TaskFits(i) ==
  /\ task[i] \in {"toPrepare", "preparing", "stuck"} => att[i].state = "preparing"
  /\ task[i] = "acting" => att[i].state = "ending"
  /\ task[i] = "toDrive" => att[i].state = "running"
  /\ task[i] \in {"driving", "integrating"} => att[i].state \in {"running", "ending"}
  /\ task[i] = "afterEnd" => att[i].state = "ended"
  /\ task[i] \in InTasks
       => att[i].machine = IF task[i] = "integrating" THEN "integration" ELSE "step"

\* A Stop told to a coroutine is of a step past the queue that has not begun its ending, and a
\* step that is still prepared was cancelled with it.
StopRemembered(i) ==
  i \in stopReq => /\ att[i].machine = "step"
                   /\ att[i].state \notin {"none", "queued", "ending"}
                   /\ task[i] \in {"toPrepare", "preparing"} => i \in cancelled

\* What recovery has still to come to is past the queue, and nobody works on it; nobody works on
\* anything while no process is up.
LeftBehind(i) ==
  /\ i \in left => att[i].state \in HOLDING /\ task[i] = "none"
  /\ boot = "down" => task[i] = "none"

\* A hold's coroutine works on a hold, whatever its row has come to, and so does one told
\* `Illegal`.  A hold is never prepared nor ending, and no Stop is recorded on it.
HoldRow(i) ==
  /\ task[i] = "holding" \/ i \in illegal => att[i].machine = "hold" /\ att[i].state # "none"
  /\ att[i].machine = "hold" => att[i].state \notin {"preparing", "ending"}
  /\ att[i].machine = "integration" => att[i].state # "preparing"
  /\ att[i].stop => att[i].machine \in STOPPABLE /\ att[i].state # "none"

\* While the process is not going down, a Stop is behind every cancel.
CancelIsStop(i) == ~closed /\ i \in cancelled => i \in stopReq

\* HeldIsWorkedOn and StopShows, of one attempt.
WorkedOn(i) ==
  boot = "up" /\ ~closed /\ att[i].state \in HOLDING => task[i] \in InTasks \cup {"holding"}

StopShown(i) ==
  att[i].stop /\ att[i].state = "ended"
    => att[i].outcome \in {"stopped", "stop_late", "failed", "interrupted"}

\* No raise is on its way while no process is up.
NobodyRaises == boot = "down" => raising = {}

Sound(i) == /\ TaskFits(i)
            /\ StopRemembered(i)
            /\ LeftBehind(i)
            /\ HoldRow(i)
            /\ CancelIsStop(i)
            /\ WorkedOn(i)
            /\ StopShown(i)

Inv == /\ TypeOK
       /\ OneUnfinishedPerUnit
       /\ NobodyRaises
       /\ \A i \in Ids : Sound(i)

-----------------------------------------------------------------------------
(* What the operators on rows return.                                      *)

\* No machine moves a row that is not written.
LEMMA NoneStays ==
  ASSUME NEW a \in [Ids -> Row], NEW i \in Ids, NEW to, MayMove(a, i, to)
  PROVE  a[i].state # "none"
<1>1. a[i].machine \in {"step", "integration", "hold"}
  BY DEF Row, Machines
<1> QED
  BY <1>1 DEF MayMove, MACHINES

\* What a move leaves of the rows, when the table has it and when not.
LEMMA MovedRow ==
  ASSUME NEW a \in [Ids -> Row], NEW i \in Ids, NEW to \in HOLDING \cup ENDS,
         NEW outcome \in Outcomes
  PROVE  /\ Moved(a, i, to, outcome) \in [Ids -> Row]
         /\ \A j \in Ids \ {i} : Moved(a, i, to, outcome)[j] = a[j]
         /\ Moved(a, i, to, outcome)[i].machine = a[i].machine
         /\ Moved(a, i, to, outcome)[i].unit = a[i].unit
         /\ Moved(a, i, to, outcome)[i].stop = a[i].stop
         /\ MayMove(a, i, to) => /\ Moved(a, i, to, outcome)[i].state = to
                                 /\ to \in ENDS => Moved(a, i, to, outcome)[i].outcome = outcome
         /\ ~MayMove(a, i, to) => Moved(a, i, to, outcome)[i] = a[i]
<1>1. CASE ~MayMove(a, i, to)
  BY <1>1 DEF Moved
<1>2. CASE MayMove(a, i, to)
  <2> DEFINE r == [a[i] EXCEPT !.state = to, !.outcome = IF to \in ENDS THEN outcome ELSE ""]
  <2>1. Moved(a, i, to, outcome) = [a EXCEPT ![i] = r]
    BY <1>2 DEF Moved
  <2>2. a[i] \in Row /\ a[i].state # "none"
    BY <1>2, NoneStays
  <2>3. /\ r \in Row /\ r.machine = a[i].machine /\ r.unit = a[i].unit /\ r.stop = a[i].stop /\ r.state = to
        /\ to \in ENDS => r.outcome = outcome
    BY <2>2 DEF Row, HOLDING, ENDS, Unfinished, Outcomes
  <2> HIDE DEF r
  <2> QED
    BY <1>2, <2>1, <2>3
<1> QED
  BY <1>1, <1>2

\* The rows b are those of a with the state of i moved on.
MovesOn(a, b, i, to) ==
  /\ b \in [Ids -> Row] /\ b[i].state = to
  /\ b[i].machine = a[i].machine /\ b[i].unit = a[i].unit /\ b[i].stop = a[i].stop
  /\ \A j \in Ids \ {i} : b[j] = a[j]

\* A move the table has, to a state that is no end.
LEMMA MovedOn ==
  ASSUME NEW a \in [Ids -> Row], NEW i \in Ids, NEW to \in HOLDING, MayMove(a, i, to)
  PROVE  MovesOn(a, Moved(a, i, to, ""), i, to)
<1> DEFINE r == [a[i] EXCEPT !.state = to, !.outcome = ""]
<1>1. Moved(a, i, to, "") = [a EXCEPT ![i] = r]
  BY DEF Moved
<1>2. a[i] \in Row /\ a[i].state # "none"
  BY NoneStays
<1>3. r \in Row /\ r.machine = a[i].machine /\ r.unit = a[i].unit /\ r.stop = a[i].stop /\ r.state = to
  BY <1>2 DEF Row, HOLDING, Unfinished, Outcomes
<1> HIDE DEF r
<1> QED
  BY <1>1, <1>3 DEF MovesOn

\* The table of moves, read machine by machine.
LEMMA MovesTable ==
  ASSUME NEW a \in [Ids -> Row], NEW i \in Ids, NEW to
  PROVE  MayMove(a, i, to) <=>
           \/ /\ a[i].machine = "step"
              /\ \/ a[i].state = "queued" /\ to \in {"preparing", "ended", "refused"}
                 \/ a[i].state = "preparing" /\ to \in {"running", "ended", "refused"}
                 \/ a[i].state = "running" /\ to \in {"ending", "ended"}
                 \/ a[i].state = "ending" /\ to = "ended"
           \/ /\ a[i].machine = "integration"
              /\ \/ a[i].state = "queued" /\ to \in {"running", "ended", "refused"}
                 \/ a[i].state = "running" /\ to \in {"ending", "ended", "refused"}
                 \/ a[i].state = "ending" /\ to = "ended"
           \/ /\ a[i].machine = "hold"
              /\ \/ a[i].state = "queued" /\ to \in {"running", "ended", "refused"}
                 \/ a[i].state = "running" /\ to = "ended"
<1>1. a[i].machine \in {"step", "integration", "hold"}
  BY DEF Row, Machines
<1>2. CASE a[i].machine = "step"
  BY <1>2 DEF MayMove, MACHINES
<1>3. CASE a[i].machine = "integration"
  BY <1>3 DEF MayMove, MACHINES
<1>4. CASE a[i].machine = "hold"
  BY <1>4 DEF MayMove, MACHINES
<1> QED
  BY <1>1, <1>2, <1>3, <1>4

\* A wake leaves a row and its task alone, or gives a queued step or integration its slot and its
\* task.
LEMMA WakeStep ==
  ASSUME NEW a \in [Ids -> Row], NEW t \in [Ids -> Tasks], NEW g \in BOOLEAN
  PROVE  /\ Woken(a, g) \in [Ids -> Row]
         /\ Launched(a, t, g) \in [Ids -> Tasks]
         /\ \A j \in Ids :
              \/ Woken(a, g)[j] = a[j] /\ Launched(a, t, g)[j] = t[j]
              \/ /\ a[j].state = "queued" /\ a[j].machine = "step"
                 /\ Woken(a, g)[j] = [a[j] EXCEPT !.state = "preparing"]
                 /\ Launched(a, t, g)[j] = "toPrepare"
              \/ /\ a[j].state = "queued" /\ a[j].machine = "integration"
                 /\ Woken(a, g)[j] = [a[j] EXCEPT !.state = "running"]
                 /\ Launched(a, t, g)[j] = "integrating"
<1>1. \A j \in Ids : j \in Admitted(a)
        => /\ a[j].state = "queued"
           /\ \/ a[j].machine = "step" /\ FIRST(a[j].machine) = "preparing"
                   /\ LaunchedTask(a[j].machine) = "toPrepare"
              \/ a[j].machine = "integration" /\ FIRST(a[j].machine) = "running"
                   /\ LaunchedTask(a[j].machine) = "integrating"
  BY DEF Admitted, SLOTS, Slots, FIRST, LaunchedTask, Row, Machines
<1>2. \A j \in Ids :
        /\ Woken(a, g)[j] = IF g /\ j \in Admitted(a)
                            THEN [a[j] EXCEPT !.state = FIRST(a[j].machine)] ELSE a[j]
        /\ Launched(a, t, g)[j] = IF g /\ j \in Admitted(a) THEN LaunchedTask(a[j].machine) ELSE t[j]
  BY DEF Woken, Launched
<1>3. \A j \in Ids :
              \/ Woken(a, g)[j] = a[j] /\ Launched(a, t, g)[j] = t[j]
              \/ /\ a[j].state = "queued" /\ a[j].machine = "step"
                 /\ Woken(a, g)[j] = [a[j] EXCEPT !.state = "preparing"]
                 /\ Launched(a, t, g)[j] = "toPrepare"
              \/ /\ a[j].state = "queued" /\ a[j].machine = "integration"
                 /\ Woken(a, g)[j] = [a[j] EXCEPT !.state = "running"]
                 /\ Launched(a, t, g)[j] = "integrating"
  BY <1>1, <1>2
<1>4. \A j \in Ids : Woken(a, g)[j] \in Row /\ Launched(a, t, g)[j] \in Tasks
  <2> TAKE j \in Ids
  <2>1. a[j].state = "queued" => /\ [a[j] EXCEPT !.state = "preparing"] \in Row
                                 /\ [a[j] EXCEPT !.state = "running"] \in Row
    BY DEF Row, Unfinished, HOLDING
  <2>2. a[j] \in Row /\ t[j] \in Tasks /\ "toPrepare" \in Tasks /\ "integrating" \in Tasks
    BY DEF Tasks
  <2> QED
    BY <1>3, <2>1, <2>2
<1>5. Woken(a, g) = [j \in Ids |-> Woken(a, g)[j]] /\ Launched(a, t, g) = [j \in Ids |-> Launched(a, t, g)[j]]
  BY DEF Woken, Launched
<1> QED
  BY <1>3, <1>4, <1>5

\* Its rows alone.
LEMMA WokenRows ==
  ASSUME NEW a \in [Ids -> Row], NEW g \in BOOLEAN
  PROVE  /\ Woken(a, g) \in [Ids -> Row]
         /\ \A j \in Ids :
              \/ Woken(a, g)[j] = a[j]
              \/ /\ a[j].state = "queued" /\ a[j].machine = "step"
                 /\ Woken(a, g)[j] = [a[j] EXCEPT !.state = "preparing"]
              \/ /\ a[j].state = "queued" /\ a[j].machine = "integration"
                 /\ Woken(a, g)[j] = [a[j] EXCEPT !.state = "running"]
<1>1. \A j \in Ids : j \in Admitted(a)
        => /\ a[j].state = "queued"
           /\ \/ a[j].machine = "step" /\ FIRST(a[j].machine) = "preparing"
              \/ a[j].machine = "integration" /\ FIRST(a[j].machine) = "running"
  BY DEF Admitted, SLOTS, Slots, FIRST, Row, Machines
<1>2. \A j \in Ids : Woken(a, g)[j] = IF g /\ j \in Admitted(a)
                                     THEN [a[j] EXCEPT !.state = FIRST(a[j].machine)] ELSE a[j]
  BY DEF Woken
<1>3. \A j \in Ids :
              \/ Woken(a, g)[j] = a[j]
              \/ /\ a[j].state = "queued" /\ a[j].machine = "step"
                 /\ Woken(a, g)[j] = [a[j] EXCEPT !.state = "preparing"]
              \/ /\ a[j].state = "queued" /\ a[j].machine = "integration"
                 /\ Woken(a, g)[j] = [a[j] EXCEPT !.state = "running"]
  BY <1>1, <1>2
<1>4. \A j \in Ids : Woken(a, g)[j] \in Row
  <2> TAKE j \in Ids
  <2>1. a[j].state = "queued" => /\ [a[j] EXCEPT !.state = "preparing"] \in Row
                                 /\ [a[j] EXCEPT !.state = "running"] \in Row
    BY DEF Row, Unfinished, HOLDING
  <2> QED
    BY <1>3, <2>1
<1>5. Woken(a, g) = [j \in Ids |-> Woken(a, g)[j]]
  BY DEF Woken
<1> QED
  BY <1>3, <1>4, <1>5

-----------------------------------------------------------------------------
(* What a wake and a handler leave of an attempt.                          *)

\* Attempt j is as it was, or was given its slot and its task.
LeftAlone(j) == att'[j] = att[j] /\ task'[j] = task[j]

Admits(j) ==
  /\ att[j].state = "queued"
  /\ \/ /\ att[j].machine = "step"
        /\ att'[j] = [att[j] EXCEPT !.state = "preparing"] /\ task'[j] = "toPrepare"
     \/ /\ att[j].machine = "integration"
        /\ att'[j] = [att[j] EXCEPT !.state = "running"] /\ task'[j] = "integrating"

\* A wake changes no unit, and makes nothing unfinished.
LEMMA WakeKeeps ==
  ASSUME NEW j \in Ids, att[j] \in Row, LeftAlone(j) \/ Admits(j)
  PROVE  /\ att'[j].unit = att[j].unit
         /\ att'[j].state \in Unfinished => att[j].state \in Unfinished
<1>1. CASE LeftAlone(j)
  BY <1>1 DEF LeftAlone
<1>2. CASE Admits(j)
  BY <1>2 DEF Admits, Unfinished, Row
<1> QED
  BY <1>1, <1>2

\* An attempt no handler touches stays sound, whether the wake gives it its slot or not.
LEMMA Bystander ==
  ASSUME NEW j \in Ids, TypeOK, Sound(j), LeftAlone(j) \/ Admits(j),
         j \in stopReq' <=> j \in stopReq,
         j \in cancelled' <=> j \in cancelled,
         j \in illegal' <=> j \in illegal,
         j \in left' => j \in left,
         boot' = boot, closed' = closed, boot # "down"
  PROVE  Sound(j)'
<1> USE DEF TypeOK, Row, Machines, Unfinished, HOLDING, ENDS
<1>1. CASE LeftAlone(j)
  BY <1>1 DEF LeftAlone, Sound, TaskFits, StopRemembered, LeftBehind, HoldRow, CancelIsStop,
              WorkedOn, StopShown
<1>2. CASE Admits(j)
  <2>1. TaskFits(j)'
    BY <1>2 DEF Admits, TaskFits, InTasks, StepTasks
  <2>2. StopRemembered(j)' /\ CancelIsStop(j)'
    BY <1>2 DEF Admits, Sound, StopRemembered, CancelIsStop
  <2>3. LeftBehind(j)' /\ HoldRow(j)' /\ WorkedOn(j)' /\ StopShown(j)'
    BY <1>2 DEF Admits, Sound, LeftBehind, HoldRow, WorkedOn, StopShown, InTasks, StepTasks, STOPPABLE
  <2> QED
    BY <2>1, <2>2, <2>3 DEF Sound
<1> QED
  BY <1>1, <1>2

\* What a handler that leaves the rows a and the tasks t leaves of each attempt.
LEMMA CommitEffect ==
  ASSUME NEW a \in [Ids -> Row], NEW t \in [Ids -> Tasks], Commit(a, t)
  PROVE  /\ att' \in [Ids -> Row] /\ task' \in [Ids -> Tasks]
         /\ \A j \in Ids :
              \/ att'[j] = a[j] /\ task'[j] = t[j]
              \/ /\ a[j].state = "queued" /\ a[j].machine = "step"
                 /\ att'[j] = [a[j] EXCEPT !.state = "preparing"] /\ task'[j] = "toPrepare"
              \/ /\ a[j].state = "queued" /\ a[j].machine = "integration"
                 /\ att'[j] = [a[j] EXCEPT !.state = "running"] /\ task'[j] = "integrating"
<1>1. Admitting \in BOOLEAN
  BY DEF Admitting
<1> QED
  BY <1>1, WakeStep DEF Commit

\* The unit lock outlasts whatever opens no attempt.
LEMMA LockKept ==
  ASSUME OneUnfinishedPerUnit,
         \A j \in Ids : /\ att'[j].unit = att[j].unit
                        /\ att'[j].state \in Unfinished => att[j].state \in Unfinished
  PROVE  OneUnfinishedPerUnit'
  BY DEF OneUnfinishedPerUnit

\* What a handler that changed only its own attempt's row and task leaves, once it is woken.
LEMMA OwnCommit ==
  ASSUME TypeOK, OneUnfinishedPerUnit, NEW i \in Ids, NEW a \in [Ids -> Row], NEW k \in Tasks,
         \A j \in Ids \ {i} : a[j] = att[j],
         a[i].unit = att[i].unit, a[i].state # "queued",
         a[i].state \in Unfinished => att[i].state \in Unfinished,
         Commit(a, With(i, k))
  PROVE  /\ att' \in [Ids -> Row] /\ task' \in [Ids -> Tasks]
         /\ OneUnfinishedPerUnit'
         /\ att'[i] = a[i] /\ task'[i] = k
         /\ \A j \in Ids \ {i} : LeftAlone(j) \/ Admits(j)
<1> DEFINE t == With(i, k)
<1>1. att \in [Ids -> Row] /\ task \in [Ids -> Tasks]
  BY DEF TypeOK
<1>2. t \in [Ids -> Tasks] /\ t[i] = k /\ \A j \in Ids \ {i} : t[j] = task[j]
  BY <1>1 DEF With
<1> HIDE DEF t
<1>4. /\ att' \in [Ids -> Row] /\ task' \in [Ids -> Tasks]
      /\ \A j \in Ids :
              \/ att'[j] = a[j] /\ task'[j] = t[j]
              \/ /\ a[j].state = "queued" /\ a[j].machine = "step"
                 /\ att'[j] = [a[j] EXCEPT !.state = "preparing"] /\ task'[j] = "toPrepare"
              \/ /\ a[j].state = "queued" /\ a[j].machine = "integration"
                 /\ att'[j] = [a[j] EXCEPT !.state = "running"] /\ task'[j] = "integrating"
  BY <1>2, CommitEffect DEF t
<1>5. att'[i] = a[i] /\ task'[i] = k
  BY <1>2, <1>4
<1>6. \A j \in Ids \ {i} : LeftAlone(j) \/ Admits(j)
  BY <1>2, <1>4 DEF LeftAlone, Admits
<1>7. \A j \in Ids : /\ att'[j].unit = att[j].unit
                     /\ att'[j].state \in Unfinished => att[j].state \in Unfinished
  BY <1>1, <1>5, <1>6, WakeKeeps
<1> QED
  BY <1>4, <1>5, <1>6, <1>7, LockKept

\* What a handler's move of the attempt it works on, and the wake behind it, leave.
MoveDone(i, to, outcome, k) ==
  /\ att' \in [Ids -> Row] /\ task' \in [Ids -> Tasks]
  /\ OneUnfinishedPerUnit'
  /\ att'[i].state = to /\ task'[i] = k
  /\ att'[i].machine = att[i].machine /\ att'[i].stop = att[i].stop
  /\ to \in ENDS => att'[i].outcome = outcome
  /\ \A j \in Ids \ {i} : LeftAlone(j) \/ Admits(j)

\* A handler's one move does leave that.
LEMMA MoveEffect ==
  ASSUME TypeOK, OneUnfinishedPerUnit, NEW i \in Ids, NEW to \in HOLDING \cup ENDS,
         NEW outcome \in Outcomes, NEW k \in Tasks,
         att[i].state \in HOLDING, MayMove(att, i, to),
         Commit(Moved(att, i, to, outcome), With(i, k))
  PROVE  MoveDone(i, to, outcome, k)
<1> DEFINE a == Moved(att, i, to, outcome)
<1>1. att \in [Ids -> Row]
  BY DEF TypeOK
<1>2. /\ a \in [Ids -> Row] /\ a[i].state = to /\ a[i].machine = att[i].machine
      /\ a[i].unit = att[i].unit /\ a[i].stop = att[i].stop
      /\ to \in ENDS => a[i].outcome = outcome
      /\ \A j \in Ids \ {i} : a[j] = att[j]
  BY <1>1, MovedRow
<1>3. a[i].state # "queued" /\ att[i].state \in Unfinished
  BY <1>2 DEF HOLDING, ENDS, Unfinished
<1> HIDE DEF a
<1> QED
  <2>1. /\ att' \in [Ids -> Row] /\ task' \in [Ids -> Tasks]
        /\ OneUnfinishedPerUnit'
        /\ att'[i] = a[i] /\ task'[i] = k
        /\ \A j \in Ids \ {i} : LeftAlone(j) \/ Admits(j)
    BY <1>2, <1>3, OwnCommit DEF a
  <2> QED
    BY <1>2, <2>1 DEF MoveDone

\* Whatever is past the queue may end.
LEMMA MayEnd ==
  ASSUME TypeOK, NEW i \in Ids, HoldRow(i), att[i].state \in HOLDING
  PROVE  MayMove(att, i, "ended")
<1>1. att \in [Ids -> Row] /\ att[i] \in Row
  BY DEF TypeOK
<1> QED
  BY <1>1, MovesTable DEF HoldRow, HOLDING, Row, Machines

\* What `close` leaves of an attempt past the queue.
LEMMA CloseEffect ==
  ASSUME TypeOK, OneUnfinishedPerUnit, NEW i \in Ids, HoldRow(i), att[i].state \in HOLDING,
         NEW refused \in BOOLEAN, NEW outcome \in {"done", "failed", "stopped"},
         Close(i, refused, outcome)
  PROVE  /\ att' \in [Ids -> Row] /\ task' \in [Ids -> Tasks]
         /\ OneUnfinishedPerUnit'
         /\ att'[i].state \in ENDS /\ task'[i] = "none"
         /\ att'[i].machine = att[i].machine /\ att'[i].stop = att[i].stop
         /\ att'[i].state = "ended"
              => att'[i].outcome = IF att[i].stop /\ outcome # "stopped" THEN "stop_late" ELSE outcome
         /\ illegal' = illegal
         /\ \A j \in Ids \ {i} : LeftAlone(j) \/ Admits(j)
<1> DEFINE late == IF att[i].stop /\ outcome # "stopped" THEN "stop_late" ELSE outcome
<1>1. late \in Outcomes /\ "code" \in Outcomes /\ "none" \in Tasks
  BY DEF Outcomes, Tasks
<1>2. MayMove(att, i, "ended")
  BY MayEnd
<1> HIDE DEF late
<1>3. CASE MayMove(att, i, "refused") /\ CommitMove(i, "refused", "code", With(i, "none"))
  <2>1. "refused" \in ENDS /\ "refused" \in HOLDING \cup ENDS
    BY DEF ENDS
  <2>2. Commit(Moved(att, i, "refused", "code"), With(i, "none")) /\ illegal' = illegal
    BY <1>3 DEF CommitMove
  <2> QED
    <3>1. MoveDone(i, "refused", "code", "none")
      BY <1>1, <1>3, <2>1, <2>2, MoveEffect
    <3> QED
      BY <2>1, <2>2, <3>1 DEF MoveDone
<1>4. CASE CommitMove(i, "ended", late, With(i, "none"))
  <2>1. "ended" \in ENDS /\ "ended" \in HOLDING \cup ENDS
    BY DEF ENDS
  <2>2. Commit(Moved(att, i, "ended", late), With(i, "none")) /\ illegal' = illegal
    BY <1>2, <1>4 DEF CommitMove
  <2>3. /\ att' \in [Ids -> Row] /\ task' \in [Ids -> Tasks]
        /\ OneUnfinishedPerUnit'
        /\ att'[i].state = "ended" /\ task'[i] = "none"
        /\ att'[i].machine = att[i].machine /\ att'[i].stop = att[i].stop
        /\ att'[i].outcome = late
        /\ \A j \in Ids \ {i} : LeftAlone(j) \/ Admits(j)
    <3>1. MoveDone(i, "ended", late, "none")
      BY <1>1, <1>2, <2>1, <2>2, MoveEffect
    <3> QED
      BY <2>1, <3>1 DEF MoveDone
  <2> QED
    BY <2>1, <2>2, <2>3 DEF late
<1> QED
  BY <1>3, <1>4 DEF Close, late

-----------------------------------------------------------------------------
(* Every action keeps the invariant.                                       *)

\* The rest of a step once its own attempt is known to be sound: the others are bystanders.
LEMMA HandlerStep ==
  ASSUME Inv, NEW i \in Ids, boot # "down",
         att' \in [Ids -> Row], task' \in [Ids -> Tasks], OneUnfinishedPerUnit',
         \A j \in Ids \ {i} : LeftAlone(j) \/ Admits(j),
         stopReq' \subseteq stopReq \cup {i}, stopReq \subseteq stopReq' \cup {i},
         cancelled' \subseteq cancelled \cup {i}, cancelled \subseteq cancelled' \cup {i},
         illegal' \subseteq illegal \cup {i}, illegal \subseteq illegal' \cup {i},
         UNCHANGED <<parallel, recovery, gates>>, paused' \subseteq Units, raising' \subseteq Units,
         Sound(i)'
  PROVE  Inv'
<1>1. TypeOK' /\ NobodyRaises'
  BY DEF Inv, TypeOK, NobodyRaises, recovery, gates
<1>2. ASSUME NEW j \in Ids \ {i} PROVE Sound(j)'
  BY <1>2, Bystander DEF Inv, recovery, gates
<1> QED
  BY <1>1, <1>2 DEF Inv

\* What changes only the ceilings keeps the invariant.
LEMMA OnlyCeilings ==
  ASSUME Inv, boot # "down", UNCHANGED <<rows, memory, illegal, recovery, gates>>,
         paused' \subseteq Units, raising' \subseteq Units
  PROVE  Inv'
  BY DEF Inv, TypeOK, NobodyRaises, OneUnfinishedPerUnit, Sound, TaskFits, StopRemembered, LeftBehind,
         HoldRow, CancelIsStop, WorkedOn, StopShown, rows, memory, recovery, gates

\* The same, for a turn that is told nothing of a Stop.
LEMMA ActorStep ==
  ASSUME Inv, NEW i \in Ids, boot # "down",
         att' \in [Ids -> Row], task' \in [Ids -> Tasks], OneUnfinishedPerUnit',
         \A j \in Ids \ {i} : LeftAlone(j) \/ Admits(j),
         stopReq' = stopReq, cancelled' \subseteq cancelled, cancelled \subseteq cancelled' \cup {i},
         illegal' = illegal,
         UNCHANGED <<parallel, recovery, gates>>, paused' \subseteq Units, raising' \subseteq Units,
         Sound(i)'
  PROVE  Inv'
  BY HandlerStep

\* The turns of a preparation keep the invariant.
LEMMA PreparesInv ==
  ASSUME Inv, NEW i \in Ids, Prepares(i)
  PROVE  Inv'
<1> DEFINE Fits == /\ TypeOK /\ OneUnfinishedPerUnit /\ Sound(i)
                   /\ task \in [Ids -> Tasks] /\ att \in [Ids -> Row]
<1>0. Fits
  BY DEF Inv, TypeOK
<1>1. boot # "down"
  BY <1>0 DEF Prepares, PrepareBegins, PrepareRaises, PrepareActs, PrepareStarts, PrepareCancelled,
              ActEnds, Sound, LeftBehind
<1>2. CASE PrepareBegins(i)
  <2>1. /\ att' = att /\ OneUnfinishedPerUnit'
        /\ task' \in [Ids -> Tasks]
        /\ \A j \in Ids \ {i} : LeftAlone(j)
    BY <1>0, <1>2 DEF PrepareBegins, With, rows, LeftAlone, OneUnfinishedPerUnit, Tasks
  <2>2. Sound(i)'
    BY <1>0, <1>2 DEF PrepareBegins, With, rows, recovery, gates, Sound, TaskFits, StopRemembered,
          LeftBehind, HoldRow, CancelIsStop, WorkedOn, StopShown, InTasks, StepTasks
  <2> QED
    BY <1>0, <1>1, <1>2, <2>1, <2>2, ActorStep DEF PrepareBegins, rows, ceilings, Inv, TypeOK
<1>3. ASSUME NEW refused \in BOOLEAN, PrepareRaises(i, refused) PROVE Inv'
  <2>1. att[i].state = "preparing" /\ HoldRow(i)
    BY <1>0, <1>3 DEF PrepareRaises, Sound, TaskFits
  <2>2. /\ att' \in [Ids -> Row] /\ task' \in [Ids -> Tasks]
        /\ OneUnfinishedPerUnit'
        /\ att'[i].state \in ENDS /\ task'[i] = "none"
        /\ att'[i].machine = att[i].machine /\ att'[i].stop = att[i].stop
        /\ att'[i].state = "ended" => att'[i].outcome \in {"failed", "stop_late"}
        /\ illegal' = illegal
        /\ \A j \in Ids \ {i} : LeftAlone(j) \/ Admits(j)
    BY <1>0, <1>3, <2>1, CloseEffect DEF PrepareRaises, HOLDING
  <2>3. Sound(i)'
    BY <1>0, <1>3, <2>1, <2>2 DEF PrepareRaises, recovery, gates, Sound, TaskFits, StopRemembered,
          LeftBehind, HoldRow, CancelIsStop, WorkedOn, StopShown, InTasks, StepTasks, ENDS, HOLDING
  <2> QED
    BY <1>0, <1>1, <1>3, <2>2, <2>3, ActorStep DEF PrepareRaises, ceilings, Inv, TypeOK
<1>4. CASE PrepareActs(i)
  <2> DEFINE a == Moved(att, i, "running", "")
  <2> DEFINE b == Moved(a, i, "ending", "")
  <2>1. att[i].state = "preparing" /\ att[i].machine = "step" /\ i \notin stopReq
    BY <1>0, <1>4 DEF PrepareActs, Sound, TaskFits, StopRemembered, InTasks, StepTasks
  <2>2. /\ "running" \in HOLDING /\ "ending" \in HOLDING /\ "acting" \in Tasks
        /\ att[i].state \in Unfinished
    BY <2>1 DEF HOLDING, Tasks, Unfinished
  <2>3. MayMove(att, i, "running")
    BY <1>0, <2>1, MovesTable
  <2>4. /\ a \in [Ids -> Row] /\ a[i].state = "running"
        /\ a[i].machine = "step" /\ a[i].unit = att[i].unit /\ a[i].stop = att[i].stop
        /\ \A j \in Ids \ {i} : a[j] = att[j]
    <3>1. att \in [Ids -> Row] /\ "running" \in HOLDING
      BY <1>0, <2>2
    <3>2. MovesOn(att, a, i, "running")
      BY <2>3, <3>1, MovedOn
    <3> QED
      BY <2>1, <3>2 DEF MovesOn
  <2> HIDE DEF a
  <2>5. MayMove(a, i, "ending")
    BY <2>4, MovesTable
  <2>6. /\ b \in [Ids -> Row] /\ b[i].state = "ending"
        /\ b[i].machine = "step" /\ b[i].unit = att[i].unit /\ b[i].stop = att[i].stop
        /\ \A j \in Ids \ {i} : b[j] = att[j]
    <3>1. MovesOn(a, b, i, "ending")
      BY <2>2, <2>4, <2>5, MovedOn
    <3> QED
      BY <2>4, <3>1 DEF MovesOn
  <2> HIDE DEF b
  <2>7. Commit(b, With(i, "acting")) /\ illegal' = illegal
    BY <1>4, <2>3, <2>5 DEF PrepareActs, a, b
  <2>8. /\ att' \in [Ids -> Row] /\ task' \in [Ids -> Tasks]
        /\ OneUnfinishedPerUnit'
        /\ att'[i] = b[i] /\ task'[i] = "acting"
        /\ \A j \in Ids \ {i} : LeftAlone(j) \/ Admits(j)
    BY <1>0, <2>2, <2>6, <2>7, OwnCommit
  <2>9. Sound(i)'
    BY <1>0, <1>4, <2>1, <2>6, <2>7, <2>8 DEF PrepareActs, recovery, gates, Sound, TaskFits,
          StopRemembered, LeftBehind, HoldRow, CancelIsStop, WorkedOn, StopShown, InTasks, StepTasks,
          HOLDING
  <2> QED
    BY <1>0, <1>1, <1>4, <2>7, <2>8, <2>9, ActorStep DEF PrepareActs, ceilings, Inv, TypeOK
<1>5. CASE PrepareStarts(i)
  <2>1. att[i].state = "preparing" /\ att[i].machine = "step"
    BY <1>0, <1>5 DEF PrepareStarts, Sound, TaskFits, InTasks, StepTasks
  <2>2. /\ "running" \in HOLDING /\ att[i].state \in HOLDING /\ "" \in Outcomes /\ "toDrive" \in Tasks
    BY <2>1 DEF HOLDING, Outcomes, Tasks
  <2>3. MayMove(att, i, "running")
    BY <1>0, <2>1, MovesTable
  <2>4. Commit(Moved(att, i, "running", ""), With(i, "toDrive")) /\ illegal' = illegal
    BY <1>5, <2>3 DEF PrepareStarts, CommitMove
  <2>5. /\ att' \in [Ids -> Row] /\ task' \in [Ids -> Tasks]
        /\ OneUnfinishedPerUnit'
        /\ att'[i].state = "running" /\ task'[i] = "toDrive"
        /\ att'[i].machine = att[i].machine /\ att'[i].stop = att[i].stop
        /\ \A j \in Ids \ {i} : LeftAlone(j) \/ Admits(j)
    <3>1. "running" \in HOLDING \cup ENDS /\ TypeOK /\ OneUnfinishedPerUnit
      BY <1>0, <2>2
    <3> QED
      <4>1. MoveDone(i, "running", "", "toDrive")
        BY <2>2, <2>3, <2>4, <3>1, MoveEffect
      <4> QED
        BY <4>1 DEF MoveDone
  <2>6. Sound(i)'
    BY <1>0, <1>5, <2>1, <2>4, <2>5 DEF PrepareStarts, recovery, gates, Sound, TaskFits,
          StopRemembered, LeftBehind, HoldRow, CancelIsStop, WorkedOn, StopShown, InTasks, StepTasks,
          HOLDING
  <2> QED
    BY <1>0, <1>1, <1>5, <2>4, <2>5, <2>6, ActorStep DEF PrepareStarts, Inv, TypeOK
<1>6. CASE PrepareCancelled(i)
  <2>1. att[i].state \in {"preparing", "ending"} /\ HoldRow(i)
    BY <1>0, <1>6 DEF PrepareCancelled, Sound, TaskFits
  <2>2. CASE i \in stopReq
    <3>1. /\ att' \in [Ids -> Row] /\ task' \in [Ids -> Tasks]
          /\ OneUnfinishedPerUnit'
          /\ att'[i].state \in ENDS /\ task'[i] = "none"
          /\ att'[i].machine = att[i].machine /\ att'[i].stop = att[i].stop
          /\ att'[i].state = "ended" => att'[i].outcome = "stopped"
          /\ illegal' = illegal
          /\ \A j \in Ids \ {i} : LeftAlone(j) \/ Admits(j)
      BY <1>0, <1>6, <2>1, <2>2, CloseEffect DEF PrepareCancelled, HOLDING
    <3>2. Sound(i)'
      BY <1>0, <1>6, <2>1, <2>2, <3>1 DEF PrepareCancelled, recovery, gates, Sound, TaskFits,
            StopRemembered, LeftBehind, HoldRow, CancelIsStop, WorkedOn, StopShown, InTasks, StepTasks,
            ENDS, HOLDING
    <3> QED
      BY <1>0, <1>1, <1>6, <3>1, <3>2, ActorStep DEF PrepareCancelled, ceilings, Inv, TypeOK
  <2>3. CASE i \notin stopReq
    <3>1. /\ att' = att /\ illegal' = illegal /\ OneUnfinishedPerUnit'
          /\ task' \in [Ids -> Tasks] /\ task'[i] = "none"
          /\ \A j \in Ids \ {i} : LeftAlone(j)
      BY <1>0, <1>6, <2>3 DEF PrepareCancelled, With, LeftAlone, OneUnfinishedPerUnit, Tasks
    <3>2. Sound(i)'
      BY <1>0, <1>6, <2>1, <2>3, <3>1 DEF PrepareCancelled, recovery, gates, Sound, TaskFits,
            StopRemembered, LeftBehind, HoldRow, CancelIsStop, WorkedOn, StopShown, InTasks, StepTasks
    <3> QED
      BY <1>0, <1>1, <1>6, <3>1, <3>2, ActorStep DEF PrepareCancelled, ceilings, Inv, TypeOK
  <2> QED
    BY <2>2, <2>3
<1>7. ASSUME NEW outcome \in {"done", "failed"}, ActEnds(i, outcome) PROVE Inv'
  <2>1. att[i].state = "ending" /\ HoldRow(i)
    BY <1>0, <1>7 DEF ActEnds, Sound, TaskFits
  <2>2. /\ att' \in [Ids -> Row] /\ task' \in [Ids -> Tasks]
        /\ OneUnfinishedPerUnit'
        /\ att'[i].state \in ENDS /\ task'[i] = "none"
        /\ att'[i].machine = att[i].machine /\ att'[i].stop = att[i].stop
        /\ att'[i].state = "ended" => att'[i].outcome = IF att[i].stop THEN "stop_late" ELSE outcome
        /\ illegal' = illegal
        /\ \A j \in Ids \ {i} : LeftAlone(j) \/ Admits(j)
    BY <1>0, <1>7, <2>1, CloseEffect DEF ActEnds, HOLDING
  <2>3. Sound(i)'
    BY <1>0, <1>7, <2>1, <2>2 DEF ActEnds, recovery, gates, Sound, TaskFits, StopRemembered,
          LeftBehind, HoldRow, CancelIsStop, WorkedOn, StopShown, InTasks, StepTasks, ENDS, HOLDING
  <2> QED
    BY <1>0, <1>1, <1>7, <2>2, <2>3, ActorStep DEF ActEnds, ceilings, Inv, TypeOK
<1> QED
  BY <1>2, <1>3, <1>4, <1>5, <1>6, <1>7 DEF Prepares

\* The turns of a session keep the invariant.
LEMMA DrivesInv ==
  ASSUME Inv, NEW i \in Ids, Drives(i)
  PROVE  Inv'
<1>0. /\ TypeOK /\ OneUnfinishedPerUnit /\ Sound(i)
      /\ task \in [Ids -> Tasks] /\ att \in [Ids -> Row]
  BY DEF Inv, TypeOK
<1>1. boot # "down" /\ HoldRow(i)
  BY <1>0 DEF Drives, DriveBegins, Seal, DriveEnds, DriveGoesDown, AfterEnd, Sound, LeftBehind
<1>2. CASE DriveBegins(i)
  <2>1. att[i].state = "running" /\ att[i].machine = "step" /\ att[i].state \in HOLDING
    BY <1>0, <1>2 DEF DriveBegins, Sound, TaskFits, InTasks, StepTasks, HOLDING
  <2>2. CASE i \in cancelled /\ i \in stopReq
    <3>1. /\ "ended" \in HOLDING \cup ENDS /\ "ended" \in ENDS
          /\ "stopped" \in Outcomes /\ "none" \in Tasks
      BY DEF ENDS, Outcomes, Tasks
    <3>2. MayMove(att, i, "ended")
      BY <1>0, <1>1, <2>1, MayEnd
    <3>3. Commit(Moved(att, i, "ended", "stopped"), With(i, "none")) /\ illegal' = illegal
      BY <1>2, <2>2, <3>2 DEF DriveBegins, CommitMove
    <3>4. /\ att' \in [Ids -> Row] /\ task' \in [Ids -> Tasks]
          /\ OneUnfinishedPerUnit'
          /\ att'[i].state = "ended" /\ task'[i] = "none"
          /\ att'[i].machine = att[i].machine /\ att'[i].stop = att[i].stop
          /\ att'[i].outcome = "stopped"
          /\ \A j \in Ids \ {i} : LeftAlone(j) \/ Admits(j)
      <4>1. MoveDone(i, "ended", "stopped", "none")
        BY <1>0, <2>1, <3>1, <3>2, <3>3, MoveEffect
      <4> QED
        BY <3>1, <4>1 DEF MoveDone
    <3>5. Sound(i)'
      BY <1>0, <1>2, <2>1, <3>3, <3>4 DEF DriveBegins, recovery, gates, Sound, TaskFits,
            StopRemembered, LeftBehind, HoldRow, CancelIsStop, WorkedOn, StopShown, InTasks, StepTasks,
            HOLDING
    <3> QED
      BY <1>0, <1>1, <1>2, <3>3, <3>4, <3>5, ActorStep DEF DriveBegins, ceilings, Inv, TypeOK
  <2>3. CASE ~(i \in cancelled /\ i \in stopReq)
    <3>1. /\ att' = att /\ illegal' = illegal /\ OneUnfinishedPerUnit'
          /\ task' \in [Ids -> Tasks] /\ task'[i] = IF i \in cancelled THEN "none" ELSE "driving"
          /\ \A j \in Ids \ {i} : LeftAlone(j)
      BY <1>0, <1>2, <2>3 DEF DriveBegins, With, LeftAlone, OneUnfinishedPerUnit, Tasks
    <3>2. Sound(i)'
      BY <1>0, <1>2, <2>1, <2>3, <3>1 DEF DriveBegins, recovery, gates, Sound, TaskFits,
            StopRemembered, LeftBehind, HoldRow, CancelIsStop, WorkedOn, StopShown, InTasks, StepTasks
    <3> QED
      BY <1>0, <1>1, <1>2, <3>1, <3>2, ActorStep DEF DriveBegins, ceilings, Inv, TypeOK
  <2> QED
    BY <2>2, <2>3
<1>3. CASE Seal(i)
  <2>1. /\ att[i].state = "running" /\ att[i].machine = "step" /\ att[i].state \in HOLDING
        /\ task[i] = "driving"
    BY <1>0, <1>3 DEF Seal, Sound, TaskFits, InTasks, StepTasks, HOLDING
  <2>2. "ending" \in HOLDING \cup ENDS /\ "" \in Outcomes /\ "driving" \in Tasks
    BY DEF HOLDING, Outcomes, Tasks
  <2>3. MayMove(att, i, "ending")
    BY <1>0, <2>1, MovesTable
  <2>4. task = With(i, "driving")
    BY <1>0, <2>1 DEF With
  <2>5. Commit(Moved(att, i, "ending", ""), With(i, "driving")) /\ illegal' = illegal
    BY <1>3, <2>3, <2>4 DEF Seal, CommitMove
  <2>6. /\ att' \in [Ids -> Row] /\ task' \in [Ids -> Tasks]
        /\ OneUnfinishedPerUnit'
        /\ att'[i].state = "ending" /\ task'[i] = "driving"
        /\ att'[i].machine = att[i].machine /\ att'[i].stop = att[i].stop
        /\ \A j \in Ids \ {i} : LeftAlone(j) \/ Admits(j)
    <3>1. MoveDone(i, "ending", "", "driving")
      BY <1>0, <2>1, <2>2, <2>3, <2>5, MoveEffect
    <3> QED
      BY <3>1 DEF MoveDone
  <2>7. Sound(i)'
    BY <1>0, <1>3, <2>1, <2>5, <2>6 DEF Seal, recovery, gates, Sound, TaskFits,
          StopRemembered, LeftBehind, HoldRow, CancelIsStop, WorkedOn, StopShown, InTasks, StepTasks,
          HOLDING
  <2> QED
    BY <1>0, <1>1, <1>3, <2>5, <2>6, <2>7, ActorStep DEF Seal, ceilings, Inv, TypeOK
<1>4. ASSUME NEW outcome \in Outcomes, DriveEnds(i, outcome) PROVE Inv'
  <2> DEFINE end == EndedWith(i, outcome)
  <2> DEFINE k == IF outcome = "done" THEN "afterEnd" ELSE "none"
  <2>1. /\ att[i].state \in {"running", "ending"} /\ att[i].machine = "step"
        /\ att[i].state \in HOLDING
    BY <1>0, <1>4 DEF DriveEnds, Sound, TaskFits, InTasks, StepTasks, HOLDING
  <2>2. /\ "ended" \in HOLDING \cup ENDS /\ "ended" \in ENDS /\ end \in Outcomes /\ k \in Tasks
        /\ att[i].stop => end \in {"stopped", "stop_late", "failed", "interrupted"}
    BY <1>4 DEF DriveEnds, RunOutcome, EndedWith, ENDS, Outcomes, Tasks
  <2>3. MayMove(att, i, "ended")
    BY <1>0, <1>1, <2>1, MayEnd
  <2>4. Commit(Moved(att, i, "ended", end), With(i, k)) /\ illegal' = illegal
    BY <1>4, <2>3 DEF DriveEnds, CommitMove
  <2> HIDE DEF end
  <2>5. /\ att' \in [Ids -> Row] /\ task' \in [Ids -> Tasks]
        /\ OneUnfinishedPerUnit'
        /\ att'[i].state = "ended" /\ task'[i] = k
        /\ att'[i].machine = att[i].machine /\ att'[i].stop = att[i].stop
        /\ att'[i].outcome = end
        /\ \A j \in Ids \ {i} : LeftAlone(j) \/ Admits(j)
    <3>1. MoveDone(i, "ended", end, k)
      BY <1>0, <2>1, <2>2, <2>3, <2>4, MoveEffect
    <3> QED
      BY <2>2, <3>1 DEF MoveDone
  <2>6. Sound(i)'
    BY <1>0, <1>4, <2>1, <2>2, <2>4, <2>5 DEF DriveEnds, recovery, gates, Sound, TaskFits,
          StopRemembered, LeftBehind, HoldRow, CancelIsStop, WorkedOn, StopShown, InTasks, StepTasks,
          HOLDING
  <2>7. paused' \subseteq Units
    <3>1. att[i].unit \in Units
      BY <1>0, <2>1 DEF Row
    <3> QED
      BY <1>0, <1>4, <3>1 DEF DriveEnds, TypeOK
  <2> QED
    BY <1>0, <1>1, <1>4, <2>4, <2>5, <2>6, <2>7, ActorStep DEF DriveEnds, Inv, TypeOK
<1>5. ASSUME NEW inSession \in BOOLEAN, DriveGoesDown(i, inSession) PROVE Inv'
  <2>1. /\ att[i].state \in {"running", "ending"} /\ att[i].machine = "step" /\ closed
        /\ i \notin stopReq
    BY <1>0, <1>5 DEF DriveGoesDown, Sound, TaskFits, CancelIsStop, InTasks, StepTasks, TypeOK
  <2>2. CASE inSession /\ att[i].state = "running"
    <3>1. /\ "ending" \in HOLDING \cup ENDS /\ "" \in Outcomes /\ "none" \in Tasks
          /\ att[i].state \in HOLDING
      BY <2>2 DEF HOLDING, Outcomes, Tasks
    <3>2. MayMove(att, i, "ending")
      BY <1>0, <2>1, <2>2, MovesTable
    <3>3. Commit(Moved(att, i, "ending", ""), With(i, "none")) /\ illegal' = illegal
      BY <1>5, <2>2, <3>2 DEF DriveGoesDown, CommitMove
    <3>4. /\ att' \in [Ids -> Row] /\ task' \in [Ids -> Tasks]
          /\ OneUnfinishedPerUnit'
          /\ att'[i].state = "ending" /\ task'[i] = "none"
          /\ att'[i].machine = att[i].machine /\ att'[i].stop = att[i].stop
          /\ \A j \in Ids \ {i} : LeftAlone(j) \/ Admits(j)
      <4>1. MoveDone(i, "ending", "", "none")
        BY <1>0, <3>1, <3>2, <3>3, MoveEffect
      <4> QED
        BY <4>1 DEF MoveDone
    <3>5. Sound(i)'
      BY <1>0, <1>5, <2>1, <3>3, <3>4 DEF DriveGoesDown, recovery, gates, Sound, TaskFits,
            StopRemembered, LeftBehind, HoldRow, CancelIsStop, WorkedOn, StopShown, InTasks, StepTasks,
            HOLDING
    <3> QED
      BY <1>0, <1>1, <1>5, <3>3, <3>4, <3>5, ActorStep DEF DriveGoesDown, ceilings, Inv, TypeOK
  <2>3. CASE ~(inSession /\ att[i].state = "running")
    <3>1. /\ att' = att /\ illegal' = illegal /\ OneUnfinishedPerUnit'
          /\ task' \in [Ids -> Tasks] /\ task'[i] = "none"
          /\ \A j \in Ids \ {i} : LeftAlone(j)
      BY <1>0, <1>5, <2>3 DEF DriveGoesDown, With, LeftAlone, OneUnfinishedPerUnit, Tasks
    <3>2. Sound(i)'
      BY <1>0, <1>5, <2>1, <3>1 DEF DriveGoesDown, recovery, gates, Sound, TaskFits,
            StopRemembered, LeftBehind, HoldRow, CancelIsStop, WorkedOn, StopShown, InTasks, StepTasks
    <3> QED
      BY <1>0, <1>1, <1>5, <3>1, <3>2, ActorStep DEF DriveGoesDown, ceilings, Inv, TypeOK
  <2> QED
    BY <2>2, <2>3
<1>6. CASE AfterEnd(i)
  <2>1. /\ att' = att /\ illegal' = illegal /\ OneUnfinishedPerUnit'
        /\ task' \in [Ids -> Tasks] /\ task'[i] = "none"
        /\ att[i].state \notin HOLDING
        /\ \A j \in Ids \ {i} : LeftAlone(j)
    BY <1>0, <1>6 DEF AfterEnd, With, rows, LeftAlone, OneUnfinishedPerUnit, Tasks, Sound, TaskFits,
          HOLDING
  <2>2. Sound(i)'
    BY <1>0, <1>6, <2>1 DEF AfterEnd, recovery, gates, Sound, TaskFits, StopRemembered,
          LeftBehind, HoldRow, CancelIsStop, WorkedOn, StopShown, InTasks, StepTasks
  <2> QED
    BY <1>0, <1>1, <1>6, <2>1, <2>2, ActorStep DEF AfterEnd, rows, ceilings, Inv, TypeOK
<1> QED
  BY <1>2, <1>3, <1>4, <1>5, <1>6 DEF Drives

\* The turns of an integration keep the invariant.
LEMMA IntegratesInv ==
  ASSUME Inv, NEW i \in Ids, Integrates(i)
  PROVE  Inv'
<1>0. /\ TypeOK /\ OneUnfinishedPerUnit /\ Sound(i) /\ HoldRow(i)
      /\ task \in [Ids -> Tasks] /\ att \in [Ids -> Row]
  BY DEF Inv, TypeOK, Sound
<1>1. /\ boot # "down" /\ task[i] = "integrating"
      /\ att[i].state \in {"running", "ending"} /\ att[i].machine = "integration"
      /\ att[i].state \in HOLDING
  BY <1>0 DEF Integrates, StopPoint, LastStopPoint, IntegrationRaises, IntegrationEnds, Sound,
              LeftBehind, TaskFits, InTasks, HOLDING
<1>2. /\ "ended" \in HOLDING \cup ENDS /\ "ended" \in ENDS /\ "ending" \in HOLDING \cup ENDS
      /\ {"", "stopped", "stop_late", "done"} \subseteq Outcomes
      /\ "none" \in Tasks /\ "integrating" \in Tasks
  BY DEF ENDS, HOLDING, Outcomes, Tasks
<1>3. MayMove(att, i, "ended")
  BY <1>0, <1>1, MayEnd
<1>4. ASSUME NEW outcome \in {"stopped", "stop_late", "done"},
             att[i].stop => outcome # "done",
             CommitMove(i, "ended", outcome, With(i, "none")),
             UNCHANGED <<parallel, stopReq, cancelled, recovery, gates, ceilings>>
      PROVE  Inv'
  <2>1. Commit(Moved(att, i, "ended", outcome), With(i, "none")) /\ illegal' = illegal
    BY <1>3, <1>4 DEF CommitMove
  <2>2. outcome \in Outcomes
    BY DEF Outcomes
  <2>3. /\ att' \in [Ids -> Row] /\ task' \in [Ids -> Tasks]
        /\ OneUnfinishedPerUnit'
        /\ att'[i].state = "ended" /\ task'[i] = "none"
        /\ att'[i].machine = att[i].machine /\ att'[i].stop = att[i].stop
        /\ att'[i].outcome = outcome
        /\ \A j \in Ids \ {i} : LeftAlone(j) \/ Admits(j)
    <3>1. MoveDone(i, "ended", outcome, "none")
      BY <1>0, <1>1, <1>2, <1>3, <2>1, <2>2, MoveEffect
    <3> QED
      BY <1>2, <3>1 DEF MoveDone
  <2>4. Sound(i)'
    BY <1>0, <1>1, <1>4, <2>1, <2>3 DEF recovery, gates, Sound, TaskFits, StopRemembered,
          LeftBehind, HoldRow, CancelIsStop, WorkedOn, StopShown, InTasks, StepTasks, HOLDING
  <2> QED
    BY <1>0, <1>1, <1>4, <2>1, <2>3, <2>4, ActorStep DEF ceilings, Inv, TypeOK
<1>5. CASE StopPoint(i)
  BY <1>4, <1>5 DEF StopPoint
<1>6. CASE IntegrationEnds(i)
  <2>1. EndedWith(i, "done") \in {"stop_late", "done"} /\ (att[i].stop => EndedWith(i, "done") # "done")
    BY <1>6 DEF IntegrationEnds, EndedWith
  <2> QED
    BY <1>4, <1>6, <2>1 DEF IntegrationEnds
<1>7. CASE LastStopPoint(i)
  <2>1. MayMove(att, i, "ending")
    BY <1>0, <1>1, <1>7, MovesTable DEF LastStopPoint
  <2>2. task = With(i, "integrating")
    BY <1>0, <1>1 DEF With
  <2>3. Commit(Moved(att, i, "ending", ""), With(i, "integrating")) /\ illegal' = illegal
    BY <1>7, <2>1, <2>2 DEF LastStopPoint, CommitMove
  <2>4. /\ att' \in [Ids -> Row] /\ task' \in [Ids -> Tasks]
        /\ OneUnfinishedPerUnit'
        /\ att'[i].state = "ending" /\ task'[i] = "integrating"
        /\ att'[i].machine = att[i].machine /\ att'[i].stop = att[i].stop
        /\ \A j \in Ids \ {i} : LeftAlone(j) \/ Admits(j)
    <3>1. MoveDone(i, "ending", "", "integrating")
      BY <1>0, <1>1, <1>2, <2>1, <2>3, MoveEffect
    <3> QED
      BY <3>1 DEF MoveDone
  <2>5. Sound(i)'
    BY <1>0, <1>1, <1>7, <2>3, <2>4 DEF LastStopPoint, recovery, gates, Sound, TaskFits,
          StopRemembered, LeftBehind, HoldRow, CancelIsStop, WorkedOn, StopShown, InTasks, StepTasks,
          HOLDING
  <2> QED
    BY <1>0, <1>1, <1>7, <2>3, <2>4, <2>5, ActorStep DEF LastStopPoint, ceilings, Inv, TypeOK
<1>8. ASSUME NEW refused \in BOOLEAN, IntegrationRaises(i, refused) PROVE Inv'
  <2>1. /\ att' \in [Ids -> Row] /\ task' \in [Ids -> Tasks]
        /\ OneUnfinishedPerUnit'
        /\ att'[i].state \in ENDS /\ task'[i] = "none"
        /\ att'[i].machine = att[i].machine /\ att'[i].stop = att[i].stop
        /\ att'[i].state = "ended" => att'[i].outcome \in {"failed", "stop_late"}
        /\ illegal' = illegal
        /\ \A j \in Ids \ {i} : LeftAlone(j) \/ Admits(j)
    BY <1>0, <1>1, <1>8, CloseEffect DEF IntegrationRaises
  <2>2. Sound(i)'
    BY <1>0, <1>1, <1>8, <2>1 DEF IntegrationRaises, recovery, gates, Sound, TaskFits, StopRemembered,
          LeftBehind, HoldRow, CancelIsStop, WorkedOn, StopShown, InTasks, StepTasks, ENDS, HOLDING
  <2> QED
    BY <1>0, <1>1, <1>8, <2>1, <2>2, ActorStep DEF IntegrationRaises, ceilings, Inv, TypeOK
<1> QED
  BY <1>5, <1>6, <1>7, <1>8 DEF Integrates

\* A hold's end keeps the invariant, the one that is told `Illegal` too.
LEMMA HoldsInv ==
  ASSUME Inv, NEW i \in Ids, Holds(i)
  PROVE  Inv'
<1>0. /\ TypeOK /\ OneUnfinishedPerUnit /\ Sound(i) /\ HoldRow(i) /\ LeftBehind(i)
      /\ task \in [Ids -> Tasks] /\ att \in [Ids -> Row]
  BY DEF Inv, TypeOK, Sound
<1>1. PICK outcome \in {"done", "failed"} : HoldEnds(i, outcome)
  BY DEF Holds
<1>2. /\ boot # "down" /\ task[i] = "holding" /\ att[i].machine = "hold"
      /\ att[i].state \in {"queued", "running", "ended", "refused"}
  BY <1>0, <1>1 DEF HoldEnds, LeftBehind, HoldRow, Row, Unfinished, HOLDING, ENDS
<1> DEFINE a == Moved(att, i, "ended", outcome)
<1>3. /\ a \in [Ids -> Row] /\ a[i].machine = att[i].machine /\ a[i].stop = att[i].stop
      /\ a[i].unit = att[i].unit /\ (\A j \in Ids \ {i} : a[j] = att[j])
      /\ a[i].state \in ENDS
  <2>1. /\ "ended" \in HOLDING \cup ENDS /\ outcome \in Outcomes
    BY DEF ENDS, Outcomes
  <2>2. /\ a \in [Ids -> Row] /\ a[i].machine = att[i].machine /\ a[i].stop = att[i].stop
        /\ a[i].unit = att[i].unit /\ (\A j \in Ids \ {i} : a[j] = att[j])
        /\ MayMove(att, i, "ended") => a[i].state = "ended"
        /\ ~MayMove(att, i, "ended") => a[i] = att[i]
    BY <1>0, <2>1, MovedRow
  <2>3. MayMove(att, i, "ended") \/ att[i].state \in ENDS
    BY <1>0, <1>2, MovesTable DEF ENDS
  <2> QED
    BY <2>2, <2>3 DEF ENDS
<1>4. Commit(a, With(i, "none"))
  BY <1>1 DEF HoldEnds, CommitMove
<1> HIDE DEF a
<1>5. /\ att' \in [Ids -> Row] /\ task' \in [Ids -> Tasks]
      /\ OneUnfinishedPerUnit'
      /\ att'[i] = a[i] /\ task'[i] = "none"
      /\ \A j \in Ids \ {i} : LeftAlone(j) \/ Admits(j)
  <2>1. "none" \in Tasks /\ a[i].state # "queued" /\ a[i].state \notin Unfinished
    BY <1>3 DEF ENDS, Tasks, Unfinished, HOLDING
  <2> QED
    BY <1>0, <1>3, <1>4, <2>1, OwnCommit
<1>6. illegal' \subseteq illegal \cup {i} /\ illegal \subseteq illegal'
  BY <1>1 DEF HoldEnds, CommitMove
<1>7. Sound(i)'
  BY <1>0, <1>1, <1>2, <1>3, <1>5 DEF HoldEnds, recovery, gates, Sound, TaskFits, StopRemembered,
        LeftBehind, HoldRow, CancelIsStop, WorkedOn, StopShown, InTasks, StepTasks, ENDS, HOLDING,
        STOPPABLE
<1> QED
  BY <1>0, <1>1, <1>2, <1>5, <1>6, <1>7, HandlerStep DEF HoldEnds, ceilings, Inv, TypeOK

\* Opening an attempt keeps the unit lock: it is asked for first, in the same step.
LEMMA OpenKeepsLock ==
  ASSUME TypeOK, OneUnfinishedPerUnit, NEW u \in Units, MayOpen(att, u), NEW i \in Ids,
         att'[i].unit = u, \A j \in Ids \ {i} : LeftAlone(j) \/ Admits(j)
  PROVE  OneUnfinishedPerUnit'
<1>1. \A j \in Ids \ {i} : /\ att'[j].unit = att[j].unit
                           /\ att'[j].state \in Unfinished => att[j].state \in Unfinished
  BY WakeKeeps DEF TypeOK
<1>2. \A j \in Ids : att[j].unit = u => att[j].state \notin Unfinished
  BY DEF MayOpen, Live
<1> QED
  BY <1>1, <1>2 DEF OneUnfinishedPerUnit

\* Nothing in memory speaks of an attempt that is not opened yet.
LEMMA Unheard ==
  ASSUME TypeOK, NEW i \in Ids, Sound(i), att[i].state = "none"
  PROVE  /\ task[i] = "none" /\ i \notin stopReq /\ i \notin illegal /\ i \notin left
         /\ ~closed => i \notin cancelled
  BY DEF TypeOK, Sound, TaskFits, StopRemembered, LeftBehind, HoldRow, CancelIsStop, Tasks, InTasks,
         StepTasks, HOLDING

\* A click keeps the invariant.
LEMMA ClickInv ==
  ASSUME Inv, NEW u \in Units, NEW m \in STOPPABLE, Click(u, m)
  PROVE  Inv'
<1>0. TypeOK /\ OneUnfinishedPerUnit /\ task \in [Ids -> Tasks] /\ att \in [Ids -> Row]
  BY DEF Inv, TypeOK
<1>1. PICK i \in Ids : IsNextId(att, i) /\ Commit(Opened(att, i, m, u, "queued"), task)
  BY DEF Click
<1>2. att[i].state = "none" /\ Sound(i) /\ boot # "down" /\ MayOpen(att, u)
  BY <1>1 DEF Click, IsNextId, Alive, Inv
<1> DEFINE a == Opened(att, i, m, u, "queued")
<1>3. /\ a \in [Ids -> Row]
      /\ a[i].machine = m /\ a[i].unit = u /\ a[i].state = "queued" /\ a[i].stop = FALSE
      /\ \A j \in Ids \ {i} : a[j] = att[j]
  BY <1>0, StoreAssumption DEF Opened, Row, Machines, STOPPABLE, Unfinished, HOLDING, Outcomes
<1>4. Commit(a, task)
  BY <1>1
<1> HIDE DEF a
<1>5. /\ att' \in [Ids -> Row] /\ task' \in [Ids -> Tasks]
      /\ OneUnfinishedPerUnit'
      /\ \A j \in Ids \ {i} : LeftAlone(j) \/ Admits(j)
      /\ \/ att'[i] = a[i] /\ task'[i] = task[i]
         \/ /\ a[i].state = "queued" /\ a[i].machine = "step"
            /\ att'[i] = [a[i] EXCEPT !.state = "preparing"] /\ task'[i] = "toPrepare"
         \/ /\ a[i].state = "queued" /\ a[i].machine = "integration"
            /\ att'[i] = [a[i] EXCEPT !.state = "running"] /\ task'[i] = "integrating"
  <2>1. /\ att' \in [Ids -> Row] /\ task' \in [Ids -> Tasks]
        /\ \A j \in Ids :
              \/ att'[j] = a[j] /\ task'[j] = task[j]
              \/ /\ a[j].state = "queued" /\ a[j].machine = "step"
                 /\ att'[j] = [a[j] EXCEPT !.state = "preparing"] /\ task'[j] = "toPrepare"
              \/ /\ a[j].state = "queued" /\ a[j].machine = "integration"
                 /\ att'[j] = [a[j] EXCEPT !.state = "running"] /\ task'[j] = "integrating"
    BY <1>0, <1>3, <1>4, CommitEffect
  <2>2. \A j \in Ids \ {i} : LeftAlone(j) \/ Admits(j)
    BY <1>3, <2>1 DEF LeftAlone, Admits
  <2>3. att'[i].unit = u
    BY <1>3, <2>1 DEF Row
  <2>4. OneUnfinishedPerUnit'
    BY <1>0, <1>2, <2>2, <2>3, OpenKeepsLock
  <2> QED
    BY <2>1, <2>2, <2>4
<1>6. /\ task[i] = "none" /\ i \notin stopReq /\ i \notin illegal /\ i \notin left
      /\ ~closed => i \notin cancelled
  BY <1>0, <1>2, Unheard
<1>7. /\ att'[i].machine = m /\ att'[i].stop = FALSE
      /\ \/ att'[i].state = "queued" /\ task'[i] = "none"
         \/ m = "step" /\ att'[i].state = "preparing" /\ task'[i] = "toPrepare"
         \/ m = "integration" /\ att'[i].state = "running" /\ task'[i] = "integrating"
  BY <1>3, <1>5, <1>6 DEF Row
<1>8. Sound(i)'
  BY <1>2, <1>6, <1>7 DEF Click, recovery, gates, Sound, TaskFits, STOPPABLE,
        StopRemembered, LeftBehind, HoldRow, CancelIsStop, WorkedOn, StopShown, InTasks, StepTasks,
        HOLDING
<1> QED
  BY <1>0, <1>2, <1>5, <1>8, HandlerStep DEF Click, ceilings, Inv, TypeOK

\* A hold that begins keeps the invariant.
LEMMA HoldBeginsInv ==
  ASSUME Inv, NEW u \in Units, HoldBegins(u)
  PROVE  Inv'
<1>0. TypeOK /\ OneUnfinishedPerUnit /\ task \in [Ids -> Tasks] /\ att \in [Ids -> Row]
  BY DEF Inv, TypeOK
<1>1. PICK i \in Ids : /\ IsNextId(att, i)
                       /\ Commit(Moved(Opened(att, i, "hold", u, "queued"), i, "running", ""),
                                 With(i, "holding"))
  BY DEF HoldBegins
<1>2. att[i].state = "none" /\ Sound(i) /\ boot # "down" /\ MayOpen(att, u)
  BY <1>1 DEF HoldBegins, IsNextId, Alive, Inv
<1> DEFINE a == Opened(att, i, "hold", u, "queued")
<1> DEFINE b == Moved(a, i, "running", "")
<1>3. /\ a \in [Ids -> Row]
      /\ a[i].machine = "hold" /\ a[i].unit = u /\ a[i].state = "queued" /\ a[i].stop = FALSE
      /\ \A j \in Ids \ {i} : a[j] = att[j]
  BY <1>0, StoreAssumption DEF Opened, Row, Machines, STOPPABLE, Unfinished, HOLDING, Outcomes
<1> HIDE DEF a
<1>4. MayMove(a, i, "running") /\ "running" \in HOLDING
  BY <1>3, MovesTable DEF HOLDING
<1>5. /\ b \in [Ids -> Row] /\ b[i].state = "running"
      /\ b[i].machine = a[i].machine /\ b[i].unit = a[i].unit /\ b[i].stop = a[i].stop
      /\ \A j \in Ids \ {i} : b[j] = a[j]
  <2>1. MovesOn(a, b, i, "running")
    BY <1>3, <1>4, MovedOn
  <2> QED
    BY <2>1 DEF MovesOn
<1> DEFINE t == With(i, "holding")
<1>6. Commit(b, t)
  BY <1>1 DEF a
<1> HIDE DEF b
<1>7. t \in [Ids -> Tasks] /\ t[i] = "holding" /\ \A j \in Ids \ {i} : t[j] = task[j]
  BY <1>0 DEF With, Tasks
<1> HIDE DEF t
<1>8. /\ att' \in [Ids -> Row] /\ task' \in [Ids -> Tasks]
      /\ OneUnfinishedPerUnit'
      /\ att'[i] = b[i] /\ task'[i] = "holding"
      /\ \A j \in Ids \ {i} : LeftAlone(j) \/ Admits(j)
  <2>1. /\ att' \in [Ids -> Row] /\ task' \in [Ids -> Tasks]
        /\ \A j \in Ids :
              \/ att'[j] = b[j] /\ task'[j] = t[j]
              \/ /\ b[j].state = "queued" /\ b[j].machine = "step"
                 /\ att'[j] = [b[j] EXCEPT !.state = "preparing"] /\ task'[j] = "toPrepare"
              \/ /\ b[j].state = "queued" /\ b[j].machine = "integration"
                 /\ att'[j] = [b[j] EXCEPT !.state = "running"] /\ task'[j] = "integrating"
    BY <1>3, <1>5, <1>6, <1>7, CommitEffect
  <2>2. (\A j \in Ids \ {i} : LeftAlone(j) \/ Admits(j)) /\ att'[i] = b[i] /\ task'[i] = "holding"
    BY <1>3, <1>5, <1>6, <1>7, <2>1 DEF LeftAlone, Admits
  <2>3. OneUnfinishedPerUnit'
    BY <1>0, <1>2, <1>3, <1>5, <1>6, <1>7, <2>2, OpenKeepsLock
  <2> QED
    BY <2>1, <2>2, <2>3
<1>9. Sound(i)'
  BY <1>0, <1>2, <1>3, <1>5, <1>8, Unheard DEF HoldBegins, recovery, gates, Sound, TaskFits,
        StopRemembered, LeftBehind, HoldRow, CancelIsStop, WorkedOn, StopShown, InTasks, StepTasks,
        HOLDING
<1> QED
  BY <1>0, <1>2, <1>8, <1>9, HandlerStep DEF HoldBegins, ceilings, Inv, TypeOK

\* A raise keeps the invariant, when it is refused and when the session is taken up.
LEMMA RaiseActsInv ==
  ASSUME Inv, NEW u \in Units, RaiseActs(u)
  PROVE  Inv'
<1>0. TypeOK /\ OneUnfinishedPerUnit /\ task \in [Ids -> Tasks] /\ att \in [Ids -> Row]
  BY DEF Inv, TypeOK
<1>3. boot # "down"
  BY DEF RaiseActs, Inv, NobodyRaises
<1>1. CASE ~MayOpen(att, u)
  <2>1. /\ UNCHANGED <<rows, memory, illegal, recovery, gates>>
        /\ paused' \subseteq Units /\ raising' \subseteq Units
    BY <1>0, <1>1 DEF RaiseActs, rows, memory, TypeOK
  <2> QED
    BY <1>3, <2>1, OnlyCeilings
<1>2. CASE MayOpen(att, u)
  <2>1. PICK i \in Ids : /\ IsNextId(att, i)
                         /\ Commit(Opened(att, i, "step", u, "running"), With(i, "toDrive"))
    BY <1>2 DEF RaiseActs
  <2>2. att[i].state = "none" /\ Sound(i)
    BY <2>1 DEF IsNextId, Inv
  <2> DEFINE a == Opened(att, i, "step", u, "running")
  <2>3. /\ a \in [Ids -> Row]
        /\ a[i].machine = "step" /\ a[i].unit = u /\ a[i].state = "running" /\ a[i].stop = FALSE
        /\ \A j \in Ids \ {i} : a[j] = att[j]
    BY <1>0, StoreAssumption DEF Opened, Row, Machines, STOPPABLE, Unfinished, HOLDING, Outcomes
  <2> DEFINE t == With(i, "toDrive")
  <2>4. Commit(a, t)
    BY <2>1
  <2> HIDE DEF a
  <2>5. t \in [Ids -> Tasks] /\ t[i] = "toDrive" /\ \A j \in Ids \ {i} : t[j] = task[j]
    BY <1>0 DEF With, Tasks
  <2> HIDE DEF t
  <2>6. /\ att' \in [Ids -> Row] /\ task' \in [Ids -> Tasks]
        /\ OneUnfinishedPerUnit'
        /\ att'[i] = a[i] /\ task'[i] = "toDrive"
        /\ \A j \in Ids \ {i} : LeftAlone(j) \/ Admits(j)
    <3>1. /\ att' \in [Ids -> Row] /\ task' \in [Ids -> Tasks]
          /\ \A j \in Ids :
                \/ att'[j] = a[j] /\ task'[j] = t[j]
                \/ /\ a[j].state = "queued" /\ a[j].machine = "step"
                   /\ att'[j] = [a[j] EXCEPT !.state = "preparing"] /\ task'[j] = "toPrepare"
                \/ /\ a[j].state = "queued" /\ a[j].machine = "integration"
                   /\ att'[j] = [a[j] EXCEPT !.state = "running"] /\ task'[j] = "integrating"
      BY <2>3, <2>4, <2>5, CommitEffect
    <3>2. (\A j \in Ids \ {i} : LeftAlone(j) \/ Admits(j)) /\ att'[i] = a[i] /\ task'[i] = "toDrive"
      BY <2>3, <2>4, <2>5, <3>1 DEF LeftAlone, Admits
    <3>3. OneUnfinishedPerUnit'
      BY <1>0, <1>2, <2>3, <2>4, <2>5, <3>2, OpenKeepsLock
    <3> QED
      BY <3>1, <3>2, <3>3
  <2>7. Sound(i)'
    BY <1>0, <1>3, <2>2, <2>3, <2>6, Unheard DEF RaiseActs, recovery, gates, Sound, TaskFits,
          StopRemembered, LeftBehind, HoldRow, CancelIsStop, WorkedOn, StopShown, InTasks, StepTasks,
          HOLDING
  <2> QED
    BY <1>0, <1>2, <2>2, <1>3, <2>6, <2>7, HandlerStep DEF RaiseActs, Inv, TypeOK
<1> QED
  BY <1>1, <1>2

\* A Stop keeps the invariant, whatever the wake behind its flag makes of the attempt.
LEMMA StopInv ==
  ASSUME Inv, NEW i \in Ids, Stop(i)
  PROVE  Inv'
<1>0. /\ TypeOK /\ OneUnfinishedPerUnit /\ Sound(i) /\ boot # "down"
      /\ task \in [Ids -> Tasks] /\ att \in [Ids -> Row]
  BY DEF Inv, TypeOK, Stop, Alive
<1> DEFINE asked == StopAsked(att, i)
<1> DEFINE a == Woken(asked, Admitting)
<1> DEFINE t == Launched(asked, task, Admitting)
<1>1. /\ asked \in [Ids -> Row] /\ asked[i].stop = TRUE /\ asked[i].state = att[i].state
      /\ asked[i].machine = att[i].machine /\ asked[i].unit = att[i].unit
      /\ asked[i].outcome = att[i].outcome
      /\ \A j \in Ids \ {i} : asked[j] = att[j]
  BY <1>0 DEF StopAsked, Row
<1>2. Admitting \in BOOLEAN
  BY DEF Admitting
<1> HIDE DEF asked
<1>3. /\ a \in [Ids -> Row] /\ t \in [Ids -> Tasks]
      /\ \A j \in Ids :
           \/ a[j] = asked[j] /\ t[j] = task[j]
           \/ /\ asked[j].state = "queued" /\ asked[j].machine = "step"
              /\ a[j] = [asked[j] EXCEPT !.state = "preparing"] /\ t[j] = "toPrepare"
           \/ /\ asked[j].state = "queued" /\ asked[j].machine = "integration"
              /\ a[j] = [asked[j] EXCEPT !.state = "running"] /\ t[j] = "integrating"
  BY <1>0, <1>1, <1>2, WakeStep
<1>4. /\ IF a[i].state = "queued"
         THEN Commit(Moved(a, i, "ended", "stopped"), t) /\ UNCHANGED <<stopReq, cancelled>>
         ELSE /\ att' = a /\ task' = t
              /\ IF t[i] \in {"toPrepare", "preparing", "toDrive", "driving"}
                      /\ a[i].state # "ending"
                 THEN stopReq' = stopReq \cup {i} /\ cancelled' = cancelled \cup {i}
                 ELSE UNCHANGED <<stopReq, cancelled>>
      /\ UNCHANGED <<parallel, illegal, recovery, gates, ceilings>>
      /\ att[i].state \in Unfinished /\ att[i].machine \in STOPPABLE
  BY DEF Stop, a, t, asked
<1> HIDE DEF a, t
<1>5. /\ a[i].machine = att[i].machine /\ a[i].unit = att[i].unit /\ a[i].stop = TRUE
      /\ \/ a[i].state = att[i].state /\ t[i] = task[i]
         \/ /\ att[i].state = "queued" /\ a[i].state = "preparing" /\ t[i] = "toPrepare"
            /\ att[i].machine = "step"
         \/ /\ att[i].state = "queued" /\ a[i].state = "running" /\ t[i] = "integrating"
            /\ att[i].machine = "integration"
  BY <1>1, <1>3 DEF Row
<1>6. CASE a[i].state = "queued"
  <2> DEFINE b == Moved(a, i, "ended", "stopped")
  <2>1. MayMove(a, i, "ended")
    BY <1>3, <1>4, <1>5, <1>6, MovesTable DEF STOPPABLE
  <2>2. "ended" \in HOLDING \cup ENDS /\ "ended" \in ENDS /\ "stopped" \in Outcomes
    BY DEF ENDS, Outcomes
  <2>3. /\ b \in [Ids -> Row] /\ (\A j \in Ids \ {i} : b[j] = a[j])
        /\ b[i].machine = a[i].machine /\ b[i].unit = a[i].unit /\ b[i].stop = a[i].stop
        /\ b[i].state = "ended" /\ b[i].outcome = "stopped"
    BY <1>3, <2>1, <2>2, MovedRow
  <2>4. Commit(b, t) /\ UNCHANGED <<stopReq, cancelled>>
    BY <1>4, <1>6
  <2> HIDE DEF b
  <2>5. /\ att' \in [Ids -> Row] /\ task' \in [Ids -> Tasks]
        /\ \A j \in Ids :
              \/ att'[j] = b[j] /\ task'[j] = t[j]
              \/ /\ b[j].state = "queued" /\ b[j].machine = "step"
                 /\ att'[j] = [b[j] EXCEPT !.state = "preparing"] /\ task'[j] = "toPrepare"
              \/ /\ b[j].state = "queued" /\ b[j].machine = "integration"
                 /\ att'[j] = [b[j] EXCEPT !.state = "running"] /\ task'[j] = "integrating"
    BY <1>3, <2>3, <2>4, CommitEffect
  <2>6. ASSUME NEW j \in Ids \ {i} PROVE LeftAlone(j) \/ Admits(j)
    <3>1. a[j] = att[j] /\ t[j] = task[j] => LeftAlone(j) \/ Admits(j)
      BY <2>3, <2>5 DEF LeftAlone, Admits
    <3>2. ~(a[j] = att[j] /\ t[j] = task[j]) => a[j].state # "queued"
      BY <1>1, <1>3 DEF Row
    <3>3. ~(a[j] = att[j] /\ t[j] = task[j]) => att'[j] = a[j] /\ task'[j] = t[j]
      BY <2>3, <2>5, <3>2
    <3>4. (a[j] = att[j] /\ t[j] = task[j]) \/ Admits(j)
      BY <1>1, <1>3, <3>3 DEF Admits
    <3> QED
      BY <3>1, <3>4
  <2>7. att'[i] = b[i] /\ task'[i] = task[i]
    BY <1>5, <1>6, <2>3, <2>5
  <2>8. OneUnfinishedPerUnit'
    <3>1. \A j \in Ids : /\ att'[j].unit = att[j].unit
                         /\ att'[j].state \in Unfinished => att[j].state \in Unfinished
      BY <1>0, <1>4, <1>5, <2>3, <2>6, <2>7, WakeKeeps
    <3> QED
      BY <1>0, <3>1, LockKept
  <2>9. Sound(i)'
    BY <1>0, <1>4, <1>5, <1>6, <2>3, <2>4, <2>7 DEF recovery, gates, Sound, TaskFits,
          StopRemembered, LeftBehind, HoldRow, CancelIsStop, WorkedOn, StopShown, InTasks, StepTasks,
          HOLDING
  <2> QED
    BY <1>0, <1>4, <2>4, <2>5, <2>6, <2>8, <2>9, HandlerStep DEF ceilings, Inv, TypeOK
<1>7. CASE a[i].state # "queued"
  <2>1. /\ att' = a /\ task' = t
        /\ \/ /\ t[i] \in {"toPrepare", "preparing", "toDrive", "driving"} /\ a[i].state # "ending"
              /\ stopReq' = stopReq \cup {i} /\ cancelled' = cancelled \cup {i}
           \/ UNCHANGED <<stopReq, cancelled>>
    BY <1>4, <1>7
  <2>2. \A j \in Ids \ {i} : LeftAlone(j) \/ Admits(j)
    BY <1>1, <1>3, <2>1 DEF LeftAlone, Admits
  <2>3. OneUnfinishedPerUnit'
    <3>1. \A j \in Ids : /\ att'[j].unit = att[j].unit
                         /\ att'[j].state \in Unfinished => att[j].state \in Unfinished
      BY <1>0, <1>4, <1>5, <2>1, <2>2, WakeKeeps
    <3> QED
      BY <1>0, <3>1, LockKept
  <2>4. Sound(i)'
    <3>1. TaskFits(i)'
      BY <1>0, <1>5, <1>7, <2>1 DEF Sound, TaskFits, InTasks, StepTasks
    <3>2. StopRemembered(i)' /\ CancelIsStop(i)'
      BY <1>0, <1>4, <1>5, <1>7, <2>1, <3>1 DEF Sound, TaskFits, StopRemembered, CancelIsStop, gates,
            InTasks, StepTasks
    <3>3. LeftBehind(i)' /\ HoldRow(i)' /\ WorkedOn(i)' /\ StopShown(i)'
      BY <1>0, <1>4, <1>5, <1>7, <2>1 DEF Sound, LeftBehind, HoldRow, WorkedOn, StopShown, recovery,
            gates, InTasks, StepTasks, HOLDING, Unfinished
    <3> QED
      BY <3>1, <3>2, <3>3 DEF Sound
  <2>5. /\ stopReq' \subseteq stopReq \cup {i} /\ stopReq \subseteq stopReq' \cup {i}
        /\ cancelled' \subseteq cancelled \cup {i} /\ cancelled \subseteq cancelled' \cup {i}
    BY <2>1
  <2> QED
    BY <1>0, <1>3, <1>4, <2>1, <2>2, <2>3, <2>4, <2>5, HandlerStep DEF ceilings, Inv, TypeOK
<1> QED
  BY <1>6, <1>7

\* The settings and the updater keep the invariant.
LEMMA UpdatesInv ==
  ASSUME Inv, Updates \/ (\E n \in 1 .. MaxParallel : SetMaxParallel(n))
  PROVE  Inv'
<1>1. CASE ApplyPressed \/ WindowMoves \/ (\E n \in 1 .. MaxParallel : SetMaxParallel(n))
  <2>1. /\ UNCHANGED <<att, memory, illegal, recovery, closed, ceilings>>
        /\ parallel' \in 1 .. MaxParallel /\ updating' \in {"no", "pressed", "window"}
    BY <1>1 DEF ApplyPressed, WindowMoves, SetMaxParallel, Inv, TypeOK, rows, gates
  <2>2. TypeOK' /\ NobodyRaises' /\ OneUnfinishedPerUnit'
    BY <2>1 DEF Inv, TypeOK, NobodyRaises, OneUnfinishedPerUnit, memory, recovery, ceilings
  <2>3. ASSUME NEW j \in Ids PROVE Sound(j)'
    BY <2>1 DEF Inv, Sound, TaskFits, StopRemembered, LeftBehind, HoldRow, CancelIsStop,
                WorkedOn, StopShown, memory, recovery
  <2> QED
    BY <2>2, <2>3 DEF Inv
<1>2. CASE UpdateOver
  <2>1. /\ TypeOK /\ OneUnfinishedPerUnit /\ closed \in BOOLEAN /\ boot # "down"
        /\ att \in [Ids -> Row] /\ task \in [Ids -> Tasks]
    BY <1>2 DEF Inv, TypeOK, UpdateOver, Alive
  <2> DEFINE g == ~closed
  <2>2. att' = Woken(att, g) /\ task' = Launched(att, task, g) /\ g \in BOOLEAN
    BY <1>2, <2>1 DEF UpdateOver
  <2> HIDE DEF g
  <2>3. /\ att' \in [Ids -> Row] /\ task' \in [Ids -> Tasks]
        /\ \A j \in Ids : LeftAlone(j) \/ Admits(j)
    BY <2>1, <2>2, WakeStep DEF LeftAlone, Admits
  <2>4. OneUnfinishedPerUnit'
    BY <2>1, <2>3, WakeKeeps, LockKept
  <2>5. \A j \in Ids : Sound(j)'
    BY <1>2, <2>1, <2>3, Bystander DEF Inv, UpdateOver, recovery
  <2> QED
    BY <1>2, <2>1, <2>3, <2>4, <2>5 DEF UpdateOver, Inv, TypeOK, NobodyRaises, recovery, ceilings
<1> QED
  BY <1>1, <1>2 DEF Updates

\* The process going down, however it goes, keeps the invariant.
LEMMA GoesDownInv ==
  ASSUME Inv, Shutdown \/ Crash \/ (\E u \in Units : CrashInHold(u))
  PROVE  Inv'
<1>0. /\ TypeOK /\ OneUnfinishedPerUnit /\ (\A j \in Ids : Sound(j)) /\ boot # "down"
      /\ att \in [Ids -> Row] /\ task \in [Ids -> Tasks] /\ "none" \in Tasks
  BY DEF Inv, TypeOK, Shutdown, Crash, CrashInHold, Alive, Tasks
<1>1. CASE Shutdown
  <2>1. TypeOK' /\ NobodyRaises' /\ OneUnfinishedPerUnit'
    BY <1>0, <1>1 DEF Inv, Shutdown, TypeOK, NobodyRaises, OneUnfinishedPerUnit, rows, recovery,
                      ceilings
  <2>2. ASSUME NEW j \in Ids PROVE Sound(j)'
    BY <1>0, <1>1 DEF Shutdown, Sound, TaskFits, StopRemembered, LeftBehind, HoldRow, CancelIsStop,
                      WorkedOn, StopShown, rows, recovery
  <2> QED
    BY <2>1, <2>2 DEF Inv
<1>2. crashes < MaxCrashes /\ Forgotten => crashes' \in 0 .. MaxCrashes
  BY <1>0, AttemptsAssumption DEF Forgotten, TypeOK
<1>3. CASE Crash
  <2>1. TypeOK' /\ NobodyRaises' /\ OneUnfinishedPerUnit'
    BY <1>0, <1>2, <1>3 DEF Crash, Forgotten, TypeOK, NobodyRaises, OneUnfinishedPerUnit, rows
  <2>2. ASSUME NEW j \in Ids PROVE Sound(j)'
    BY <1>0, <1>3 DEF Crash, Forgotten, Sound, TaskFits, StopRemembered, LeftBehind, HoldRow,
                      CancelIsStop, WorkedOn, StopShown, rows, InTasks, StepTasks
  <2> QED
    BY <2>1, <2>2 DEF Inv
<1>4. ASSUME NEW u \in Units, CrashInHold(u) PROVE Inv'
  <2>1. PICK i \in Ids : IsNextId(att, i)
                         /\ att' = Woken(Opened(att, i, "hold", u, "queued"), Admitting)
    BY <1>4 DEF CrashInHold
  <2>2. /\ att[i].state = "none" /\ MayOpen(att, u) /\ Forgotten /\ illegal' = illegal
        /\ paused' = paused /\ parallel' = parallel /\ crashes' \in 0 .. MaxCrashes
        /\ Admitting \in BOOLEAN
    BY <1>2, <1>4, <2>1 DEF CrashInHold, IsNextId, Admitting
  <2> DEFINE a == Opened(att, i, "hold", u, "queued")
  <2>3. /\ a \in [Ids -> Row]
        /\ a[i].machine = "hold" /\ a[i].unit = u /\ a[i].state = "queued" /\ a[i].stop = FALSE
        /\ \A j \in Ids \ {i} : a[j] = att[j]
    BY <1>0, StoreAssumption DEF Opened, Row, Machines, Unfinished, Outcomes
  <2> HIDE DEF a
  <2>4. /\ att' \in [Ids -> Row]
        /\ \A j \in Ids : \/ att'[j] = a[j]
                          \/ /\ a[j].state = "queued" /\ a[j].machine = "step"
                             /\ att'[j] = [a[j] EXCEPT !.state = "preparing"]
                          \/ /\ a[j].state = "queued" /\ a[j].machine = "integration"
                             /\ att'[j] = [a[j] EXCEPT !.state = "running"]
    <3>1. att' = Woken(a, Admitting)
      BY <2>1 DEF a
    <3> QED
      BY <2>2, <2>3, <3>1, WokenRows
  <2>5. att'[i] = a[i]
    BY <2>3, <2>4
  <2>6. ASSUME NEW j \in Ids \ {i}
        PROVE  /\ att'[j].unit = att[j].unit /\ att'[j].machine = att[j].machine
               /\ att'[j].stop = att[j].stop /\ att'[j].outcome = att[j].outcome
               /\ \/ att'[j].state = att[j].state
                  \/ /\ att[j].state = "queued" /\ att[j].machine = "step"
                     /\ att'[j].state = "preparing"
                  \/ /\ att[j].state = "queued" /\ att[j].machine = "integration"
                     /\ att'[j].state = "running"
    BY <1>0, <2>3, <2>4 DEF Row
  <2>7. OneUnfinishedPerUnit'
    <3>1. \A j \in Ids \ {i} : att'[j].unit = u => att'[j].state \notin Unfinished
      BY <2>2, <2>6 DEF MayOpen, Live, Unfinished
    <3>2. \A j \in Ids \ {i} : att'[j].state \in Unfinished => att[j].state \in Unfinished
      BY <2>6 DEF Unfinished
    <3> QED
      BY <1>0, <2>3, <2>5, <2>6, <3>1, <3>2 DEF OneUnfinishedPerUnit
  <2>8. TypeOK' /\ NobodyRaises'
    BY <1>0, <2>2, <2>4 DEF Forgotten, TypeOK, NobodyRaises
  <2>9. Sound(i)'
    BY <1>0, <2>2, <2>3, <2>5, Unheard DEF Forgotten, Sound, TaskFits, StopRemembered, LeftBehind,
          HoldRow, CancelIsStop, WorkedOn, StopShown, InTasks, StepTasks
  <2>10. ASSUME NEW j \in Ids \ {i} PROVE Sound(j)'
    BY <1>0, <2>2, <2>6 DEF Forgotten, Sound, TaskFits, StopRemembered, LeftBehind,
          HoldRow, CancelIsStop, WorkedOn, StopShown, InTasks, StepTasks, STOPPABLE
  <2> QED
    BY <2>7, <2>8, <2>9, <2>10 DEF Inv
<1> QED
  BY <1>1, <1>3, <1>4

\* What a start makes of a row: nothing, or the end of one past the queue that no task holds.
Ends(a, j) == /\ a[j].unit = att[j].unit /\ a[j].machine = att[j].machine
              /\ a[j].stop = att[j].stop
              /\ att[j].state \in HOLDING /\ task[j] \notin InTasks
              /\ a[j].state = "ended" /\ a[j].outcome \in {"stopped", "interrupted"}

\* `_recover` ends only rows it read, and leaves those it has still to come to.
LEMMA RecoveredRows ==
  ASSUME TypeOK, \A j \in Ids : HoldRow(j), NEW seg, NEW stops,
         \A j \in seg : j \in Ids /\ att[j].state \in HOLDING /\ task[j] = "none"
  PROVE  /\ Recovered(seg, stops) \in [Ids -> Row]
         /\ \A j \in Ids : \/ Recovered(seg, stops)[j] = att[j]
                           \/ (j \in seg /\ Ends(Recovered(seg, stops), j))
<1> DEFINE a == Recovered(seg, stops)
<1>0. att \in [Ids -> Row]
  BY DEF TypeOK
<1>1. a = [j \in Ids |-> a[j]]
  BY DEF Recovered
<1>2. \A j \in Ids : a[j] = IF j \in seg /\ RecoveredTo(j, stops) # ""
                           THEN Moved(att, j, "ended", RecoveredTo(j, stops))[j]
                           ELSE att[j]
  BY DEF Recovered
<1> HIDE DEF a
<1>3. ASSUME NEW j \in Ids
      PROVE  a[j] \in Row /\ (a[j] = att[j] \/ (j \in seg /\ Ends(a, j)))
  <2>1. CASE ~(j \in seg /\ RecoveredTo(j, stops) # "")
    BY <1>0, <1>2, <2>1
  <2>2. CASE j \in seg /\ RecoveredTo(j, stops) # ""
    <3> DEFINE o == RecoveredTo(j, stops)
    <3>1. o \in {"stopped", "interrupted"}
      BY <2>2 DEF RecoveredTo
    <3>2. /\ o \in Outcomes /\ "ended" \in HOLDING \cup ENDS /\ "ended" \in ENDS
          /\ MayMove(att, j, "ended") /\ task[j] \notin InTasks
      BY <2>2, <3>1, MayEnd DEF Outcomes, ENDS, InTasks, StepTasks
    <3>3. a[j] = Moved(att, j, "ended", o)[j]
      BY <1>2, <2>2
    <3> HIDE DEF o
    <3>4. /\ Moved(att, j, "ended", o) \in [Ids -> Row]
          /\ Moved(att, j, "ended", o)[j].machine = att[j].machine
          /\ Moved(att, j, "ended", o)[j].unit = att[j].unit
          /\ Moved(att, j, "ended", o)[j].stop = att[j].stop
          /\ Moved(att, j, "ended", o)[j].state = "ended"
          /\ Moved(att, j, "ended", o)[j].outcome = o
      BY <1>0, <3>2, MovedRow
    <3> QED
      BY <2>2, <3>1, <3>2, <3>3, <3>4 DEF Ends
  <2> QED
    BY <2>1, <2>2
<1>4. a \in [Ids -> Row]
  BY <1>1, <1>3
<1> QED
  BY <1>3, <1>4 DEF a

\* `_end_unclaimed` ends what no task holds, and nothing past the queue is left without one.
LEMMA UnclaimedRows ==
  ASSUME TypeOK, \A j \in Ids : HoldRow(j), NEW a \in [Ids -> Row],
         \A j \in Ids : a[j] = att[j] \/ Ends(a, j)
  PROVE  /\ EndUnclaimed(a) \in [Ids -> Row]
         /\ \A j \in Ids : /\ EndUnclaimed(a)[j] = att[j] \/ Ends(EndUnclaimed(a), j)
                           /\ EndUnclaimed(a)[j].state \in HOLDING => task[j] \in InTasks
<1> DEFINE b == EndUnclaimed(a)
<1>0. att \in [Ids -> Row]
  BY DEF TypeOK
<1>1. b = [j \in Ids |-> b[j]]
  BY DEF EndUnclaimed
<1>2. \A j \in Ids : b[j] = IF a[j].state \in HOLDING /\ task[j] \notin InTasks
                           THEN Moved(a, j, "ended", "interrupted")[j]
                           ELSE a[j]
  BY DEF EndUnclaimed
<1> HIDE DEF b
<1>3. ASSUME NEW j \in Ids
      PROVE  /\ b[j] \in Row
             /\ b[j] = att[j] \/ Ends(b, j)
             /\ b[j].state \in HOLDING => task[j] \in InTasks
  <2>1. CASE ~(a[j].state \in HOLDING /\ task[j] \notin InTasks)
    BY <1>0, <1>2, <2>1 DEF Ends
  <2>2. CASE a[j].state \in HOLDING /\ task[j] \notin InTasks
    <3>1. a[j] = att[j]
      BY <2>2 DEF Ends, HOLDING
    <3>2. /\ "interrupted" \in Outcomes /\ "ended" \in HOLDING \cup ENDS /\ "ended" \in ENDS
          /\ MayMove(a, j, "ended")
      BY <2>2, <3>1, MayEnd DEF Outcomes, ENDS, MayMove
    <3>3. b[j] = Moved(a, j, "ended", "interrupted")[j]
      BY <1>2, <2>2
    <3>4. /\ Moved(a, j, "ended", "interrupted") \in [Ids -> Row]
          /\ Moved(a, j, "ended", "interrupted")[j].machine = a[j].machine
          /\ Moved(a, j, "ended", "interrupted")[j].unit = a[j].unit
          /\ Moved(a, j, "ended", "interrupted")[j].stop = a[j].stop
          /\ Moved(a, j, "ended", "interrupted")[j].state = "ended"
          /\ Moved(a, j, "ended", "interrupted")[j].outcome = "interrupted"
      BY <3>2, MovedRow
    <3> QED
      BY <2>2, <3>1, <3>3, <3>4 DEF Ends, HOLDING
  <2> QED
    BY <2>1, <2>2
<1>4. b \in [Ids -> Row]
  BY <1>1, <1>3
<1> QED
  BY <1>3, <1>4 DEF b

\* A segment of recovery keeps the invariant, the first one and the last one too.
LEMMA RecoverOnInv ==
  ASSUME Inv, NEW from \in SUBSET Ids, NEW stops \in SUBSET from, NEW removed,
         \A j \in from : att[j].state \in HOLDING /\ task[j] = "none",
         RecoverOn(from, stops, removed),
         UNCHANGED <<parallel, stopReq, cancelled, crashes, gates, ceilings>>
  PROVE  Inv'
<1> DEFINE seg == Segment(from, removed)
<1> DEFINE a == Recovered(seg, stops)
<1> DEFINE b == IF seg = from THEN EndUnclaimed(a) ELSE a
<1>0. /\ TypeOK /\ OneUnfinishedPerUnit /\ NobodyRaises
      /\ att \in [Ids -> Row] /\ task \in [Ids -> Tasks]
      /\ \A j \in Ids : Sound(j) /\ HoldRow(j)
  BY DEF Inv, TypeOK, Sound
<1>1. seg \subseteq from
  BY DEF Segment
<1>2. /\ left' = from \ seg /\ leftStop' = stops \ seg
      /\ boot' = IF seg = from THEN "up" ELSE "recovering"
      /\ Commit(b, task)
  BY DEF RecoverOn
<1>10. illegal' = illegal
  <2>1. ASSUME NEW j \in seg PROVE MayMove(att, j, "ended")
    <3>1. j \in Ids /\ att[j] \in Row /\ att[j].state \in HOLDING /\ HoldRow(j)
      BY <1>0, <1>1
    <3> QED
      BY <3>1 DEF MayMove, MACHINES, HOLDING, HoldRow, Row, Machines
  <2>2. illegal' = illegal \cup {j \in seg : RecoveredTo(j, stops) # "" /\ ~MayMove(att, j, "ended")}
    BY DEF RecoverOn
  <2> QED
    BY <2>1, <2>2
<1> HIDE DEF seg
<1>3. /\ a \in [Ids -> Row]
      /\ \A j \in Ids : a[j] = att[j] \/ (j \in seg /\ Ends(a, j))
  BY <1>0, <1>1, RecoveredRows
<1> HIDE DEF a
<1>4. /\ b \in [Ids -> Row]
      /\ \A j \in Ids : /\ b[j] = att[j] \/ Ends(b, j)
                        /\ j \in from \ seg => b[j] = att[j]
                        /\ seg = from => (b[j].state \in HOLDING => task[j] \in InTasks)
  <2>1. CASE seg = from
    <3>1. /\ EndUnclaimed(a) \in [Ids -> Row]
          /\ \A j \in Ids : /\ EndUnclaimed(a)[j] = att[j] \/ Ends(EndUnclaimed(a), j)
                            /\ EndUnclaimed(a)[j].state \in HOLDING => task[j] \in InTasks
      BY <1>0, <1>3, UnclaimedRows
    <3> QED
      BY <2>1, <3>1
  <2>2. CASE seg # from
    BY <1>1, <1>3, <2>2
  <2> QED
    BY <2>1, <2>2
<1> HIDE DEF b
<1>5. /\ att' \in [Ids -> Row] /\ task' \in [Ids -> Tasks]
      /\ \A j \in Ids :
              \/ att'[j] = b[j] /\ task'[j] = task[j]
              \/ /\ b[j].state = "queued" /\ b[j].machine = "step"
                 /\ att'[j] = [b[j] EXCEPT !.state = "preparing"] /\ task'[j] = "toPrepare"
              \/ /\ b[j].state = "queued" /\ b[j].machine = "integration"
                 /\ att'[j] = [b[j] EXCEPT !.state = "running"] /\ task'[j] = "integrating"
  BY <1>0, <1>2, <1>4, CommitEffect
<1>6. ASSUME NEW j \in Ids
      PROVE  \/ LeftAlone(j) /\ att[j] = b[j]
             \/ Admits(j)
             \/ /\ Ends(b, j) /\ att'[j] = b[j] /\ task'[j] = task[j] /\ j \notin from \ seg
  <2>1. CASE b[j] = att[j]
    BY <1>5, <2>1 DEF LeftAlone, Admits
  <2>2. CASE b[j] # att[j]
    <3>1. Ends(b, j) /\ j \notin from \ seg
      BY <1>4, <2>2
    <3>2. b[j].state # "queued"
      BY <3>1 DEF Ends
    <3> QED
      BY <1>5, <3>1, <3>2
  <2> QED
    BY <2>1, <2>2
<1>7. OneUnfinishedPerUnit'
  <2>1. ASSUME NEW j \in Ids
        PROVE  /\ att'[j].unit = att[j].unit
               /\ att'[j].state \in Unfinished => att[j].state \in Unfinished
    BY <1>0, <1>6, WakeKeeps DEF Ends, Unfinished
  <2> QED
    BY <1>0, <2>1, LockKept
<1>8. TypeOK' /\ NobodyRaises'
  BY <1>0, <1>2, <1>5, <1>10 DEF TypeOK, NobodyRaises, gates, ceilings
<1>9. ASSUME NEW j \in Ids PROVE Sound(j)'
  <2>0. Sound(j) /\ HoldRow(j) /\ boot' # "down"
    BY <1>0, <1>2
  <2>4. boot' = "up" => (b[j].state \in HOLDING => task[j] \in InTasks)
    <3>1. CASE seg = from
      BY <1>4, <3>1
    <3>2. CASE seg # from
      BY <1>2, <3>2
    <3> QED
      BY <3>1, <3>2
  <2> USE DEF HOLDING, InTasks, StepTasks
  <2>1. CASE LeftAlone(j) /\ att[j] = b[j]
    <3>1. WorkedOn(j)'
      BY <2>1, <2>4 DEF LeftAlone, WorkedOn
    <3>2. TaskFits(j)' /\ StopRemembered(j)' /\ LeftBehind(j)'
      BY <1>2, <2>0, <2>1 DEF LeftAlone, Sound, TaskFits, StopRemembered, LeftBehind
    <3>3. HoldRow(j)' /\ CancelIsStop(j)' /\ StopShown(j)'
      BY <1>10, <2>0, <2>1 DEF LeftAlone, Sound, HoldRow, CancelIsStop, StopShown, gates
    <3> QED
      BY <3>1, <3>2, <3>3 DEF Sound
  <2>2. CASE Admits(j)
    <3>1. /\ att'[j].machine = att[j].machine /\ att'[j].stop = att[j].stop /\ att[j].state = "queued"
          /\ \/ att[j].machine = "step" /\ att'[j].state = "preparing" /\ task'[j] = "toPrepare"
             \/ att[j].machine = "integration" /\ att'[j].state = "running" /\ task'[j] = "integrating"
      BY <1>0, <2>2 DEF Admits, Row
    <3> QED
      BY <1>2, <1>10, <2>0, <3>1 DEF Sound, TaskFits, StopRemembered, LeftBehind, HoldRow, CancelIsStop,
                              WorkedOn, StopShown, gates
  <2>3. CASE Ends(b, j) /\ att'[j] = b[j] /\ task'[j] = task[j] /\ j \notin from \ seg
    BY <1>2, <1>10, <2>0, <2>3 DEF Ends, Sound, TaskFits, StopRemembered, LeftBehind, HoldRow, CancelIsStop,
                            WorkedOn, StopShown, gates
  <2> QED
    BY <1>6, <2>1, <2>2, <2>3
<1> QED
  BY <1>7, <1>8, <1>9 DEF Inv

\* A start, and recovery once a tree is removed, keep the invariant.
LEMMA BootsInv ==
  ASSUME Inv, Boots
  PROVE  Inv'
<1>1. CASE Start
  <2> DEFINE held == {i \in Ids : att[i].state \in HOLDING}
  <2> DEFINE stops == {i \in held : att[i].stop}
  <2>1. RecoverOn(held, stops, {})
        /\ UNCHANGED <<parallel, stopReq, cancelled, crashes, gates, ceilings>>
    BY <1>1 DEF Start
  <2>2. \A j \in held : att[j].state \in HOLDING /\ task[j] = "none"
    BY <1>1 DEF Start, Inv, Sound, LeftBehind
  <2>3. held \in SUBSET Ids /\ stops \in SUBSET held
    OBVIOUS
  <2> HIDE DEF held, stops
  <2> QED
    BY <2>1, <2>2, <2>3, RecoverOnInv
<1>2. CASE RecoverNext
  <2> DEFINE removed == {CHOOSE i \in left : \A j \in left : i <= j}
  <2>1. RecoverOn(left, leftStop, removed)
        /\ UNCHANGED <<parallel, stopReq, cancelled, crashes, gates, ceilings>>
    BY <1>2 DEF RecoverNext
  <2>2. left \in SUBSET Ids /\ leftStop \in SUBSET left
    BY DEF Inv, TypeOK
  <2>3. \A j \in left : att[j].state \in HOLDING /\ task[j] = "none"
    BY <2>2 DEF Inv, Sound, LeftBehind
  <2> HIDE DEF removed
  <2> QED
    BY <2>1, <2>2, <2>3, RecoverOnInv
<1> QED
  BY <1>1, <1>2 DEF Boots

-----------------------------------------------------------------------------
(* The theorems.                                                           *)

\* A start of the system has the invariant.
LEMMA InitInv == Init => Inv
<1> SUFFICES ASSUME Init PROVE Inv
  OBVIOUS
<1>1. TypeOK /\ NobodyRaises
  <2>1. NoRow \in Row
    BY DEF NoRow, Row, Machines, Outcomes
  <2>2. "none" \in Tasks /\ 0 \in 0 .. MaxCrashes
    BY AttemptsAssumption DEF Tasks
  <2> QED
    BY <2>1, <2>2 DEF Init, TypeOK, NobodyRaises
<1>2. OneUnfinishedPerUnit
  BY DEF Init, OneUnfinishedPerUnit, NoRow, Unfinished, HOLDING
<1>3. ASSUME NEW i \in Ids PROVE Sound(i)
  BY DEF Init, NoRow, Sound, TaskFits, StopRemembered, LeftBehind, HoldRow, CancelIsStop, WorkedOn,
         StopShown, InTasks, StepTasks
<1> QED
  BY <1>1, <1>2, <1>3 DEF Inv

\* Every step of the system keeps the invariant.
LEMMA NextInv == Inv /\ [Next]_vars => Inv'
<1> SUFFICES ASSUME Inv, [Next]_vars PROVE Inv'
  OBVIOUS
<1>1. CASE \E i \in Ids : Works(i)
  BY <1>1, PreparesInv, DrivesInv, IntegratesInv, HoldsInv DEF Works
<1>2. CASE \E u \in Units : RaiseActs(u)
  BY <1>2, RaiseActsInv
<1>3. CASE Asks
  <2>1. ASSUME NEW u \in Units, RaiseReads(u) PROVE Inv'
    <3>1. /\ boot # "down" /\ UNCHANGED <<rows, memory, illegal, recovery, gates>>
          /\ paused' \subseteq Units /\ raising' \subseteq Units
      BY <2>1 DEF RaiseReads, Alive, Inv, TypeOK
    <3> QED
      BY <3>1, OnlyCeilings
  <2> QED
    BY <1>3, <2>1, ClickInv, HoldBeginsInv, StopInv, UpdatesInv DEF Asks
<1>4. CASE Updates
  BY <1>4, UpdatesInv
<1>5. CASE Shutdown \/ Crash \/ (\E u \in Units : CrashInHold(u))
  BY <1>5, GoesDownInv
<1>6. CASE Boots
  BY <1>6, BootsInv
<1>7. CASE UNCHANGED vars
  <2>1. UNCHANGED <<rows, memory, illegal, recovery, gates, ceilings>>
    BY <1>7 DEF vars
  <2>2. TypeOK' /\ NobodyRaises' /\ OneUnfinishedPerUnit'
    BY <2>1 DEF Inv, TypeOK, NobodyRaises, OneUnfinishedPerUnit, rows, memory, recovery, gates, ceilings
  <2>3. ASSUME NEW j \in Ids PROVE Sound(j)'
    BY <2>1 DEF Inv, Sound, TaskFits, StopRemembered, LeftBehind, HoldRow, CancelIsStop,
                WorkedOn, StopShown, rows, memory, recovery, gates
  <2> QED
    BY <2>2, <2>3 DEF Inv
<1> QED
  BY <1>1, <1>2, <1>3, <1>4, <1>5, <1>6, <1>7 DEF Next

\* The invariant holds in every state of the system.
THEOREM Invariance == Spec => []Inv
<1>1. Init => Inv
  BY InitInv
<1>2. Inv /\ [Next]_vars => Inv'
  BY NextInv
<1> QED
  BY <1>1, <1>2, PTL DEF Spec

\* Every variable keeps its type.
THEOREM TypeCorrect == Spec => []TypeOK
<1>1. Inv => TypeOK
  BY DEF Inv
<1> QED
  BY <1>1, Invariance, PTL

\* The unit lock of `open`: however clicks, raises, holds, Stops, recoveries and restarts
\* interleave, no unit has two attempts that are not over.
THEOREM OneAttemptPerUnit == Spec => []OneUnfinishedPerUnit
<1>1. Inv => OneUnfinishedPerUnit
  BY DEF Inv
<1> QED
  BY <1>1, Invariance, PTL

\* No handler and no start moves a row from under the coroutine that works on it.
THEOREM CoroutineOwnsItsRow == Spec => []RowsMatchTasks
<1>1. Inv => RowsMatchTasks
  BY DEF Inv, Sound, TaskFits, RowsMatchTasks
<1> QED
  BY <1>1, Invariance, PTL

\* Only a hold's handler is ever told `Illegal`.
THEOREM OnlyLegalMoves == Spec => []NoIllegalMove
<1>1. Inv => NoIllegalMove
  BY DEF Inv, TypeOK, Sound, HoldRow, NoIllegalMove
<1> QED
  BY <1>1, Invariance, PTL

\* Once a start is through, whatever holds its unit past the queue is held by a task.
THEOREM NothingLeftHeld == Spec => []HeldIsWorkedOn
<1>1. Inv => HeldIsWorkedOn
  BY DEF Inv, Sound, WorkedOn, HeldIsWorkedOn
<1> QED
  BY <1>1, Invariance, PTL

\* A recorded Stop shows in how its attempt ended.
THEOREM StopIsNeverLost == Spec => []StopShows
<1>1. Inv => StopShows
  BY DEF Inv, Sound, StopShown, StopShows
<1> QED
  BY <1>1, Invariance, PTL

-----------------------------------------------------------------------------
(* What a step may never do.  A step leaves the rows it handled, woken:    *)
(* Handled says what the handler itself may have made of them.             *)

\* A handler that opens no attempt moves none to another unit and opens none again that is over.
OpensNone(a) ==
  \A j \in Ids : /\ a[j].unit = att[j].unit /\ a[j].machine = att[j].machine
                 /\ a[j].state = "none" <=> att[j].state = "none"
                 /\ a[j].state \in Unfinished => att[j].state \in Unfinished

\* One that opens an attempt gives it the next id and a unit that has no attempt that is not over.
Opens(a, i) ==
  /\ IsNextId(att, i) /\ a[i].unit \in Units /\ MayOpen(att, a[i].unit)
  /\ a[i].state \in Unfinished
  /\ \A j \in Ids \ {i} : a[j] = att[j]

\* A handler leaves a queued row queued or ends it; a row it opens is queued, of a hold or a raise; and
\* what it ends of an attempt whose coroutine was finishing is not `stopped`.
Handled(a) ==
  /\ OpensNone(a) \/ \E i \in Ids : Opens(a, i)
  /\ \A j \in Ids :
    /\ att[j].state = "queued"
         => a[j].state \in ENDS \/ (a[j].state = "queued" /\ a[j].machine = att[j].machine)
    /\ att[j].state = "none"
         => a[j].state \in {"none", "queued"} \/ a[j].machine = "hold"
              \/ (a[j].machine = "step" /\ a[j].state = "running")
    /\ att[j].state = "ending" /\ a[j].state = "ended" /\ task[j] # "none" => a[j].outcome # "stopped"

\* The step leaves rows it handled, woken unless nobody is admitted; it ends a queued attempt at once for a
\* Stop, whose flag woke the queue before; or it changes no row and calls off no update.
Wakes ==
  \E a \in [Ids -> Row], g \in BOOLEAN :
    Handled(a) /\ att' = Woken(a, g) /\ (g \/ closed' \/ updating' # "no" \/ boot' = "down")
EndsQueued ==
  \E a, w \in [Ids -> Row], k \in Ids :
    /\ \A j \in Ids : a[j].state = att[j].state /\ a[j].machine = att[j].machine /\ a[j].unit = att[j].unit
    /\ w = Woken(a, Admitting) /\ w[k].state = "queued"
    /\ att' = Woken(Moved(w, k, "ended", "stopped"), Admitting) /\ UNCHANGED gates
Rests == att' = att /\ ~(updating # "no" /\ updating' = "no" /\ boot' # "down")

\* A commit of handled rows wakes them.
LEMMA CommitWakes ==
  ASSUME NEW a \in [Ids -> Row], Handled(a), NEW t, Commit(a, t), UNCHANGED gates
  PROVE  Wakes
<1>1. Admitting \in BOOLEAN /\ (Admitting \/ closed' \/ updating' # "no")
  BY DEF Admitting, gates
<1> QED
  BY <1>1 DEF Wakes, Commit

\* A handler that changes one row past the queue, and does not end it `stopped` when it was finishing.
LEMMA HandledOwn ==
  ASSUME NEW i \in Ids, NEW a \in [Ids -> Row], \A j \in Ids \ {i} : a[j] = att[j],
         att[i].state \notin {"none", "queued"}, a[i].state # "none",
         a[i].unit = att[i].unit, a[i].machine = att[i].machine,
         a[i].state \in Unfinished => att[i].state \in Unfinished,
         att[i].state = "ending" /\ a[i].state = "ended" => a[i].outcome # "stopped"
  PROVE  Handled(a)
  BY DEF Handled, OpensNone

\* A handler that asks for one move.
LEMMA HandledMove ==
  ASSUME TypeOK, NEW i \in Ids, NEW to \in HOLDING \cup ENDS, NEW outcome \in Outcomes, NEW t,
         att[i].state # "queued" \/ to \in ENDS, outcome = "stopped" => att[i].state # "ending",
         CommitMove(i, to, outcome, t), UNCHANGED gates
  PROVE  Wakes
<1> DEFINE a == Moved(att, i, to, outcome)
<1>1. att \in [Ids -> Row] /\ Commit(a, t)
  BY DEF TypeOK, CommitMove
<1>2. /\ a \in [Ids -> Row] /\ \A j \in Ids \ {i} : a[j] = att[j]
      /\ MayMove(att, i, to) => att[i].state # "none" /\ a[i].state = to /\ (to \in ENDS => a[i].outcome = outcome)
      /\ ~MayMove(att, i, to) => a[i] = att[i]
      /\ a[i].unit = att[i].unit /\ a[i].machine = att[i].machine
  BY <1>1, MovedRow, NoneStays
<1> HIDE DEF a
<1>3. MayMove(att, i, to) => att[i].state \in Unfinished /\ to # "none"
  BY <1>1, MovesTable DEF Unfinished, HOLDING
<1>4. OpensNone(a)
  BY <1>2, <1>3 DEF OpensNone
<1>5. Handled(a)
  BY <1>2, <1>4 DEF Handled, ENDS
<1> QED
  BY <1>1, <1>2, <1>5, CommitWakes

\* A handler that closes an attempt past the queue.
LEMMA HandledClose ==
  ASSUME TypeOK, NEW i \in Ids, NEW refused \in BOOLEAN, NEW outcome \in {"done", "failed", "stopped"},
         Close(i, refused, outcome), outcome = "stopped" => att[i].state # "ending", UNCHANGED gates
  PROVE  Wakes
<1>1. {"code", "stop_late", outcome} \subseteq Outcomes /\ {"refused", "ended"} \subseteq ENDS
  BY DEF Outcomes, ENDS
<1>2. CASE CommitMove(i, "refused", "code", With(i, "none"))
  BY <1>1, <1>2, HandledMove
<1>3. CASE CommitMove(i, "ended", "stop_late", With(i, "none"))
  BY <1>1, <1>3, HandledMove
<1>4. CASE CommitMove(i, "ended", outcome, With(i, "none"))
  BY <1>1, <1>4, HandledMove
<1> QED
  BY <1>2, <1>3, <1>4 DEF Close

\* A handler that opens an attempt: a click's, a hold's or a raise's.
LEMMA HandledOpen ==
  ASSUME TypeOK, NEW i \in Ids, IsNextId(att, i), NEW m \in Machines, NEW u \in Units, MayOpen(att, u),
         NEW entry \in {"queued", "running"}, entry = "queued" \/ m = "step"
  PROVE  /\ Opened(att, i, m, u, entry) \in [Ids -> Row]
         /\ Handled(Opened(att, i, m, u, entry)) /\ Opens(Opened(att, i, m, u, entry), i)
<1> DEFINE a == Opened(att, i, m, u, entry)
<1>1. att \in [Ids -> Row]
  BY DEF TypeOK
<1>2. /\ a \in [Ids -> Row] /\ a[i].machine = m /\ a[i].state = entry /\ a[i].unit = u
      /\ \A j \in Ids \ {i} : a[j] = att[j]
  BY <1>1, StoreAssumption DEF Opened, Row, Machines, Unfinished, HOLDING, Outcomes
<1> HIDE DEF a
<1>3. Opens(a, i)
  BY <1>2 DEF Opens, Unfinished, HOLDING
<1>4. Handled(a)
  BY <1>2, <1>3 DEF Handled, IsNextId
<1> QED
  BY <1>2, <1>3, <1>4 DEF a

\* Every turn of an attempt's coroutine.
LEMMA TurnsWake ==
  ASSUME Inv, NEW i \in Ids, Works(i)
  PROVE  Wakes \/ Rests
<1>0. /\ TypeOK /\ Sound(i) /\ att \in [Ids -> Row] /\ {"done", "failed", "stopped", ""} \subseteq Outcomes
      /\ {"running", "ending"} \subseteq HOLDING /\ {"refused", "ended"} \subseteq ENDS
  BY DEF Inv, TypeOK, Outcomes, HOLDING, ENDS
<1>1. /\ task[i] \in {"preparing", "toPrepare"} => att[i].state = "preparing"
      /\ task[i] = "acting" => att[i].state = "ending"
      /\ task[i] = "toDrive" => att[i].state = "running"
      /\ task[i] \in {"driving", "integrating"} => att[i].state \in {"running", "ending"}
      /\ task[i] = "holding" => att[i].state # "ending"
      /\ i \in stopReq => att[i].state # "ending"
  BY <1>0 DEF Sound, TaskFits, StopRemembered, HoldRow
<1>2. ASSUME att' = att, UNCHANGED gates PROVE Rests
  BY <1>2 DEF Rests, gates
<1>3. ASSUME PrepareBegins(i) \/ AfterEnd(i) PROVE Rests
  BY <1>2, <1>3 DEF PrepareBegins, AfterEnd, rows
<1>4. ASSUME NEW refused \in BOOLEAN, PrepareRaises(i, refused) PROVE Wakes
  BY <1>0, <1>4, HandledClose DEF PrepareRaises
<1>5. ASSUME PrepareActs(i) PROVE Wakes
  <2> DEFINE a == Moved(att, i, "running", "")
             b == Moved(a, i, "ending", "")
  <2>1. att[i].state = "preparing" /\ Commit(b, With(i, "acting")) /\ UNCHANGED gates
    BY <1>1, <1>5 DEF PrepareActs
  <2>2. MayMove(att, i, "running") /\ att[i].machine = "step"
    BY <1>0, <1>5, <2>1, MovesTable DEF PrepareActs, Sound, TaskFits, InTasks, StepTasks
  <2>3. "running" \in HOLDING /\ "ending" \in HOLDING
    BY <1>0
  <2>4. /\ a \in [Ids -> Row] /\ a[i].state = "running" /\ a[i].machine = "step" /\ a[i].unit = att[i].unit
        /\ \A j \in Ids \ {i} : a[j] = att[j]
    <3>1. MovesOn(att, a, i, "running")
      BY <1>0, <2>2, <2>3, MovedOn
    <3> QED
      BY <2>2, <3>1 DEF MovesOn
  <2> HIDE DEF a
  <2>5. MayMove(a, i, "ending")
    BY <2>4, MovesTable
  <2>6. /\ b \in [Ids -> Row] /\ b[i].state = "ending" /\ b[i].unit = a[i].unit /\ b[i].machine = a[i].machine
        /\ \A j \in Ids \ {i} : b[j] = a[j]
    <3>1. MovesOn(a, b, i, "ending")
      BY <2>3, <2>4, <2>5, MovedOn
    <3> QED
      BY <3>1 DEF MovesOn
  <2> HIDE DEF b
  <2>7. Handled(b)
    BY <2>1, <2>2, <2>4, <2>6, HandledOwn DEF Unfinished, HOLDING
  <2> QED
    BY <2>1, <2>6, <2>7, CommitWakes
<1>6. ASSUME PrepareStarts(i) PROVE Wakes
  BY <1>0, <1>1, <1>6, HandledMove DEF PrepareStarts
<1>7. ASSUME PrepareCancelled(i) PROVE Wakes \/ Rests
  BY <1>0, <1>1, <1>2, <1>7, HandledClose DEF PrepareCancelled
<1>8. ASSUME NEW outcome \in {"done", "failed"}, ActEnds(i, outcome) PROVE Wakes
  BY <1>0, <1>8, HandledClose DEF ActEnds
<1>9. ASSUME DriveBegins(i) PROVE Wakes \/ Rests
  BY <1>0, <1>1, <1>2, <1>9, HandledMove DEF DriveBegins
<1>10. ASSUME Seal(i) PROVE Wakes
  BY <1>0, <1>1, <1>10, HandledMove DEF Seal
<1>11. ASSUME NEW outcome \in Outcomes, DriveEnds(i, outcome) PROVE Wakes
  <2>1. /\ CommitMove(i, "ended", EndedWith(i, outcome), With(i, IF outcome = "done" THEN "afterEnd" ELSE "none"))
        /\ UNCHANGED gates /\ RunOutcome(i, outcome) /\ task[i] = "driving"
    BY <1>11 DEF DriveEnds
  <2>2. EndedWith(i, outcome) \in Outcomes /\ (EndedWith(i, outcome) = "stopped" => outcome = "stopped")
    BY DEF EndedWith, Outcomes
  <2>3. outcome = "stopped" => att[i].state # "ending"
    BY <1>1, <2>1 DEF RunOutcome
  <2> QED
    BY <1>0, <2>1, <2>2, <2>3, HandledMove
<1>12. ASSUME NEW inSession \in BOOLEAN, DriveGoesDown(i, inSession) PROVE Wakes \/ Rests
  BY <1>0, <1>1, <1>2, <1>12, HandledMove DEF DriveGoesDown
<1>13. ASSUME StopPoint(i) \/ LastStopPoint(i) PROVE Wakes
  BY <1>0, <1>1, <1>13, HandledMove DEF StopPoint, LastStopPoint
<1>14. ASSUME NEW refused \in BOOLEAN, IntegrationRaises(i, refused) PROVE Wakes
  BY <1>0, <1>14, HandledClose DEF IntegrationRaises
<1>15. ASSUME IntegrationEnds(i) PROVE Wakes
  <2>1. EndedWith(i, "done") \in Outcomes \ {"stopped"}
    BY DEF EndedWith, Outcomes
  <2> QED
    BY <1>0, <1>15, <2>1, HandledMove DEF IntegrationEnds
<1>16. ASSUME NEW outcome \in {"done", "failed"}, HoldEnds(i, outcome) PROVE Wakes
  BY <1>0, <1>16, HandledMove DEF HoldEnds
<1> QED
  BY <1>3, <1>4, <1>5, <1>6, <1>7, <1>8, <1>9, <1>10, <1>11, <1>12, <1>13, <1>14, <1>15, <1>16
     DEF Works, Prepares, Drives, Integrates, Holds

\* Every step of the system.
LEMMA StepsWake ==
  ASSUME Inv, Next
  PROVE  Wakes \/ EndsQueued \/ Rests
<1>0. /\ TypeOK /\ att \in [Ids -> Row] /\ task \in [Ids -> Tasks] /\ STOPPABLE \subseteq Machines /\ "hold" \in Machines
      /\ "step" \in Machines
  BY DEF Inv, TypeOK, STOPPABLE, Machines
<1>1. CASE \E i \in Ids : Works(i)
  BY <1>1, TurnsWake
<1>2. ASSUME att' = att, UNCHANGED gates PROVE Rests
  BY <1>2 DEF Rests, gates
<1>3. /\ Handled(att)
      /\ \A a \in [Ids -> Row] :
           (\A j \in Ids : a[j].state = att[j].state /\ a[j].machine = att[j].machine /\ a[j].unit = att[j].unit)
             => Handled(a)
  BY DEF Handled, OpensNone
<1>4. ASSUME NEW u \in Units, RaiseActs(u) PROVE Wakes \/ Rests
  <2>1. CASE \E i \in Ids : IsNextId(att, i) /\ Commit(Opened(att, i, "step", u, "running"), With(i, "toDrive"))
    <3>1. PICK i \in Ids : IsNextId(att, i) /\ Commit(Opened(att, i, "step", u, "running"), With(i, "toDrive"))
      BY <2>1
    <3> DEFINE a == Opened(att, i, "step", u, "running")
    <3>2. UNCHANGED gates
      BY <1>4 DEF RaiseActs
    <3>3. CASE MayOpen(att, u)
      <4>1. a \in [Ids -> Row] /\ Handled(a)
        BY <1>0, <3>1, <3>3, HandledOpen
      <4> HIDE DEF a
      <4>2. Commit(a, With(i, "toDrive"))
        BY <3>1 DEF a
      <4> QED
        BY <3>2, <4>1, <4>2, CommitWakes
    <3>4. CASE ~MayOpen(att, u)
      BY <1>2, <1>4, <3>2, <3>4 DEF RaiseActs
    <3> QED
      BY <3>3, <3>4
  <2> QED
    BY <1>2, <1>4, <2>1 DEF RaiseActs
<1>5. ASSUME NEW u \in Units, NEW m \in STOPPABLE, Click(u, m) PROVE Wakes
  <2>1. PICK i \in Ids : IsNextId(att, i) /\ Commit(Opened(att, i, m, u, "queued"), task)
    BY <1>5 DEF Click
  <2> DEFINE a == Opened(att, i, m, u, "queued")
  <2>2. MayOpen(att, u) /\ UNCHANGED gates /\ m \in Machines
    BY <1>0, <1>5 DEF Click
  <2>3. a \in [Ids -> Row] /\ Handled(a)
    BY <1>0, <2>1, <2>2, HandledOpen
  <2> QED
    BY <2>1, <2>2, <2>3, CommitWakes
<1>6. ASSUME NEW u \in Units, HoldBegins(u) PROVE Wakes
  <2>1. PICK i \in Ids : /\ IsNextId(att, i)
                         /\ Commit(Moved(Opened(att, i, "hold", u, "queued"), i, "running", ""),
                                   With(i, "holding"))
    BY <1>6 DEF HoldBegins
  <2> DEFINE a == Opened(att, i, "hold", u, "queued")
             b == Moved(a, i, "running", "")
  <2>2. IsNextId(att, i) /\ MayOpen(att, u) /\ UNCHANGED gates
    BY <1>6, <2>1 DEF HoldBegins
  <2>3. /\ a \in [Ids -> Row] /\ Opens(a, i) /\ Handled(a) /\ a[i].machine = "hold" /\ a[i].state = "queued"
    BY <1>0, <2>2, HandledOpen DEF Opened
  <2>4. Commit(b, With(i, "holding"))
    BY <2>1
  <2> HIDE DEF a
  <2>5. MayMove(a, i, "running") /\ "running" \in HOLDING
    BY <2>3, MovesTable DEF HOLDING
  <2>6. /\ b \in [Ids -> Row] /\ b[i].machine = a[i].machine /\ b[i].unit = a[i].unit /\ b[i].state = "running"
        /\ \A j \in Ids \ {i} : b[j] = a[j]
    <3>1. MovesOn(a, b, i, "running")
      BY <2>3, <2>5, MovedOn
    <3> QED
      BY <3>1 DEF MovesOn
  <2> HIDE DEF b
  <2>7. Opens(b, i)
    BY <2>3, <2>6 DEF Opens, Unfinished, HOLDING
  <2>8. Handled(b)
    BY <2>2, <2>3, <2>6, <2>7 DEF Handled, IsNextId, Opens
  <2> QED
    BY <2>2, <2>4, <2>6, <2>8, CommitWakes
<1>7. ASSUME NEW i \in Ids, Stop(i) PROVE Wakes \/ EndsQueued
  <2> DEFINE asked == StopAsked(att, i)
             a == Woken(asked, Admitting)
             t == Launched(asked, task, Admitting)
  <2>1. /\ asked \in [Ids -> Row]
        /\ \A j \in Ids : /\ asked[j].state = att[j].state /\ asked[j].machine = att[j].machine
                          /\ asked[j].unit = att[j].unit
    BY <1>0 DEF StopAsked, Row
  <2>2. /\ IF a[i].state = "queued" THEN Commit(Moved(a, i, "ended", "stopped"), t) ELSE att' = a
        /\ UNCHANGED gates
    BY <1>7 DEF Stop
  <2> HIDE DEF asked
  <2>3. Handled(asked) /\ Admitting \in BOOLEAN
    BY <1>3, <2>1 DEF Admitting
  <2>4. a \in [Ids -> Row]
    BY <2>1, <2>3, WokenRows
  <2>5. CASE a[i].state # "queued"
    <3>1. att' = Woken(asked, Admitting) /\ (Admitting \/ closed' \/ updating' # "no")
      BY <2>2, <2>5 DEF Admitting, gates
    <3> QED
      BY <2>1, <2>3, <3>1 DEF Wakes
  <2>6. CASE a[i].state = "queued"
    <3>1. att' = Woken(Moved(a, i, "ended", "stopped"), Admitting) /\ UNCHANGED gates
      BY <2>2, <2>6 DEF Commit
    <3> QED
      BY <2>1, <2>3, <2>4, <2>6, <3>1 DEF EndsQueued
  <2> QED
    BY <2>5, <2>6
<1>8. CASE Asks
  <2>1. ASSUME NEW u \in Units, RaiseReads(u) PROVE Rests
    BY <1>2, <2>1 DEF RaiseReads, rows
  <2>2. ASSUME NEW n \in 1 .. MaxParallel, SetMaxParallel(n) PROVE Rests
    BY <1>2, <2>2 DEF SetMaxParallel
  <2> QED
    BY <1>5, <1>6, <1>7, <1>8, <2>1, <2>2 DEF Asks
<1>9. CASE Updates
  <2>1. ASSUME ApplyPressed \/ WindowMoves PROVE Rests
    BY <2>1 DEF ApplyPressed, WindowMoves, Rests, rows
  <2>2. ASSUME UpdateOver PROVE Wakes
    <3>1. att' = Woken(att, ~closed) /\ closed' = closed
      BY <2>2 DEF UpdateOver
    <3>2. (~closed) \in BOOLEAN /\ ((~closed) \/ closed')
      BY <3>1, Zenon
    <3>3. Handled(att)
      BY <1>3
    <3> QED
      BY <1>0, <3>1, <3>2, <3>3, Zenon DEF Wakes
  <2> QED
    BY <1>9, <2>1, <2>2 DEF Updates
<1>10. ASSUME Shutdown \/ Crash PROVE Rests
  BY <1>10 DEF Shutdown, Crash, Forgotten, Rests, rows
<1>11. ASSUME NEW u \in Units, CrashInHold(u) PROVE Wakes
  <2>1. PICK i \in Ids : IsNextId(att, i) /\ att' = Woken(Opened(att, i, "hold", u, "queued"), Admitting)
    BY <1>11 DEF CrashInHold
  <2> DEFINE a == Opened(att, i, "hold", u, "queued")
  <2>2. MayOpen(att, u) /\ boot' = "down"
    BY <1>11 DEF CrashInHold, Forgotten
  <2>3. a \in [Ids -> Row] /\ Handled(a)
    BY <1>0, <2>1, <2>2, HandledOpen
  <2>4. Admitting \in BOOLEAN
    BY DEF Admitting
  <2> QED
    BY <2>1, <2>2, <2>3, <2>4 DEF Wakes
<1>12. ASSUME NEW from \in SUBSET Ids, NEW stops, NEW removed, RecoverOn(from, stops, removed), UNCHANGED gates,
              \A j \in from : att[j].state \in HOLDING /\ task[j] = "none"
       PROVE  Wakes
  <2> DEFINE seg == Segment(from, removed)
             a == Recovered(seg, stops)
             b == IF seg = from THEN EndUnclaimed(a) ELSE a
  <2>1. \A j \in Ids : HoldRow(j) /\ Sound(j)
    BY DEF Inv, Sound
  <2>2. Commit(b, task) /\ seg \subseteq from
    BY <1>12 DEF RecoverOn, Segment
  <2> HIDE DEF seg
  <2>3. a \in [Ids -> Row] /\ \A j \in Ids : a[j] = att[j] \/ Ends(a, j)
    BY <1>0, <1>12, <2>1, <2>2, RecoveredRows
  <2> HIDE DEF a
  <2>4. b \in [Ids -> Row] /\ \A j \in Ids : b[j] = att[j] \/ Ends(b, j)
    BY <1>0, <2>1, <2>3, UnclaimedRows
  <2> HIDE DEF b
  <2>5. \A j \in Ids : att[j].state = "ending" => task[j] \notin Tasks \ (InTasks \cup {"none"})
    BY <2>1 DEF Sound, TaskFits, HoldRow, Tasks, InTasks, StepTasks
  <2>6. OpensNone(b)
    BY <1>0, <2>4 DEF OpensNone, Ends, HOLDING, Unfinished
  <2>7. Handled(b)
    BY <1>0, <2>4, <2>5, <2>6 DEF Handled, Ends, HOLDING
  <2> QED
    BY <1>12, <2>2, <2>4, <2>7, CommitWakes
<1>13. CASE Boots
  <2>1. ASSUME Start PROVE Wakes
    <3> DEFINE held == {i \in Ids : att[i].state \in HOLDING}
    <3>1. RecoverOn(held, {i \in held : att[i].stop}, {}) /\ UNCHANGED gates
      BY <2>1 DEF Start
    <3>2. \A j \in held : att[j].state \in HOLDING /\ task[j] = "none"
      BY <2>1 DEF Start, Inv, Sound, LeftBehind
    <3>3. held \in SUBSET Ids
      OBVIOUS
    <3> HIDE DEF held
    <3> QED
      BY <1>12, <3>1, <3>2, <3>3
  <2>2. ASSUME RecoverNext PROVE Wakes
    <3> DEFINE removed == {CHOOSE i \in left : \A j \in left : i <= j}
    <3>1. RecoverOn(left, leftStop, removed) /\ UNCHANGED gates
      BY <2>2 DEF RecoverNext
    <3>2. left \in SUBSET Ids /\ \A j \in left : att[j].state \in HOLDING /\ task[j] = "none"
      BY DEF Inv, TypeOK, Sound, LeftBehind
    <3> HIDE DEF removed
    <3> QED
      BY <1>12, <3>1, <3>2
  <2> QED
    BY <1>13, <2>1, <2>2 DEF Boots
<1> QED
  BY <1>1, <1>4, <1>8, <1>9, <1>10, <1>11, <1>13 DEF Next

-----------------------------------------------------------------------------
(* How many a wake moves on.                                               *)

\* Any set of attempts is finite.
LEMMA FiniteIds ==
  ASSUME NEW S, S \subseteq Ids
  PROVE  IsFiniteSet(S) /\ Cardinality(S) \in Nat
<1>1. MaxAttempts \in Int /\ 1 \in Int
  BY StoreAssumption
<1>2. IsFiniteSet(Ids)
  BY <1>1, FS_Interval DEF Ids
<1>3. S \in SUBSET Ids
  OBVIOUS
<1>4. IsFiniteSet(S)
  BY <1>2, <1>3, FS_Subset
<1> QED
  BY <1>4, FS_CardinalityType

\* A set of attempts that is not empty has an oldest one.
LEMMA HasOldest ==
  ASSUME NEW S, S \subseteq Ids, S # {}
  PROVE  \E x \in S : \A y \in S : x <= y
<1>1. S \subseteq Nat
  BY StoreAssumption DEF Ids
<1>2. PICK x \in S : \A y \in S : ~(<<y, x>> \in OpToRel(<, Nat))
  BY <1>1, NatLessThanWellFounded, WFMin, Zenon
<1>3. \A y \in S : ~(y < x)
  BY <1>1, <1>2, Zenon DEF OpToRel
<1>4. \A y \in S : x <= y
  BY <1>1, <1>3
<1> QED
  BY <1>4

\* ... and a youngest one.
LEMMA HasYoungest ==
  ASSUME NEW S, S \subseteq Ids, S # {}
  PROVE  \E x \in S : \A y \in S : y <= x
<1> DEFINE T == {i \in Ids : MaxAttempts + 1 - i \in S}
<1>1. \A y \in Ids : MaxAttempts + 1 - y \in Ids /\ MaxAttempts + 1 - (MaxAttempts + 1 - y) = y
  BY StoreAssumption DEF Ids
<1>2. T # {}
  <2>1. PICK s \in S : s \in Ids
    OBVIOUS
  <2>2. MaxAttempts + 1 - s \in T
    BY <1>1, <2>1
  <2> HIDE DEF T
  <2> QED
    BY <2>2
<1>3. T \subseteq Ids
  OBVIOUS
<1>4. PICK x \in T : \A y \in T : x <= y
  <2> HIDE DEF T
  <2> QED
    BY <1>2, <1>3, HasOldest
<1>5. \A z \in S : z <= MaxAttempts + 1 - x
  <2> TAKE z \in S
  <2>1. z \in Ids /\ MaxAttempts + 1 - z \in T
    BY <1>1
  <2>2. x <= MaxAttempts + 1 - z
    BY <1>4, <2>1
  <2> QED
    BY <1>3, <2>1, <2>2, StoreAssumption DEF Ids
<1>6. MaxAttempts + 1 - x \in S
  OBVIOUS
<1> QED
  BY <1>5, <1>6

\* Those of a kind of slot a wake moves on.
Given(a, slot) == {j \in Admitted(a) : SLOTS(a[j].machine) = slot}

\* What a wake adds to those who hold a slot, and takes from those who wait for it.
LEMMA WakeMoves ==
  ASSUME NEW a \in [Ids -> Row], NEW slot \in Slots
  PROVE  /\ Held(Woken(a, TRUE), slot) = Held(a, slot) \cup Given(a, slot)
         /\ Waiting(Woken(a, TRUE), slot) = Waiting(a, slot) \ Given(a, slot)
         /\ Given(a, slot) \subseteq Waiting(a, slot)
         /\ Waiting(a, slot) \subseteq Ids /\ Held(a, slot) \subseteq Ids
         /\ Held(a, slot) \cap Given(a, slot) = {}
         /\ \A i \in Given(a, slot) :
              Cardinality({j \in Waiting(a, slot) : j < i}) < Capacity(slot) - Cardinality(Held(a, slot))
         /\ \A i \in Waiting(a, slot) \ Given(a, slot) :
              ~(Cardinality({j \in Waiting(a, slot) : j < i})
                  < Capacity(slot) - Cardinality(Held(a, slot)))
<1> DEFINE b == Woken(a, TRUE)
<1>1. \A j \in Ids : /\ j \in Admitted(a) => a[j].state = "queued" /\ a[j].machine \in {"step", "integration"}
                     /\ a[j].state = "queued" => j \in Admitted(a) \/ b[j] = a[j]
  BY DEF Admitted, SLOTS, Slots, Row, Machines, Woken
<1>2. \A j \in Ids : IF j \in Admitted(a) THEN b[j].state \in HOLDING /\ b[j].machine = a[j].machine
                                          ELSE b[j] = a[j]
  <2> TAKE j \in Ids
  <2>1. b[j] = IF j \in Admitted(a) THEN [a[j] EXCEPT !.state = FIRST(a[j].machine)] ELSE a[j]
    BY DEF Woken
  <2>2. a[j] \in Row /\ FIRST(a[j].machine) \in HOLDING
    BY DEF FIRST, HOLDING
  <2> QED
    BY <2>1, <2>2 DEF Row
<1> HIDE DEF b
<1>3. Admitted(a) \subseteq Ids /\ "queued" \notin HOLDING
  BY DEF Admitted, HOLDING
<1>4. Held(b, slot) = Held(a, slot) \cup Given(a, slot)
  BY <1>1, <1>2, <1>3 DEF Held, Given
<1>5. Waiting(b, slot) = Waiting(a, slot) \ Given(a, slot)
  BY <1>1, <1>2, <1>3 DEF Waiting, Given
<1>6. /\ Given(a, slot) \subseteq Waiting(a, slot)
      /\ Waiting(a, slot) \subseteq Ids /\ Held(a, slot) \subseteq Ids
      /\ Held(a, slot) \cap Given(a, slot) = {}
  BY <1>1, <1>3 DEF Waiting, Given, Held
<1>7. \A i \in Waiting(a, slot) :
        i \in Given(a, slot)
          <=> Cardinality({j \in Waiting(a, slot) : j < i}) < Capacity(slot) - Cardinality(Held(a, slot))
  BY DEF Waiting, Given, Admitted
<1> QED
  BY <1>4, <1>5, <1>6, <1>7 DEF b

\* A wake leaves no free slot beside one who waits for it.
LEMMA WakeFills ==
  ASSUME NEW a \in [Ids -> Row], NEW slot \in Slots, parallel \in Nat,
         Waiting(Woken(a, TRUE), slot) # {}
  PROVE  Cardinality(Held(Woken(a, TRUE), slot)) >= Capacity(slot)
<1> DEFINE H == Held(a, slot)
           A == Given(a, slot)
           W == Waiting(a, slot)
<1>1. /\ Held(Woken(a, TRUE), slot) = H \cup A /\ Waiting(Woken(a, TRUE), slot) = W \ A
      /\ A \subseteq W /\ W \subseteq Ids /\ H \subseteq Ids /\ H \cap A = {}
      /\ \A i \in W \ A : ~(Cardinality({j \in W : j < i}) < Capacity(slot) - Cardinality(H))
  BY WakeMoves
<1>2. Capacity(slot) \in Nat
  BY DEF Capacity
<1> HIDE DEF H, A, W
<1>3. PICK w \in W \ A : \A y \in W \ A : w <= y
  BY <1>1, HasOldest
<1> DEFINE B == {j \in W : j < w}
<1>4. B \in SUBSET A
  <2>1. SUFFICES ASSUME NEW j \in W, j < w, j \notin A PROVE FALSE
    OBVIOUS
  <2>2. w <= j /\ j \in Int /\ w \in Int
    BY <1>1, <1>3, <2>1 DEF Ids
  <2> QED
    BY <2>1, <2>2
<1>5. ~(Cardinality(B) < Capacity(slot) - Cardinality(H))
  BY <1>1, <1>3
<1> HIDE DEF B
<1>6. IsFiniteSet(A) /\ IsFiniteSet(H) /\ Cardinality(A) \in Nat /\ Cardinality(H) \in Nat
  BY <1>1, FiniteIds
<1>7. Cardinality(B) <= Cardinality(A) /\ Cardinality(B) \in Nat
  BY <1>4, <1>6, FS_Subset, FS_CardinalityType
<1>8. Cardinality(H \cup A) = Cardinality(H) + Cardinality(A)
  <2>1. Cardinality(H \cap A) = 0
    BY <1>1, FS_EmptySet
  <2>2. Cardinality(H \cup A) = Cardinality(H) + Cardinality(A) - Cardinality(H \cap A)
    BY <1>6, FS_Union
  <2> QED
    BY <1>6, <2>1, <2>2
<1>9. Cardinality(H \cup A) >= Capacity(slot)
  BY <1>2, <1>5, <1>6, <1>7, <1>8
<1> QED
  BY <1>1, <1>9

\* A wake that gives a slot gives only free ones.
LEMMA WakeWithin ==
  ASSUME NEW a \in [Ids -> Row], NEW slot \in Slots, parallel \in Nat, Given(a, slot) # {}
  PROVE  Cardinality(Held(Woken(a, TRUE), slot)) <= Capacity(slot)
<1> DEFINE H == Held(a, slot)
           A == Given(a, slot)
           W == Waiting(a, slot)
<1>1. /\ Held(Woken(a, TRUE), slot) = H \cup A
      /\ A \subseteq W /\ W \subseteq Ids /\ H \subseteq Ids /\ H \cap A = {}
      /\ \A i \in A : Cardinality({j \in W : j < i}) < Capacity(slot) - Cardinality(H)
      /\ A # {}
  BY WakeMoves
<1>2. Capacity(slot) \in Nat
  BY DEF Capacity
<1> HIDE DEF H, A, W
<1>3. PICK m \in A : \A y \in A : y <= m
  BY <1>1, HasYoungest
<1> DEFINE B == {j \in W : j < m}
<1>4. A \ {m} \in SUBSET B
  <2>1. SUFFICES ASSUME NEW j \in A, j # m PROVE j \in W /\ j < m
    OBVIOUS
  <2>2. j <= m /\ j \in Int /\ m \in Int /\ j \in W
    BY <1>1, <1>3 DEF Ids
  <2> QED
    BY <2>1, <2>2
<1>5. Cardinality(B) < Capacity(slot) - Cardinality(H)
  BY <1>1, <1>3
<1>6. B \subseteq Ids
  BY <1>1
<1> HIDE DEF B
<1>7. /\ IsFiniteSet(A) /\ IsFiniteSet(H) /\ Cardinality(A) \in Nat /\ Cardinality(H) \in Nat
      /\ IsFiniteSet(B) /\ Cardinality(B) \in Nat
  BY <1>1, <1>6, FiniteIds
<1>8. Cardinality(A \ {m}) = Cardinality(A) - 1
  BY <1>3, <1>7, FS_RemoveElement
<1>9. Cardinality(A \ {m}) <= Cardinality(B)
  BY <1>4, <1>7, FS_Subset
<1>10. Cardinality(H \cup A) = Cardinality(H) + Cardinality(A)
  <2>1. Cardinality(H \cap A) = 0
    BY <1>1, FS_EmptySet
  <2>2. Cardinality(H \cup A) = Cardinality(H) + Cardinality(A) - Cardinality(H \cap A)
    BY <1>7, FS_Union
  <2> QED
    BY <1>7, <2>1, <2>2
<1>11. Cardinality(H \cup A) <= Capacity(slot)
  BY <1>2, <1>5, <1>7, <1>8, <1>9, <1>10
<1> QED
  BY <1>1, <1>11

\* A wake gives a slot to those who wait in the order they came.
LEMMA WakeInOrder ==
  ASSUME NEW a \in [Ids -> Row], NEW i \in Admitted(a), NEW j \in Ids, j < i, parallel \in Nat,
         a[j].state = "queued", a[j].machine = a[i].machine
  PROVE  j \in Admitted(a)
<1> DEFINE slot == SLOTS(a[i].machine)
           W == Waiting(a, slot)
           B == {k \in W : k < i}
           C == {k \in W : k < j}
<1>1. /\ i \in Ids /\ slot \in Slots /\ Cardinality(B) < Capacity(slot) - Cardinality(Held(a, slot))
      /\ Cardinality(C) < Capacity(slot) - Cardinality(Held(a, slot)) => j \in Admitted(a)
  BY DEF Admitted
<1>2. W \subseteq Ids /\ Held(a, slot) \subseteq Ids
  BY DEF Waiting, Held
<1> HIDE DEF slot, W
<1>3. C \in SUBSET B /\ B \subseteq Ids
  <2>1. \A k \in W : k < j => k < i
    BY <1>1, <1>2 DEF Ids
  <2> QED
    BY <1>2, <2>1
<1> HIDE DEF B, C
<1>4. IsFiniteSet(B) /\ Cardinality(B) \in Nat /\ Cardinality(Held(a, slot)) \in Nat
  BY <1>2, <1>3, FiniteIds
<1>5. Cardinality(C) <= Cardinality(B) /\ Cardinality(C) \in Nat
  BY <1>3, <1>4, FS_Subset, FS_CardinalityType
<1>6. Capacity(slot) \in Nat
  BY DEF Capacity
<1> QED
  BY <1>1, <1>4, <1>5, <1>6

-----------------------------------------------------------------------------
(* The action properties.                                                  *)

\* Handled rows are rows, and what a queued attempt ended at once leaves of them.
LEMMA EndsQueuedRows ==
  ASSUME NEW w \in [Ids -> Row], NEW k \in Ids, w[k].state = "queued"
  PROVE  /\ Moved(w, k, "ended", "stopped") \in [Ids -> Row]
         /\ Moved(w, k, "ended", "stopped")[k].state = "ended"
         /\ \A j \in Ids \ {k} : Moved(w, k, "ended", "stopped")[j] = w[j]
         /\ \A slot \in Slots : Held(Moved(w, k, "ended", "stopped"), slot) = Held(w, slot)
<1> DEFINE v == Moved(w, k, "ended", "stopped")
<1>1. w[k].machine \in {"step", "integration", "hold"}
  BY DEF Row, Machines
<1>2. "ended" \in HOLDING \cup ENDS /\ "ended" \in ENDS /\ "stopped" \in Outcomes
  BY DEF ENDS, Outcomes
<1>3. MayMove(w, k, "ended")
  BY <1>1, MovesTable
<1>4. v \in [Ids -> Row] /\ v[k].state = "ended" /\ \A j \in Ids \ {k} : v[j] = w[j]
  BY <1>2, <1>3, MovedRow
<1> HIDE DEF v
<1>5. ASSUME NEW slot \in Slots PROVE Held(v, slot) = Held(w, slot)
  BY <1>4 DEF Held, HOLDING
<1> QED
  BY <1>4, <1>5 DEF v

\* What a wake leaves ended, or leaves of a row that is not queued, it found so.
LEMMA WokenEnds ==
  ASSUME NEW a \in [Ids -> Row], NEW g \in BOOLEAN, NEW j \in Ids
  PROVE  /\ Woken(a, g)[j].state \notin {"preparing", "running"} => Woken(a, g)[j] = a[j]
         /\ a[j].state # "queued" => Woken(a, g)[j] = a[j]
         /\ Woken(a, g)[j].machine = a[j].machine
         /\ Woken(a, g)[j] = a[j] \/ (g /\ j \in Admitted(a))
         /\ g /\ j \in Admitted(a) => /\ Woken(a, g)[j].state # "queued" /\ a[j].state = "queued"
                                      /\ SLOTS(a[j].machine) \in Slots
                                      /\ j \in Given(a, SLOTS(a[j].machine))
<1>1. a[j] \in Row /\ a[j].state \in {"none"} \cup Unfinished \cup ENDS
  BY DEF Row
<1>2. \/ Woken(a, g)[j] = a[j]
      \/ /\ a[j].state = "queued"
         /\ \/ Woken(a, g)[j] = [a[j] EXCEPT !.state = "preparing"]
            \/ Woken(a, g)[j] = [a[j] EXCEPT !.state = "running"]
  BY WokenRows
<1>3. \A s \in {"preparing", "running"} : [a[j] EXCEPT !.state = s].state = s
                                          /\ [a[j] EXCEPT !.state = s].machine = a[j].machine
  BY <1>1 DEF Row
<1>4. Woken(a, g)[j] = IF g /\ j \in Admitted(a) THEN [a[j] EXCEPT !.state = FIRST(a[j].machine)] ELSE a[j]
  BY DEF Woken
<1>5. j \in Admitted(a) => /\ a[j].state = "queued" /\ SLOTS(a[j].machine) \in Slots
                           /\ j \in Given(a, SLOTS(a[j].machine))
  BY DEF Admitted, Given
<1>6. [a[j] EXCEPT !.state = FIRST(a[j].machine)].state # "queued"
  BY <1>1 DEF FIRST, Row
<1>7. Woken(a, g)[j].state \notin {"preparing", "running"} => Woken(a, g)[j] = a[j]
  BY <1>2, <1>3
<1>8. (a[j].state # "queued" => Woken(a, g)[j] = a[j]) /\ Woken(a, g)[j].machine = a[j].machine
  BY <1>2, <1>3
<1>9. Woken(a, g)[j] = a[j] \/ (g /\ j \in Admitted(a))
  BY <1>4
<1>10. g /\ j \in Admitted(a) => Woken(a, g)[j].state # "queued"
  BY <1>4, <1>6
<1> QED
  BY <1>5, <1>7, <1>8, <1>9, <1>10

\* A step never ends `stopped` what a live coroutine was finishing.
LEMMA StepNeverHalfway ==
  ASSUME Inv, Next, NEW i \in Ids, att[i].state = "ending", att'[i].state = "ended", task[i] # "none"
  PROVE  att'[i].outcome # "stopped"
<1>1. CASE Wakes
  <2>1. PICK a \in [Ids -> Row], g \in BOOLEAN : Handled(a) /\ att' = Woken(a, g)
    BY <1>1 DEF Wakes
  <2>2. att'[i] = a[i]
    BY <2>1, WokenEnds
  <2> QED
    BY <2>1, <2>2 DEF Handled
<1>2. CASE EndsQueued
  <2>1. PICK a \in [Ids -> Row], w \in [Ids -> Row], k \in Ids :
           /\ \A j \in Ids : a[j].state = att[j].state /\ a[j].machine = att[j].machine
           /\ w = Woken(a, Admitting) /\ w[k].state = "queued"
           /\ att' = Woken(Moved(w, k, "ended", "stopped"), Admitting)
    BY <1>2 DEF EndsQueued
  <2> DEFINE v == Moved(w, k, "ended", "stopped")
  <2>2. Admitting \in BOOLEAN
    BY DEF Admitting
  <2>3. w[i] = a[i] /\ a[i].state = "ending"
    BY <2>1, <2>2, WokenEnds
  <2>4. v \in [Ids -> Row] /\ v[i] = w[i] /\ att' = Woken(v, Admitting)
    BY <2>1, <2>3, EndsQueuedRows
  <2> HIDE DEF v
  <2>5. att'[i] = v[i]
    BY <2>2, <2>3, <2>4, WokenEnds
  <2> QED
    BY <2>3, <2>4, <2>5
<1>3. CASE Rests
  BY <1>3 DEF Rests
<1> QED
  BY <1>1, <1>2, <1>3, StepsWake

\* A Stop never cuts an attempt in `ending` halfway (StopNeverHalfway): a handler never ends `stopped`
\* what its coroutine was finishing.
THEOREM EndingIsFinished == Spec => StopNeverHalfway
<1>1. Inv /\ [Next]_vars
        => [\A i \in Ids : /\ att[i].state = "ending" /\ att'[i].state = "ended"
                           /\ task[i] # "none"
                           => att'[i].outcome # "stopped"]_vars
  BY StepNeverHalfway
<1> QED
  BY <1>1, Invariance, PTL DEF Spec, StopNeverHalfway

\* After a step that changed a row or called an update off, nobody waits beside a free slot.
LEMMA StepFills ==
  ASSUME Inv, Next, att' # att \/ (updating # "no" /\ updating' = "no" /\ boot' # "down"),
         ~closed', updating' = "no", boot' # "down", NEW slot \in Slots, Waiting(att', slot) # {}
  PROVE  Cardinality(Held(att', slot)) >= Capacity(slot)
<1>1. parallel \in Nat
  BY StoreAssumption DEF Inv, TypeOK
<1>2. CASE Wakes
  <2>1. PICK a \in [Ids -> Row], g \in BOOLEAN : att' = Woken(a, g) /\ (g \/ closed' \/ updating' # "no" \/ boot' = "down")
    BY <1>2 DEF Wakes
  <2>2. att' = Woken(a, TRUE)
    BY <2>1
  <2> QED
    BY <1>1, <2>2, WakeFills
<1>3. CASE EndsQueued
  <2>1. PICK a \in [Ids -> Row], w \in [Ids -> Row], k \in Ids :
           /\ w[k].state = "queued" /\ UNCHANGED gates
           /\ att' = Woken(Moved(w, k, "ended", "stopped"), Admitting)
    BY <1>3 DEF EndsQueued
  <2> DEFINE v == Moved(w, k, "ended", "stopped")
  <2>2. Admitting = TRUE
    BY <2>1 DEF Admitting, gates
  <2>3. v \in [Ids -> Row] /\ att' = Woken(v, TRUE)
    BY <2>1, <2>2, EndsQueuedRows
  <2> HIDE DEF v
  <2> QED
    BY <1>1, <2>3, WakeFills
<1>4. CASE Rests
  BY <1>4 DEF Rests
<1> QED
  BY <1>2, <1>3, <1>4, StepsWake

\* The wake is never lost (WakeFollows): every handler that frees a slot, opens an attempt or calls an
\* update off leaves rows the scheduler went over.
THEOREM WakesAreNeverLost == Spec => WakeFollows
<1>1. Inv /\ [Next]_vars
        => [(att' # att \/ (updating # "no" /\ updating' = "no" /\ boot' # "down"))
              /\ ~closed' /\ updating' = "no" /\ boot' # "down"
            => \A slot \in Slots :
                 Waiting(att', slot) # {} => Cardinality(Held(att', slot)) >= Capacity(slot)]_vars
  BY StepFills
<1> QED
  BY <1>1, Invariance, PTL DEF Spec, WakeFollows

\* Who is given a slot by a wake of rows: all who waited before it are, and the slots given were free.
LEMMA WakeGives ==
  ASSUME NEW a \in [Ids -> Row], NEW g \in BOOLEAN, NEW i \in Ids, Woken(a, g)[i] # a[i], parallel \in Nat
  PROVE  /\ g /\ i \in Admitted(a) /\ a[i].state = "queued" /\ SLOTS(a[i].machine) \in Slots
         /\ Given(a, SLOTS(a[i].machine)) # {}
         /\ \A j \in Ids : j < i /\ a[j].state = "queued" /\ a[j].machine = a[i].machine
                             => Woken(a, g)[j].state # "queued"
         /\ Cardinality(Held(Woken(a, g), SLOTS(a[i].machine))) <= Capacity(SLOTS(a[i].machine))
<1>1. /\ g /\ i \in Admitted(a) /\ a[i].state = "queued" /\ SLOTS(a[i].machine) \in Slots
      /\ i \in Given(a, SLOTS(a[i].machine))
  BY WokenEnds
<1>2. ASSUME NEW j \in Ids, j < i, a[j].state = "queued", a[j].machine = a[i].machine
      PROVE  Woken(a, g)[j].state # "queued"
  <2>1. j \in Admitted(a)
    BY <1>1, <1>2, WakeInOrder
  <2> QED
    BY <1>1, <2>1, WokenEnds
<1>3. g = TRUE
  BY <1>1
<1>4. Cardinality(Held(Woken(a, g), SLOTS(a[i].machine))) <= Capacity(SLOTS(a[i].machine))
  BY <1>1, <1>3, WakeWithin
<1> QED
  BY <1>1, <1>2, <1>4

\* A step gives a slot in order, and a free one.
LEMMA StepAdmits ==
  ASSUME Inv, Next, NEW i \in Ids, att[i].state \in {"none", "queued"}, att'[i].machine \in STOPPABLE,
         att'[i].state = FIRST(att'[i].machine)
  PROVE  /\ \A j \in Ids : j < i /\ att[j].state = "queued" /\ att[j].machine = att'[i].machine
                             => att'[j].state # "queued"
         /\ Cardinality(Held(att', SLOTS(att'[i].machine))) <= Capacity(SLOTS(att'[i].machine))
<1>1. parallel \in Nat /\ att \in [Ids -> Row]
  BY StoreAssumption DEF Inv, TypeOK
<1>2. /\ att'[i].machine # "hold" /\ att'[i].state \notin {"none", "queued", "ended", "refused"}
      /\ att'[i].machine = "step" => att'[i].state # "running"
  BY DEF STOPPABLE, FIRST
<1>3. CASE Wakes
  <2>1. PICK a \in [Ids -> Row], g \in BOOLEAN : Handled(a) /\ att' = Woken(a, g)
    BY <1>3 DEF Wakes
  <2>2. att'[i] # a[i]
    <3>1. SUFFICES ASSUME att'[i] = a[i] PROVE FALSE
      OBVIOUS
    <3> QED
      BY <1>2, <2>1, <3>1 DEF Handled, ENDS
  <2>3. att'[i].machine = a[i].machine
    BY <2>1, WokenEnds
  <2>4. /\ \A j \in Ids : j < i /\ a[j].state = "queued" /\ a[j].machine = a[i].machine
                            => att'[j].state # "queued"
        /\ Cardinality(Held(att', SLOTS(a[i].machine))) <= Capacity(SLOTS(a[i].machine))
    BY <1>1, <2>1, <2>2, WakeGives
  <2>5. ASSUME NEW j \in Ids, j < i, att[j].state = "queued", att[j].machine = att'[i].machine
        PROVE  att'[j].state # "queued"
    <3>1. a[j].state \in ENDS \/ (a[j].state = "queued" /\ a[j].machine = a[i].machine)
      BY <2>1, <2>3, <2>5 DEF Handled
    <3>2. a[j].state \in ENDS => att'[j] = a[j]
      BY <2>1, WokenEnds DEF ENDS
    <3> QED
      BY <2>4, <2>5, <3>1, <3>2 DEF ENDS
  <2> QED
    BY <2>3, <2>4, <2>5
<1>4. CASE EndsQueued
  <2>1. PICK a \in [Ids -> Row], w \in [Ids -> Row], k \in Ids :
           /\ \A j \in Ids : a[j].state = att[j].state /\ a[j].machine = att[j].machine
           /\ w = Woken(a, Admitting) /\ w[k].state = "queued"
           /\ att' = Woken(Moved(w, k, "ended", "stopped"), Admitting)
    BY <1>4 DEF EndsQueued
  <2> DEFINE v == Moved(w, k, "ended", "stopped")
  <2>2. Admitting \in BOOLEAN
    BY DEF Admitting
  <2>3. /\ v \in [Ids -> Row] /\ v[k].state = "ended" /\ \A j \in Ids \ {k} : v[j] = w[j]
        /\ \A slot \in Slots : Held(v, slot) = Held(w, slot)
        /\ att' = Woken(v, Admitting)
    BY <2>1, EndsQueuedRows
  <2> HIDE DEF v
  <2>4. att'[k] = v[k]
    BY <2>2, <2>3, WokenEnds
  <2>5. i # k
    BY <1>2, <2>3, <2>4
  <2>6. v[i] = w[i] /\ att'[i].machine = v[i].machine /\ w[i].machine = a[i].machine
    BY <2>1, <2>2, <2>3, <2>5, WokenEnds
  <2>7. \A j \in Ids : w[j].state # "queued" => att'[j].state # "queued"
    <3> TAKE j \in Ids
    <3>1. HAVE w[j].state # "queued"
    <3>2. j # k /\ v[j] = w[j]
      BY <2>1, <2>3, <3>1
    <3>3. att'[j] = v[j]
      BY <2>2, <2>3, <3>1, <3>2, WokenEnds
    <3> QED
      BY <3>1, <3>2, <3>3
  <2>8. CASE w[i] # a[i]
    <3>1. /\ SLOTS(a[i].machine) \in Slots
          /\ \A j \in Ids : j < i /\ a[j].state = "queued" /\ a[j].machine = a[i].machine
                              => w[j].state # "queued"
          /\ Cardinality(Held(w, SLOTS(a[i].machine))) <= Capacity(SLOTS(a[i].machine))
      BY <1>1, <2>1, <2>2, <2>8, WakeGives
    <3>2. Cardinality(Held(att', SLOTS(a[i].machine))) <= Capacity(SLOTS(a[i].machine))
      <4> DEFINE slot == SLOTS(a[i].machine)
      <4>1. CASE Admitting = FALSE \/ Given(v, slot) = {}
        <5>1. Held(att', slot) = Held(v, slot)
          <6>1. CASE Admitting = FALSE
            <7>1. \A j \in Ids : att'[j] = v[j]
              BY <2>2, <2>3, <6>1, WokenEnds
            <7> QED
              BY <7>1 DEF Held
          <6>2. CASE Admitting = TRUE /\ Given(v, slot) = {}
            <7>1. att' = Woken(v, TRUE) /\ slot \in Slots
              BY <2>3, <3>1, <6>2
            <7> HIDE DEF slot
            <7>2. Held(Woken(v, TRUE), slot) = Held(v, slot) \cup Given(v, slot)
              BY <2>3, <7>1, WakeMoves
            <7> QED
              BY <6>2, <7>1, <7>2
          <6> QED
            BY <2>2, <4>1, <6>1, <6>2
        <5> QED
          BY <2>3, <3>1, <5>1
      <4>2. CASE Admitting = TRUE /\ Given(v, slot) # {}
        BY <1>1, <2>3, <3>1, <4>2, WakeWithin
      <4> QED
        BY <2>2, <4>1, <4>2
    <3> QED
      BY <2>1, <2>6, <2>7, <3>1, <3>2
  <2>9. CASE w[i] = a[i]
    <3>1. v[i].state \in {"none", "queued"} /\ att'[i] # v[i]
      BY <1>2, <2>1, <2>6, <2>9
    <3>2. /\ \A j \in Ids : j < i /\ v[j].state = "queued" /\ v[j].machine = v[i].machine
                              => att'[j].state # "queued"
          /\ Cardinality(Held(att', SLOTS(v[i].machine))) <= Capacity(SLOTS(v[i].machine))
      BY <1>1, <2>2, <2>3, <3>1, WakeGives
    <3>3. ASSUME NEW j \in Ids, j < i, att[j].state = "queued", att[j].machine = att'[i].machine
          PROVE  att'[j].state # "queued"
      <4>1. w[j].machine = a[j].machine
        BY <2>1, <2>2, WokenEnds
      <4>2. CASE w[j].state # "queued"
        BY <2>7, <4>2
      <4>3. CASE j = k
        BY <2>3, <2>4, <4>3
      <4>4. CASE w[j].state = "queued" /\ j # k
        <5>1. v[j] = w[j] /\ v[j].machine = v[i].machine
          BY <2>1, <2>3, <2>6, <3>3, <4>1, <4>4
        <5> QED
          BY <3>2, <3>3, <4>4, <5>1
      <4> QED
        BY <4>2, <4>3, <4>4
    <3> QED
      BY <2>6, <3>2, <3>3
  <2> QED
    BY <2>8, <2>9
<1>5. CASE Rests
  BY <1>2, <1>5 DEF Rests
<1> QED
  BY <1>3, <1>4, <1>5, StepsWake

\* A slot goes to the oldest attempt that waits for its kind, and only a free one is given
\* (AdmissionInOrder), whichever handler's wake gives it.
THEOREM SlotsAreGivenInOrder == Spec => AdmissionInOrder
<1>1. Inv /\ [Next]_vars
        => [\A i \in Ids :
              /\ att[i].state \in {"none", "queued"} /\ att'[i].machine \in STOPPABLE
              /\ att'[i].state = FIRST(att'[i].machine)
              /\ task'[i] # "toDrive"
              => /\ \A j \in Ids : /\ j < i /\ att[j].state = "queued"
                                   /\ att[j].machine = att'[i].machine
                                   => att'[j].state # "queued"
                 /\ Cardinality(Held(att', SLOTS(att'[i].machine)))
                      <= Capacity(SLOTS(att'[i].machine))]_vars
  BY StepAdmits
<1> QED
  BY <1>1, Invariance, PTL DEF Spec, AdmissionInOrder
\* A wake gives no slot, or only free ones.
LEMMA WakeHolds ==
  ASSUME NEW a \in [Ids -> Row], NEW g \in BOOLEAN, NEW slot \in Slots, parallel \in Nat
  PROVE  \/ Held(Woken(a, g), slot) = Held(a, slot)
         \/ Cardinality(Held(Woken(a, g), slot)) <= Capacity(slot)
<1>1. CASE g = FALSE
  <2>1. \A j \in Ids : Woken(a, g)[j] = a[j]
    BY <1>1, WokenEnds
  <2> QED
    BY <2>1 DEF Held
<1>2. CASE g = TRUE /\ Given(a, slot) = {}
  <2>1. Held(Woken(a, TRUE), slot) = Held(a, slot) \cup Given(a, slot)
    BY WakeMoves
  <2> QED
    BY <1>2, <2>1
<1>3. CASE g = TRUE /\ Given(a, slot) # {}
  BY <1>3, WakeWithin
<1> QED
  BY <1>1, <1>2, <1>3

\* What holds a slot once a handler is through held it before, unless it was opened `running`.
LEMMA HandledHolds ==
  ASSUME NEW a \in [Ids -> Row], Handled(a), NEW slot \in Slots, att \in [Ids -> Row],
         \A i \in Ids : att[i].state = "none" => ~(a[i].machine = "step" /\ a[i].state = "running")
  PROVE  Held(a, slot) \subseteq Held(att, slot)
<1> SUFFICES ASSUME NEW j \in Ids, a[j].state \in HOLDING, SLOTS(a[j].machine) = slot
             PROVE  att[j].state \in HOLDING /\ SLOTS(att[j].machine) = slot
  BY DEF Held
<1>1. a[j].state \notin {"none", "queued", "ended", "refused"} /\ a[j].machine # "hold"
  BY DEF HOLDING, Slots, SLOTS
<1>2. att[j].state \notin {"none", "queued"}
  BY <1>1 DEF Handled, ENDS
<1>3. CASE OpensNone(a)
  BY <1>2, <1>3 DEF OpensNone, Unfinished
<1>4. CASE \E i \in Ids : Opens(a, i)
  BY <1>2, <1>4 DEF Opens, IsNextId
<1> QED
  BY <1>3, <1>4 DEF Handled

\* A step that opens nothing `running` gives only free slots.
LEMMA StepWithin ==
  ASSUME Inv, Next, NEW slot \in Slots,
         \A i \in Ids : att[i].state = "none" => ~(att'[i].machine = "step" /\ att'[i].state = "running")
  PROVE  \/ Cardinality(Held(att', slot)) <= Cardinality(Held(att, slot))
         \/ Cardinality(Held(att', slot)) <= Capacity(slot)
<1>1. parallel \in Nat /\ att \in [Ids -> Row]
  BY StoreAssumption DEF Inv, TypeOK
<1>2. Held(att, slot) \subseteq Ids
  BY DEF Held
<1>3. CASE Wakes
  <2>1. PICK a \in [Ids -> Row], g \in BOOLEAN : Handled(a) /\ att' = Woken(a, g)
    BY <1>3 DEF Wakes
  <2>2. \A i \in Ids : a[i].state = "running" => att'[i] = a[i]
    BY <2>1, WokenEnds
  <2>3. Held(a, slot) \subseteq Held(att, slot)
    BY <1>1, <2>1, <2>2, HandledHolds
  <2>4. Cardinality(Held(a, slot)) <= Cardinality(Held(att, slot))
    BY <1>2, <2>3, FiniteIds, FS_Subset
  <2> QED
    BY <1>1, <2>1, <2>4, WakeHolds
<1>4. CASE EndsQueued
  <2>1. PICK a \in [Ids -> Row], w \in [Ids -> Row], k \in Ids :
           /\ \A j \in Ids : a[j].state = att[j].state /\ a[j].machine = att[j].machine
           /\ w = Woken(a, Admitting) /\ w[k].state = "queued"
           /\ att' = Woken(Moved(w, k, "ended", "stopped"), Admitting)
    BY <1>4 DEF EndsQueued
  <2> DEFINE v == Moved(w, k, "ended", "stopped")
  <2>2. Admitting \in BOOLEAN
    BY DEF Admitting
  <2>3. v \in [Ids -> Row] /\ Held(v, slot) = Held(w, slot) /\ att' = Woken(v, Admitting)
    BY <2>1, EndsQueuedRows
  <2> HIDE DEF v
  <2>4. Held(a, slot) = Held(att, slot)
    BY <2>1 DEF Held
  <2>5. \/ Held(w, slot) = Held(a, slot)
        \/ Cardinality(Held(w, slot)) <= Capacity(slot)
    BY <1>1, <2>1, <2>2, WakeHolds
  <2>6. \/ Held(att', slot) = Held(v, slot)
        \/ Cardinality(Held(att', slot)) <= Capacity(slot)
    BY <1>1, <2>2, <2>3, WakeHolds
  <2>7. Cardinality(Held(att, slot)) \in Nat
    BY <1>2, FiniteIds
  <2> QED
    BY <2>3, <2>4, <2>5, <2>6, <2>7
<1>5. CASE Rests
  <2>1. Held(att', slot) = Held(att, slot) /\ Cardinality(Held(att, slot)) \in Nat
    BY <1>2, <1>5, FiniteIds DEF Rests
  <2> QED
    BY <2>1
<1> QED
  BY <1>3, <1>4, <1>5, StepsWake

\* The attempts that hold a kind of slot do not become more than its capacity (SlotsWithinCapacity):
\* whatever wakes the queue, twice in one handler too, only a raise goes over it.
THEOREM OnlyRaisesGoOverCapacity == Spec => SlotsWithinCapacity
<1>1. ASSUME Inv, [Next]_vars, NEW slot \in Slots,
             \A i \in Ids : att[i].state = "none" => ~(att'[i].machine = "step" /\ att'[i].state = "running"),
             Cardinality(Held(att', slot)) > Cardinality(Held(att, slot))
      PROVE  Cardinality(Held(att', slot)) <= Capacity(slot)
  <2>1. /\ Held(att, slot) \subseteq Ids /\ Held(att', slot) \subseteq Ids
    BY DEF Held
  <2>2. Cardinality(Held(att, slot)) \in Nat /\ Cardinality(Held(att', slot)) \in Nat
    BY <2>1, FiniteIds
  <2>3. CASE Next
    BY <1>1, <2>2, <2>3, StepWithin
  <2>4. CASE UNCHANGED vars
    <3>1. Held(att', slot) = Held(att, slot)
      BY <2>4 DEF vars, rows
    <3> QED
      BY <1>1, <2>2, <3>1
  <2> QED
    BY <1>1, <2>3, <2>4
<1>2. Inv /\ [Next]_vars
        => [(\A i \in Ids : att[i].state = "none" => ~(att'[i].machine = "step" /\ att'[i].state = "running"))
             => \A slot \in Slots : Cardinality(Held(att', slot)) > Cardinality(Held(att, slot))
                                      => Cardinality(Held(att', slot)) <= Capacity(slot)]_vars
  BY <1>1
<1> QED
  BY <1>2, Invariance, PTL DEF Spec, SlotsWithinCapacity

-----------------------------------------------------------------------------
(* The lock the rows are: Attempts implements UnitLock.                     *)

\* Ids are given in order: no id is skipped.
IdsInOrder == \A i, j \in Ids : j < i /\ att[i].state # "none" => att[j].state # "none"

\* Which rows there are, of which units, and which are not over: what the lock sees of the rows `a`
\* and `b` is the same.
SameLock(a, b) ==
  \A j \in Ids : /\ b[j].unit = a[j].unit /\ b[j].machine = a[j].machine
                 /\ b[j].state = "none" <=> a[j].state = "none"
                 /\ b[j].state \in Unfinished <=> a[j].state \in Unfinished

\* A wake gives up no lock and takes none.
LEMMA WakeSameLock ==
  ASSUME NEW a \in [Ids -> Row], NEW g \in BOOLEAN
  PROVE  SameLock(a, Woken(a, g))
<1> SUFFICES ASSUME NEW j \in Ids
             PROVE  /\ Woken(a, g)[j].unit = a[j].unit /\ Woken(a, g)[j].machine = a[j].machine
                    /\ Woken(a, g)[j].state = "none" <=> a[j].state = "none"
                    /\ Woken(a, g)[j].state \in Unfinished <=> a[j].state \in Unfinished
  BY DEF SameLock
<1>1. a[j] \in Row
  OBVIOUS
<1>2. \/ Woken(a, g)[j] = a[j]
      \/ /\ a[j].state = "queued"
         /\ \/ Woken(a, g)[j] = [a[j] EXCEPT !.state = "preparing"]
            \/ Woken(a, g)[j] = [a[j] EXCEPT !.state = "running"]
  BY WokenRows
<1> QED
  BY <1>1, <1>2 DEF Row, Unfinished, HOLDING

\* Every step opens no attempt, or opens one for a unit that has none that is not over.
LEMMA StepOpensOne ==
  ASSUME Inv, Next
  PROVE  OpensNone(att') \/ \E i \in Ids, a \in [Ids -> Row] : Opens(a, i) /\ SameLock(a, att')
<1>1. CASE Wakes
  <2>1. PICK a \in [Ids -> Row], g \in BOOLEAN : Handled(a) /\ att' = Woken(a, g)
    BY <1>1 DEF Wakes
  <2>2. SameLock(a, att')
    BY <2>1, WakeSameLock
  <2>3. CASE OpensNone(a)
    BY <2>2, <2>3 DEF OpensNone, SameLock
  <2>4. CASE \E i \in Ids : Opens(a, i)
    BY <2>2, <2>4
  <2> QED
    BY <2>1, <2>3, <2>4 DEF Handled
<1>2. CASE EndsQueued
  <2>1. PICK a \in [Ids -> Row], w \in [Ids -> Row], k \in Ids :
           /\ \A j \in Ids : a[j].state = att[j].state /\ a[j].unit = att[j].unit /\ a[j].machine = att[j].machine
           /\ w = Woken(a, Admitting) /\ w[k].state = "queued"
           /\ att' = Woken(Moved(w, k, "ended", "stopped"), Admitting)
    BY <1>2 DEF EndsQueued
  <2> DEFINE v == Moved(w, k, "ended", "stopped")
  <2>2. Admitting \in BOOLEAN
    BY DEF Admitting
  <2>3. SameLock(a, w)
    BY <2>1, <2>2, WakeSameLock
  <2>4. /\ v \in [Ids -> Row] /\ v[k].state = "ended" /\ v[k].unit = w[k].unit /\ v[k].machine = w[k].machine
        /\ \A j \in Ids \ {k} : v[j] = w[j]
    <3>1. "ended" \in HOLDING \cup ENDS /\ "stopped" \in Outcomes
      BY DEF ENDS, Outcomes
    <3>2. v[k].unit = w[k].unit /\ v[k].machine = w[k].machine
      BY <3>1, MovedRow
    <3> QED
      BY <2>1, <3>2, EndsQueuedRows
  <2>5. att' = Woken(v, Admitting)
    BY <2>1
  <2> HIDE DEF v
  <2>6. SameLock(v, att')
    BY <2>2, <2>4, <2>5, WakeSameLock
  <2> QED
    BY <2>1, <2>3, <2>4, <2>6 DEF SameLock, OpensNone, Unfinished, HOLDING
<1>3. CASE Rests
  BY <1>3 DEF Rests, OpensNone
<1> QED
  BY <1>1, <1>2, <1>3, StepsWake

\* No step skips an id.
LEMMA IdsStayInOrder ==
  ASSUME Inv, IdsInOrder, Next
  PROVE  IdsInOrder'
<1>1. CASE OpensNone(att')
  BY <1>1 DEF OpensNone, IdsInOrder
<1>2. CASE \E i \in Ids, a \in [Ids -> Row] : Opens(a, i) /\ SameLock(a, att')
  <2>1. PICK i \in Ids, a \in [Ids -> Row] : Opens(a, i) /\ SameLock(a, att')
    BY <1>2
  <2>2. /\ \A j \in Ids \ {i} : att'[j].state = "none" <=> att[j].state = "none"
        /\ \A j \in Ids : j < i => att[j].state # "none"
        /\ att[i].state = "none" /\ att'[i].state # "none"
    BY <2>1 DEF Opens, SameLock, IsNextId, Unfinished, HOLDING
  <2>3. \A j \in Ids : j < i => att'[j].state # "none"
    BY <2>2
  <2> QED
    BY <2>2, <2>3 DEF IdsInOrder
<1> QED
  BY <1>1, <1>2, StepOpensOne

\* A step that opens none gives up the locks of the units whose attempt it ends.
LEMMA OpensNoneGivesUp ==
  ASSUME Inv, OpensNone(att')
  PROVE  [Lock!Next]_Lock!vars
<1> DEFINE ended == {u \in Units : Live(att', u) # Live(att, u)}
<1>1. \A u \in Units : Live(att', u) \subseteq Live(att, u)
  BY DEF OpensNone, Live
<1>2. \A u \in Units : \A i, j \in Live(att, u) : i = j
  BY DEF Inv, OneUnfinishedPerUnit, Live
<1>3. \A u \in ended : Live(att', u) = {}
  BY <1>1, <1>2
<1>4. {i \in Ids : att'[i].state # "none"} = {i \in Ids : att[i].state # "none"}
  BY DEF OpensNone
<1>5. [u \in Units |-> Live(att', u)]
        = [u \in Units |-> IF u \in ended THEN {} ELSE [v \in Units |-> Live(att, v)][u]]
  BY <1>3
<1>6. ended \in SUBSET Units
  OBVIOUS
<1> HIDE DEF ended
<1>7. Lock!GiveUp(ended)
  BY <1>4, <1>5 DEF Lock!GiveUp
<1> QED
  BY <1>6, <1>7 DEF Lock!Next

\* A step that opens one takes the lock of its unit, with an id newer than all before.
LEMMA OpensTakes ==
  ASSUME Inv, IdsInOrder, NEW i \in Ids, NEW a \in [Ids -> Row], Opens(a, i), SameLock(a, att')
  PROVE  [Lock!Next]_Lock!vars
<1> DEFINE u == a[i].unit
           holds == [v \in Units |-> Live(att, v)]
           given == {j \in Ids : att[j].state # "none"}
<1>1. u \in Units /\ Live(att, u) = {}
  BY DEF Opens, MayOpen
<1>2. /\ \A j \in Ids \ {i} : /\ att'[j].unit = att[j].unit
                              /\ att'[j].state \in Unfinished <=> att[j].state \in Unfinished
                              /\ att'[j].state = "none" <=> att[j].state = "none"
      /\ att[i].state = "none" /\ att'[i].state \in Unfinished /\ att'[i].unit = u
  BY DEF Opens, SameLock, IsNextId
<1>3. "none" \notin Unfinished
  BY DEF Unfinished, HOLDING
<1> HIDE DEF u
<1>4. \A v \in Units \ {u} : Live(att', v) = Live(att, v)
  BY <1>2, <1>3 DEF Live
<1>5. Live(att', u) = {i}
  <2>1. \A j \in Ids : j \in Live(att', u) <=> j = i
    BY <1>1, <1>2 DEF Live
  <2>2. Live(att', u) \subseteq Ids
    BY DEF Live
  <2> QED
    BY <2>1, <2>2
<1>6. [v \in Units |-> Live(att', v)] = [holds EXCEPT ![u] = {i}]
  BY <1>1, <1>4, <1>5
<1>7. {j \in Ids : att'[j].state # "none"} = given \cup {i}
  BY <1>2, <1>3
<1>8. \A s \in given : s < i
  BY <1>2 DEF IdsInOrder, Ids
<1>9. Lock!Take(u, i)
  BY <1>1, <1>6, <1>7, <1>8 DEF Lock!Take
<1> QED
  BY <1>1, <1>9 DEF Lock!Next

\* Every behaviour of the attempts is one of the lock: whoever opens an attempt takes its unit while
\* nobody has it, with an id newer than all before; nothing else takes one; and an attempt that is
\* over, by whatever ended it, gives its unit up for good.
THEOREM AttemptsKeepTheLock == Spec => KeepsUnitLock
<1>1. ASSUME Init PROVE IdsInOrder /\ Lock!Init
  <2>1. \A i \in Ids : att[i].state = "none" /\ att[i].state \notin Unfinished
    BY <1>1 DEF Init, NoRow, Unfinished, HOLDING
  <2>2. \A u \in Units : Live(att, u) = {}
    BY <2>1 DEF Live
  <2>3. {i \in Ids : att[i].state # "none"} = {}
    BY <2>1
  <2> QED
    BY <2>1, <2>2, <2>3 DEF IdsInOrder, Lock!Init
<1>2. Inv /\ IdsInOrder /\ [Next]_vars => IdsInOrder' /\ [Lock!Next]_Lock!vars
  <2> SUFFICES ASSUME Inv, IdsInOrder, [Next]_vars PROVE IdsInOrder' /\ [Lock!Next]_Lock!vars
    OBVIOUS
  <2>1. CASE Next
    BY <2>1, StepOpensOne, IdsStayInOrder, OpensNoneGivesUp, OpensTakes
  <2>2. CASE UNCHANGED vars
    BY <2>2 DEF vars, rows, Lock!vars, IdsInOrder
  <2> QED
    BY <2>1, <2>2
<1> QED
  BY <1>1, <1>2, Invariance, PTL DEF Spec, KeepsUnitLock, Lock!Spec
=============================================================================
