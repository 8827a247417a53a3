------------------------------ MODULE Attempts ------------------------------
(***************************************************************************)
(* The life of an attempt: the rows of AttemptStore together with what one *)
(* process keeps of them in memory -- the coroutine that works on each     *)
(* attempt and the Stop it was told of -- as coscc/runner/steps.py,        *)
(* coscc/agent/steps.py, coscc/github/integration.py and the recovery half *)
(* of coscc/runner/resume.py change them.                                  *)
(*                                                                         *)
(* An action is what runs between two awaits: asyncio runs one coroutine   *)
(* at a time, and a move's event, the wake of the scheduler and the making *)
(* of the launched task all happen before the handler's next await.        *)
(*                                                                         *)
(* The updater appears only through `updating`: what the queue and the     *)
(* refusals ask of it.  A unit here has one stage that may be paused at a  *)
(* ceiling.                                                                *)
(***************************************************************************)
EXTENDS AttemptStore

CONSTANT MaxCrashes   \* bound: how often the process goes down

ASSUME AttemptsAssumption == MaxCrashes \in Nat

VARIABLES task,       \* the coroutine of this process that works on each attempt
          stopReq,    \* attempts whose `Running.stop_requested` is set
          cancelled,  \* attempts whose task was cancelled and has not run since
          illegal,    \* attempts a handler was told `Illegal` for
          boot,       \* "down", "recovering" until Resume is through, then "up"
          left,       \* rows `_recover` read and has not come to
          leftStop,   \* those of `left` whose Stop was recorded when it read them
          updating,   \* "no", "pressed" (pending or applying) or "window"
          closed,     \* `Attempts.closed`: the process is going down
          paused,     \* units whose stage's last run-log row is an end paused at a ceiling
          raising,    \* units a raise was read for, whose session is not taken up yet
          crashes

rows == <<att, parallel>>
memory == <<task, stopReq, cancelled>>
recovery == <<boot, left, leftStop, crashes>>
gates == <<updating, closed>>
ceilings == <<paused, raising>>
vars == <<rows, memory, illegal, recovery, gates, ceilings>>

\* "toPrepare" and "toDrive" are tasks made but not begun; "stuck" is an entry of `Steps.tasks`
\* whose task was cancelled before its first turn; "afterEnd" runs after the attempt ended.
Tasks == {"none", "toPrepare", "preparing", "acting", "toDrive", "driving", "integrating",
          "holding", "afterEnd", "stuck"}

\* The tasks a `shutdown` cancels: those of the steps, and an `after_end`.
StepTasks == {"toPrepare", "preparing", "acting", "toDrive", "driving", "afterEnd"}

\* The entries of `Steps.tasks`.
InTasks == (StepTasks \ {"afterEnd"}) \cup {"integrating", "stuck"}

Alive == boot # "down"

Admitting == ~closed /\ updating = "no"

With(i, t) == [task EXCEPT ![i] = t]

\* The task `launch` makes for an attempt the scheduler moved on.
LaunchedTask(m) == IF m = "step" THEN "toPrepare" ELSE "integrating"

\* The tasks `t` and those a wake of the rows `a` launches.
Launched(a, t, admitting) ==
  [i \in Ids |-> IF admitting /\ i \in Admitted(a) THEN LaunchedTask(a[i].machine) ELSE t[i]]

\* A handler leaves the rows `a` and the tasks `t`, woken.
Commit(a, t) == att' = Woken(a, Admitting) /\ task' = Launched(a, t, Admitting)

\* A handler that asks for one move: told `Illegal` when the table does not have it.
CommitMove(i, to, outcome, t) ==
  /\ Commit(Moved(att, i, to, outcome), t)
  /\ illegal' = IF MayMove(att, i, to) THEN illegal ELSE illegal \cup {i}

-----------------------------------------------------------------------------
(* A click and its preparation.                                            *)

\* `run_step`, `enqueue_step` or `integrate`: a queued attempt, unless the unit has one.
Click(u, m) ==
  /\ Alive /\ updating # "window" /\ MayOpen(att, u)
  /\ \E i \in Ids : IsNextId(att, i) /\ Commit(Opened(att, i, m, u, "queued"), task)
  /\ UNCHANGED <<parallel, stopReq, cancelled, illegal, recovery, gates, ceilings>>

\* The task `launch` made takes its first turn.  One cancelled before it never enters `_prepare`,
\* so nothing there ends the attempt or forgets the task.
PrepareBegins(i) ==
  /\ task[i] = "toPrepare"
  /\ task' = With(i, IF i \in cancelled THEN "stuck" ELSE "preparing")
  /\ cancelled' = cancelled \ {i}
  /\ UNCHANGED <<rows, stopReq, illegal, recovery, gates, ceilings>>

\* How `close` ends an attempt that was not handed to `drive`; `refused` for a refusal's code.
Close(i, refused, outcome) ==
  IF refused /\ outcome # "stopped" /\ MayMove(att, i, "refused")
  THEN CommitMove(i, "refused", "code", With(i, "none"))
  ELSE CommitMove(i, "ended",
                  IF att[i].stop /\ outcome # "stopped" THEN "stop_late" ELSE outcome,
                  With(i, "none"))

\* The gate, a hold, an input missing or a ceiling refuses, or something raised.
PrepareRaises(i, refused) ==
  /\ task[i] = "preparing" /\ i \notin cancelled
  /\ Close(i, refused, "failed")
  /\ UNCHANGED <<parallel, stopReq, cancelled, recovery, gates, ceilings>>

\* A `pr` or `ship`: `running` and `ending` at once, then the PR machine's push or merge.
PrepareActs(i) ==
  /\ task[i] = "preparing" /\ i \notin cancelled
  /\ LET a == Moved(att, i, "running", "")
     IN /\ Commit(Moved(a, i, "ending", ""), With(i, "acting"))
        /\ illegal' = IF MayMove(att, i, "running") /\ MayMove(a, i, "ending")
                      THEN illegal ELSE illegal \cup {i}
  /\ UNCHANGED <<parallel, stopReq, cancelled, recovery, gates, ceilings>>

\* `_start`: the attempt runs and `drive` is its task.  The `start` row the run writes is newer
\* than the end a paused stage left.
PrepareStarts(i) ==
  /\ task[i] = "preparing" /\ i \notin cancelled
  /\ CommitMove(i, "running", "", With(i, "toDrive"))
  /\ paused' = paused \ {att[i].unit}
  /\ UNCHANGED <<parallel, stopReq, cancelled, recovery, gates, raising>>

\* A cancel reaches `_prepare`: a Stop's ends the attempt, the app going down leaves it.
PrepareCancelled(i) ==
  /\ task[i] \in {"preparing", "acting"} /\ i \in cancelled
  /\ IF i \in stopReq
     THEN Close(i, TRUE, "stopped")
     ELSE task' = With(i, "none") /\ UNCHANGED <<att, illegal>>
  /\ cancelled' = cancelled \ {i}
  /\ UNCHANGED <<parallel, stopReq, recovery, gates, ceilings>>

\* The push or merge is over, or it raised: `ending` has no way to `refused`.
ActEnds(i, outcome) ==
  /\ task[i] = "acting" /\ i \notin cancelled
  /\ Close(i, outcome = "failed", outcome)
  /\ UNCHANGED <<parallel, stopReq, cancelled, recovery, gates, ceilings>>

-----------------------------------------------------------------------------
(* The session of a step.                                                  *)

\* Mutant of DriveBegins: no done-callback, so a Stop before the first turn only forgets the task.
DriveBeginsUnwatched(i) ==
  /\ task[i] = "toDrive"
  /\ task' = With(i, IF i \in cancelled THEN "none" ELSE "driving")
  /\ cancelled' = cancelled \ {i}
  /\ UNCHANGED <<rows, stopReq, illegal, recovery, gates, ceilings>>

\* The first turn of `drive`, or `never_driven` when it was cancelled before it.
DriveBegins(i) ==
  /\ task[i] = "toDrive"
  /\ IF i \in cancelled /\ i \in stopReq
     THEN CommitMove(i, "ended", "stopped", With(i, "none"))
     ELSE /\ task' = With(i, IF i \in cancelled THEN "none" ELSE "driving")
          /\ UNCHANGED <<att, illegal>>
  /\ cancelled' = cancelled \ {i}
  /\ UNCHANGED <<parallel, stopReq, recovery, gates, ceilings>>

\* Mutant of Seal: `sealed` is not read, so a second seal moves the attempt again.
SealTwice(i) ==
  /\ task[i] = "driving" /\ i \notin cancelled
  /\ i \notin stopReq
  /\ CommitMove(i, "ending", "", task)
  /\ UNCHANGED <<parallel, stopReq, cancelled, recovery, gates, ceilings>>

\* `seal`: the door closes on a Stop unless one came through it; the attempt is `ending`.
Seal(i) ==
  /\ task[i] = "driving" /\ i \notin cancelled
  /\ i \notin stopReq
  /\ att[i].state = "running"
  /\ CommitMove(i, "ending", "", task)
  /\ UNCHANGED <<parallel, stopReq, cancelled, recovery, gates, ceilings>>

\* Mutant of EndedWith: what a Stop reached ends as it came out.
EndedWithoutStop(i, outcome) == outcome

\* Mutant of EndedWith: what a Stop reached ends `stopped`, finished or not.
EndedAsStopped(i, outcome) == IF att[i].stop THEN "stopped" ELSE outcome

\* What `end_attempt` writes for a run that came to `outcome`.
EndedWith(i, outcome) ==
  IF att[i].stop /\ att[i].state = "ending" /\ outcome # "stopped" THEN "stop_late" ELSE outcome

\* What a run comes to: an outcome decided past the seal, `stopped` for one a Stop came to before
\* it, `failed` for one that raised before its session.
RunOutcome(i, outcome) ==
  \/ outcome \in {"done", "failed", "paused-budget"} /\ att[i].state = "ending"
  \/ outcome = "failed" /\ att[i].state = "running"
  \/ outcome = "stopped" /\ i \in stopReq

\* `drive` ends: the task is forgotten, the attempt ended; `after_end` follows a `done`.
DriveEnds(i, outcome) ==
  /\ task[i] = "driving" /\ (i \in cancelled => i \in stopReq)
  /\ RunOutcome(i, outcome)
  /\ CommitMove(i, "ended", EndedWith(i, outcome),
                With(i, IF outcome = "done" THEN "afterEnd" ELSE "none"))
  /\ cancelled' = cancelled \ {i}
  /\ paused' = IF outcome = "paused-budget" THEN paused \cup {att[i].unit} ELSE paused
  /\ UNCHANGED <<parallel, stopReq, recovery, gates, raising>>

\* Cancelled with no Stop behind it.  `drive` ends nothing; but a run that was in its session
\* passes `_conclude`, whose seal moves a `running` attempt to `ending`.
DriveGoesDown(i, inSession) ==
  /\ task[i] = "driving" /\ i \in cancelled \ stopReq
  /\ IF inSession /\ att[i].state = "running"
     THEN CommitMove(i, "ending", "", With(i, "none"))
     ELSE task' = With(i, "none") /\ UNCHANGED <<att, illegal>>
  /\ cancelled' = cancelled \ {i}
  /\ UNCHANGED <<parallel, stopReq, recovery, gates, ceilings>>

AfterEnd(i) ==
  /\ task[i] = "afterEnd"
  /\ task' = With(i, "none")
  /\ cancelled' = cancelled \ {i}
  /\ UNCHANGED <<rows, stopReq, illegal, recovery, gates, ceilings>>

\* `raise_step` reads that the unit's stage is paused; the reads it awaits come before the rest.
RaiseReads(u) ==
  /\ Alive /\ updating # "window" /\ u \in paused \ raising
  /\ raising' = raising \cup {u}
  /\ UNCHANGED <<rows, memory, illegal, recovery, gates, paused>>

\* ... then `resume_step` -> `adopt`: refused while the unit has an attempt, else the session goes
\* on in a new one, `running` from its first row.  That `adopt` also goes on in a `running` attempt that
\* has no task is left out: outside a start, where Update has it, there is one only while the app goes
\* down, and the process ends before that run does anything.
RaiseActs(u) ==
  /\ u \in raising
  /\ raising' = raising \ {u}
  /\ IF MayOpen(att, u)
     THEN /\ \E i \in Ids : /\ IsNextId(att, i)
                            /\ Commit(Opened(att, i, "step", u, "running"), With(i, "toDrive"))
          /\ paused' = paused \ {u}
     ELSE UNCHANGED <<att, task, paused>>
  /\ UNCHANGED <<parallel, stopReq, cancelled, illegal, recovery, gates>>

-----------------------------------------------------------------------------
(* An integration, a short hold and a Stop.                                *)

\* A stop point before the last: a Stop recorded on the attempt ends it here.
StopPoint(i) ==
  /\ task[i] = "integrating" /\ att[i].state = "running" /\ att[i].stop
  /\ CommitMove(i, "ended", "stopped", With(i, "none"))
  /\ UNCHANGED <<parallel, stopReq, cancelled, recovery, gates, ceilings>>

\* The last one, before the push or Gebo: a Stop after it is late.
LastStopPoint(i) ==
  /\ task[i] = "integrating" /\ att[i].state = "running" /\ ~att[i].stop
  /\ CommitMove(i, "ending", "", task)
  /\ UNCHANGED <<parallel, stopReq, cancelled, recovery, gates, ceilings>>

\* A refusal or a failure on the way, at any point: `close` ends the attempt.
IntegrationRaises(i, refused) ==
  /\ task[i] = "integrating"
  /\ Close(i, refused, "failed")
  /\ UNCHANGED <<parallel, stopReq, cancelled, recovery, gates, ceilings>>

IntegrationEnds(i) ==
  /\ task[i] = "integrating" /\ att[i].state = "ending"
  /\ CommitMove(i, "ended", EndedWith(i, "done"), With(i, "none"))
  /\ UNCHANGED <<parallel, stopReq, cancelled, recovery, gates, ceilings>>

\* A hold or a review round: its attempt queued and moved on at once, with no await between.
HoldBegins(u) ==
  /\ Alive /\ MayOpen(att, u)
  /\ \E i \in Ids : /\ IsNextId(att, i)
                    /\ Commit(Moved(Opened(att, i, "hold", u, "queued"), i, "running", ""),
                              With(i, "holding"))
  /\ UNCHANGED <<parallel, stopReq, cancelled, illegal, recovery, gates, ceilings>>

HoldEnds(i, outcome) ==
  /\ task[i] = "holding"
  /\ CommitMove(i, "ended", outcome, With(i, "none"))
  /\ UNCHANGED <<parallel, stopReq, cancelled, recovery, gates, ceilings>>

\* `stop_running`: the flag, whose event wakes the queue, then what the state it reads back calls
\* for.  A cancelled task is told at its next turn; a driven one is cancelled once its session is
\* closed and reads stopReq until then.  A second press changes nothing.
Stop(i) ==
  /\ Alive /\ att[i].state \in Unfinished /\ att[i].machine \in STOPPABLE /\ ~att[i].stop
  /\ LET asked == StopAsked(att, i)
         a == Woken(asked, Admitting)
         t == Launched(asked, task, Admitting)
     IN IF a[i].state = "queued"
        THEN Commit(Moved(a, i, "ended", "stopped"), t) /\ UNCHANGED <<stopReq, cancelled>>
        ELSE /\ att' = a /\ task' = t
             /\ IF t[i] \in {"toPrepare", "preparing", "toDrive", "driving"}
                     /\ a[i].state # "ending"
                THEN stopReq' = stopReq \cup {i} /\ cancelled' = cancelled \cup {i}
                ELSE UNCHANGED <<stopReq, cancelled>>
  /\ UNCHANGED <<parallel, illegal, recovery, gates, ceilings>>

-----------------------------------------------------------------------------
(* What the settings and the updater say to the queue.                     *)

\* `set_setting` writes the new number and wakes nothing.
SetMaxParallel(n) ==
  /\ Alive /\ n # parallel
  /\ parallel' = n
  /\ UNCHANGED <<att, memory, illegal, recovery, gates, ceilings>>

ApplyPressed ==
  /\ Alive /\ updating = "no"
  /\ updating' = "pressed"
  /\ UNCHANGED <<rows, memory, illegal, recovery, closed, ceilings>>

\* The trial begins, or it is over and an integration began meanwhile.
WindowMoves ==
  /\ Alive /\ updating # "no"
  /\ updating' = IF updating = "pressed" THEN "window" ELSE "pressed"
  /\ UNCHANGED <<rows, memory, illegal, recovery, closed, ceilings>>

\* Mutant of UpdateOver: nobody tells the queue.
UpdateOverUntold ==
  /\ Alive /\ updating # "no"
  /\ updating' = "no"
  /\ UNCHANGED <<rows, memory, illegal, recovery, closed, ceilings>>

\* A cancel or a failure leaves the updater idle: `update_over` wakes the queue.
UpdateOver ==
  /\ Alive /\ updating # "no"
  /\ updating' = "no"
  /\ att' = Woken(att, ~closed) /\ task' = Launched(att, task, ~closed)
  /\ UNCHANGED <<parallel, stopReq, cancelled, illegal, recovery, closed, ceilings>>

-----------------------------------------------------------------------------
(* Going down and coming back.                                             *)

\* `shutdown` closes the queue and cancels the steps; an integration is waited for.
Shutdown ==
  /\ Alive /\ ~closed /\ crashes < MaxCrashes
  /\ closed' = TRUE
  /\ cancelled' = cancelled \cup {i \in Ids : task[i] \in StepTasks}
  /\ UNCHANGED <<rows, task, stopReq, illegal, recovery, updating, ceilings>>

\* The process is gone, killed or at the end of its shutdown: the database is what is left.
Forgotten ==
  /\ boot' = "down" /\ left' = {} /\ leftStop' = {}
  /\ task' = [i \in Ids |-> "none"] /\ stopReq' = {} /\ cancelled' = {} /\ raising' = {}
  /\ updating' = "no" /\ closed' = FALSE
  /\ crashes' = crashes + 1

Crash ==
  /\ Alive /\ crashes < MaxCrashes
  /\ Forgotten
  /\ UNCHANGED <<rows, illegal, paused>>

\* Killed between the two transactions of a hold, its open and its move to `running`.
CrashInHold(u) ==
  /\ Alive /\ crashes < MaxCrashes /\ MayOpen(att, u)
  /\ \E i \in Ids : IsNextId(att, i) /\ att' = Woken(Opened(att, i, "hold", u, "queued"), Admitting)
  /\ Forgotten
  /\ UNCHANGED <<parallel, illegal, paused>>

\* The rows `_recover` comes to without waiting: those before the next `preparing` one, whose
\* half-made tree is removed first.  `removed` are the rows whose tree is.
Segment(from, removed) ==
  {i \in from : \A p \in from \ removed : att[p].state = "preparing" => i < p}

\* What `_recover` ends row i with: nothing for a running step or integration, left to Resume.
RecoveredTo(i, stops) ==
  CASE i \in stops -> "stopped"
    [] i \notin stops /\ att[i].state = "running" /\ att[i].machine \in STOPPABLE -> ""
    [] OTHER -> "interrupted"

Recovered(seg, stops) ==
  [i \in Ids |-> IF i \in seg /\ RecoveredTo(i, stops) # ""
                 THEN Moved(att, i, "ended", RecoveredTo(i, stops))[i]
                 ELSE att[i]]

\* Mutant of EndUnclaimed: nothing asks whether a task of this process holds the row.
EndUnclaimedLive(a) ==
  [i \in Ids |-> IF a[i].state \in HOLDING THEN Moved(a, i, "ended", "interrupted")[i] ELSE a[i]]

\* Mutant of EndUnclaimed: it is not called.
EndUnclaimedNever(a) == a

\* `_end_unclaimed`: what is past `queued` and no task of `Steps.tasks` holds ends `interrupted`.
EndUnclaimed(a) ==
  [i \in Ids |-> IF a[i].state \in HOLDING /\ task[i] \notin InTasks
                 THEN Moved(a, i, "ended", "interrupted")[i]
                 ELSE a[i]]

\* Mutant of RecoverOn: a Stop read at the start is kept after its row is done with.
RecoverOnKeepsStops(from, stops, removed) ==
  LET seg == Segment(from, removed)
      a == Recovered(seg, stops)
  IN /\ left' = from \ seg
     /\ leftStop' = stops
     /\ boot' = IF seg = from THEN "up" ELSE "recovering"
     /\ Commit(IF seg = from THEN EndUnclaimed(a) ELSE a, task)
     /\ UNCHANGED illegal

\* From the rows still to come to, to the next await; with none left, Resume ends what nobody
\* claimed and wakes the queue.  A row that moved since it was read is told `Illegal`.
RecoverOn(from, stops, removed) ==
  LET seg == Segment(from, removed)
      a == Recovered(seg, stops)
  IN /\ left' = from \ seg
     /\ leftStop' = stops \ seg
     /\ boot' = IF seg = from THEN "up" ELSE "recovering"
     /\ Commit(IF seg = from THEN EndUnclaimed(a) ELSE a, task)
     /\ illegal' = illegal \cup {i \in seg : RecoveredTo(i, stops) # "" /\ ~MayMove(att, i, "ended")}

\* `resume_after_update` in a new process, from its first turn to its first await.
Start ==
  /\ boot = "down"
  /\ LET held == {i \in Ids : att[i].state \in HOLDING}
     IN RecoverOn(held, {i \in held : att[i].stop}, {})
  /\ UNCHANGED <<parallel, stopReq, cancelled, crashes, gates, ceilings>>

\* A half-made tree is removed: `_recover` goes on with its row.
RecoverNext ==
  /\ boot = "recovering"
  /\ RecoverOn(left, leftStop, {CHOOSE i \in left : \A j \in left : i <= j})
  /\ UNCHANGED <<parallel, stopReq, cancelled, crashes, gates, ceilings>>

-----------------------------------------------------------------------------
Init ==
  /\ att = [i \in Ids |-> NoRow] /\ parallel \in 1 .. MaxParallel
  /\ task = [i \in Ids |-> "none"] /\ stopReq = {} /\ cancelled = {} /\ illegal = {}
  /\ boot = "down" /\ left = {} /\ leftStop = {} /\ crashes = 0
  /\ updating = "no" /\ closed = FALSE
  /\ paused = {} /\ raising = {}

\* The turns of the coroutine that works on attempt i, by what it is.
Prepares(i) ==
  \/ PrepareBegins(i)
  \/ \E refused \in BOOLEAN : PrepareRaises(i, refused)
  \/ PrepareActs(i)
  \/ PrepareStarts(i)
  \/ PrepareCancelled(i)
  \/ \E outcome \in {"done", "failed"} : ActEnds(i, outcome)

Drives(i) ==
  \/ DriveBegins(i)
  \/ Seal(i)
  \/ \E outcome \in Outcomes : DriveEnds(i, outcome)
  \/ \E inSession \in BOOLEAN : DriveGoesDown(i, inSession)
  \/ AfterEnd(i)

Integrates(i) ==
  \/ StopPoint(i)
  \/ LastStopPoint(i)
  \/ \E refused \in BOOLEAN : IntegrationRaises(i, refused)
  \/ IntegrationEnds(i)

Holds(i) == \E outcome \in {"done", "failed"} : HoldEnds(i, outcome)

Works(i) == Prepares(i) \/ Drives(i) \/ Integrates(i) \/ Holds(i)

\* What a person, the autopilot or a trigger asks for.
Asks ==
  \/ \E u \in Units : (\E m \in STOPPABLE : Click(u, m)) \/ HoldBegins(u) \/ RaiseReads(u)
  \/ \E i \in Ids : Stop(i)
  \/ \E n \in 1 .. MaxParallel : SetMaxParallel(n)

Updates == ApplyPressed \/ WindowMoves \/ UpdateOver

\* `shutdown` returns, and the process ends.
Exits == closed /\ Crash

Boots == Start \/ RecoverNext

Next ==
  \/ \E i \in Ids : Works(i)
  \/ \E u \in Units : RaiseActs(u)
  \/ Asks
  \/ Updates
  \/ Shutdown \/ Crash \/ (\E u \in Units : CrashInHold(u))
  \/ Boots

Spec == Init /\ [][Next]_vars

\* The loop gives every coroutine its turns, sessions end, a start follows an exit, and an update
\* does not stay pressed for ever.
Fairness ==
  /\ \A i \in Ids : WF_vars(Works(i))
  /\ WF_vars(Boots)
  /\ WF_vars(Exits)
  /\ WF_vars(UpdateOver)

FairSpec == Spec /\ Fairness

-----------------------------------------------------------------------------
(* What should hold.                                                       *)

\* Every variable has the values its comment says.
TypeOK ==
  /\ att \in [Ids -> Row] /\ parallel \in 1 .. MaxParallel
  /\ task \in [Ids -> Tasks]
  /\ stopReq \subseteq Ids /\ cancelled \subseteq Ids /\ illegal \subseteq Ids
  /\ boot \in {"down", "recovering", "up"} /\ left \subseteq Ids /\ leftStop \subseteq left
  /\ updating \in {"no", "pressed", "window"} /\ closed \in BOOLEAN
  /\ paused \subseteq Units /\ raising \subseteq Units /\ crashes \in 0 .. MaxCrashes

\* A unit has at most one attempt that is not over, whoever opened it: `open`'s check and insert
\* in one transaction, across clicks, raises, holds, Stops, recovery and restarts.
OneUnfinishedPerUnit ==
  \A i, j \in Ids : /\ att[i].unit = att[j].unit
                    /\ att[i].state \in Unfinished /\ att[j].state \in Unfinished
                    => i = j

\* What the coroutine of a step or an integration believes its attempt to be is what the row says:
\* no other handler, and no start, moves a row from under the coroutine that works on it.
RowsMatchTasks ==
  \A i \in Ids :
    /\ task[i] \in {"toPrepare", "preparing", "stuck"} => att[i].state = "preparing"
    /\ task[i] = "acting" => att[i].state = "ending"
    /\ task[i] = "toDrive" => att[i].state = "running"
    /\ task[i] \in {"driving", "integrating"} => att[i].state \in {"running", "ending"}
    /\ task[i] \in InTasks
         => att[i].machine = IF task[i] = "integrating" THEN "integration" ELSE "step"

\* No handler of a step or an integration is ever told `Illegal`: each asks only for moves the
\* table of its machine has.
NoIllegalMove == \A i \in illegal : att[i].machine = "hold"

\* Once a start is through and until the process goes down, whatever holds a slot or a unit past
\* the queue has a live coroutine that will end it, or is an attempt cancelled before its first turn.
HeldIsWorkedOn ==
  boot = "up" /\ ~closed
    => \A i \in Ids : att[i].state \in HOLDING => task[i] \in InTasks \cup {"holding"}

\* A Stop that was recorded shows in how the attempt ended: it never ends `done` or as paused.
StopShows ==
  \A i \in Ids : att[i].stop /\ att[i].state = "ended"
                   => att[i].outcome \in {"stopped", "stop_late", "failed", "interrupted"}

\* A Stop never cuts an attempt in `ending` halfway: while its coroutine lives, what it was
\* finishing is finished, and it does not end `stopped`.
StopNeverHalfway ==
  [][\A i \in Ids : /\ att[i].state = "ending" /\ att'[i].state = "ended"
                    /\ task[i] # "none"
                    => att'[i].outcome # "stopped"]_vars

\* A slot goes to the oldest attempt that waits for its kind, and only a free slot is given.
AdmissionInOrder ==
  [][\A i \in Ids :
       /\ att[i].state \in {"none", "queued"} /\ att'[i].machine \in STOPPABLE
       /\ att'[i].state = FIRST(att'[i].machine)
       /\ task'[i] # "toDrive"
       => /\ \A j \in Ids : /\ j < i /\ att[j].state = "queued"
                            /\ att[j].machine = att'[i].machine
                            => att'[j].state # "queued"
          /\ Cardinality(Held(att', SLOTS(att'[i].machine))) <= Capacity(SLOTS(att'[i].machine))]_vars

\* No attempt waits beside a free slot after anything moved, opened or ended one, or an update was
\* called off: the wake is never lost, whichever handler freed the slot.
WakeFollows ==
  [][(att' # att \/ (updating # "no" /\ updating' = "no" /\ boot' # "down"))
       /\ ~closed' /\ updating' = "no" /\ boot' # "down"
     => \A slot \in Slots :
          Waiting(att', slot) # {} => Cardinality(Held(att', slot)) >= Capacity(slot)]_vars

\* Every attempt ends, whatever is pressed, cancelled or restarted meanwhile -- unless one was
\* cancelled before its first turn, or the process was killed inside a hold's two transactions.
EveryAttemptEnds ==
  \A i \in Ids : att[i].state \in Unfinished
                   ~> \/ att[i].state \in ENDS
                      \/ \E j \in Ids : task[j] = "stuck"
                      \/ att[i].machine = "hold" /\ att[i].state = "queued"

\* What coscc/runner/steps.py says of a Stop, a task cancelled before its first turn included: the
\* attempt ends.  It does not when the task is `_prepare`'s.
StopEnds == \A i \in Ids : att[i].stop /\ att[i].state \in Unfinished ~> att[i].state \in ENDS

\* What coscc/runner/resume.py says it ends at a start: what no task of this process holds.  A hold
\* that a request began during the start is held by its own coroutine, and is ended all the same.
HoldKeepsItsUnit == \A i \in Ids : task[i] = "holding" => att[i].state = "running"

\* The attempts that hold a kind of slot never become more than its capacity, whichever handlers wake
\* the queue and however often -- but by a raise, which opens one that runs without asking for a slot.
SlotsWithinCapacity ==
  [][(\A i \in Ids : att[i].state = "none" => ~(att'[i].machine = "step" /\ att'[i].state = "running"))
       => \A slot \in Slots : Cardinality(Held(att', slot)) > Cardinality(Held(att, slot))
                               => Cardinality(Held(att', slot)) <= Capacity(slot)]_vars

\* What `drive` says of the app going down: the attempt is left as it is, for the next start.
GoingDownLeavesAttempt ==
  [][\A i \in Ids : task[i] = "driving" /\ i \in cancelled \ stopReq /\ task'[i] = "none"
                      => att'[i] = att[i]]_vars
=============================================================================
