------------------------------- MODULE Update -------------------------------
(***************************************************************************)
(* An update of the app under its running sessions: the updater's machine  *)
(* (coscc/update/updater.py), the sessions it pauses                       *)
(* (coscc/agent/sessions.py), the `suspend` and `resume` rows of the run   *)
(* log (coscc/store/journal.py) and what the next start, or this process   *)
(* after a hand-off that failed, does with them                            *)
(* (coscc/runner/resume.py), over the attempts of AttemptStore.            *)
(*                                                                         *)
(* Here an attempt is a board step.  Its way through the queue is in       *)
(* Attempts: it begins here `running`, and an "opening" run stands for one *)
(* still in its preparation too.  What an Apply waits for is one           *)
(* integration or retake, `mech`; a Gebo session is only no longer waited  *)
(* for.  `shutdown` is taken to end every task it cancels within the ten   *)
(* seconds it waits.                                                       *)
(***************************************************************************)
EXTENDS AttemptStore, SequencesExt

CONSTANTS MaxBegins,    \* bound: how many steps are begun by a click
          MaxUpdates,   \* bound: how often Apply is pressed
          MaxCrashes,   \* bound: how often the process dies on its own
          MaxBusy       \* bound: how many rows the run log is too busy to take

ASSUME UpdateAssumption == {MaxBegins, MaxUpdates, MaxCrashes, MaxBusy} \subseteq Nat

VARIABLES run,       \* where the task that drives each attempt is
          sid,       \* the session of each attempt: the attempt it began in
          stopReq,   \* attempts whose `Running.stop_requested` is set
          marked,    \* attempts whose handle is `suspended`
          log,       \* the run log of each unit
          upd,       \* the updater
          captured,  \* the streams `suspend_all` is pausing
          told,      \* `job_ended` has put a `_maybe_apply` on the loop
          mech,      \* the integration or retake under way
          closed,    \* `Attempts.closed`; the tasks of steps are cancelled
          paused,    \* `Sessions.paused`
          boot,      \* "down", "recovering", "resuming", then "up"
          todo,      \* the rows `resume_after_update` read and has not come to
          taking,    \* those whose `resume` row is written and whose claim comes next
          takes,     \* history: the rows taken up, in order
          begins, updates, crashes, busy

rows == <<att, parallel>>
flows == <<run, sid, stopReq, marked>>
updater == <<upd, captured, told, mech>>
gates == <<closed, paused>>
resume == <<boot, todo, taking, takes>>
bounds == <<begins, updates, crashes, busy>>
vars == <<rows, flows, log, updater, gates, resume, bounds>>

\* "opened" has written its `start`; "closing" has read `done` and is closing its client, its
\* handle still in `Sessions._steps`; "posting" has written its `end`.
Runs == {"none", "opening", "opened", "streaming", "closing", "concluding", "posting"}

InSteps(i) == run[i] \in {"streaming", "closing"}

Serving == boot \in {"recovering", "up"}

Window == upd \in {"trial", "suspending", "settling", "down"}

\* What an Apply waits for; one that went to Gebo is paused instead.
Waited == mech \in {"undecided", "mechanical"}

Entry(kind, s, of) == [kind |-> kind, sid |-> s, of |-> of]

\* `job_ended`: only a pending update hears it.
Told == told' = (told \/ upd = "pending")

SetRun(i, r) == run' = [run EXCEPT ![i] = r]

\* The task is over, and with it what only it knew.
TaskOver(i) ==
  /\ SetRun(i, "none")
  /\ stopReq' = stopReq \ {i} /\ marked' = marked \ {i}

Write(u, entry) == log' = [log EXCEPT ![u] = Append(@, entry)]

-----------------------------------------------------------------------------
(* A step and its session.                                                 *)

\* A click that got its slot; from the press of Apply on the queue moves nothing.
Begin(u) ==
  /\ Serving /\ upd = "idle" /\ ~closed /\ begins < MaxBegins /\ MayOpen(att, u)
  /\ \E i \in Ids : /\ IsNextId(att, i)
                    /\ att' = Opened(att, i, "step", u, "running")
                    /\ SetRun(i, "opening")
                    /\ sid' = [sid EXCEPT ![i] = i]
  /\ begins' = begins + 1
  /\ UNCHANGED <<parallel, stopReq, marked, log, updater, gates, resume, updates, crashes, busy>>

\* A task the app going down cancelled makes no turn of its own.
Turn(i, r) == run[i] = r /\ ~closed /\ i \notin stopReq

StartRow(i) ==
  /\ Turn(i, "opening")
  /\ SetRun(i, "opened") /\ Write(att[i].unit, Entry("start", sid[i], 0))
  /\ UNCHANGED <<rows, sid, stopReq, marked, updater, gates, resume, bounds>>

\* `stream`: refused once every session is paused, and the step then fails.
OpenStream(i) ==
  /\ Turn(i, "opened")
  /\ SetRun(i, IF paused THEN "concluding" ELSE "streaming")
  /\ UNCHANGED <<rows, sid, stopReq, marked, log, updater, gates, resume, bounds>>

\* The reply is complete and nobody paused it before: its `done` is read, the client closed.
Reply(i) ==
  /\ Turn(i, "streaming") /\ i \notin marked
  /\ SetRun(i, "closing")
  /\ UNCHANGED <<rows, sid, stopReq, marked, log, updater, gates, resume, bounds>>

Closed(i) ==
  /\ Turn(i, "closing")
  /\ SetRun(i, "concluding")
  /\ UNCHANGED <<rows, sid, stopReq, marked, log, updater, gates, resume, bounds>>

\* `seal`: the attempt is `ending`; a reply that lacks its opening or its object gets one more
\* turn on its session first, unless sessions are paused.
Seal(i, repair) ==
  /\ Turn(i, "concluding") /\ att[i].state = "running"
  /\ att' = Moved(att, i, "ending", "")
  /\ run' = IF repair /\ ~paused THEN [run EXCEPT ![i] = "streaming"] ELSE run
  /\ UNCHANGED <<parallel, sid, stopReq, marked, log, updater, gates, resume, bounds>>

\* The outcome is decided: sealed, or a Stop came first.
EndRow(i) ==
  /\ run[i] = "concluding" /\ (att[i].state = "ending" \/ i \in stopReq)
  /\ SetRun(i, "posting") /\ Write(att[i].unit, Entry("end", sid[i], 0))
  /\ UNCHANGED <<rows, sid, stopReq, marked, updater, gates, resume, bounds>>

\* `drive` is over: `end_attempt`, and the updater is told.  "done" is whatever a run no Stop came
\* to ends with.
Over(i) ==
  /\ run[i] = "posting"
  /\ att' = Moved(att, i, "ended",
                  CASE att[i].state = "running" -> "stopped"
                    [] att[i].stop -> "stop_late"
                    [] OTHER -> "done")
  /\ TaskOver(i) /\ Told
  /\ UNCHANGED <<parallel, sid, log, upd, captured, mech, gates, resume, bounds>>

\* The stream ends in `Suspended`: no `end` row and no end of the attempt, but `_conclude` seals.
Suspends(i) ==
  /\ run[i] = "streaming" /\ i \in marked
  /\ att' = IF i \in stopReq THEN att ELSE Moved(att, i, "ending", "")
  /\ TaskOver(i)
  /\ UNCHANGED <<parallel, sid, log, updater, gates, resume, bounds>>

\* Cancelled by the app going down: `_conclude` seals a run that got into its session.
GoesDown(i) ==
  /\ closed /\ i \notin stopReq /\ run[i] # "none"
  /\ att' = IF run[i] = "opening" THEN att ELSE Moved(att, i, "ending", "")
  /\ TaskOver(i)
  /\ UNCHANGED <<parallel, sid, log, updater, gates, resume, bounds>>

\* A Stop of an attempt that is not `ending` cancels its task, if it has one.
Stop(i) ==
  /\ Serving /\ att[i].state \in HOLDING /\ ~att[i].stop
  /\ att' = StopAsked(att, i)
  /\ stopReq' = IF run[i] # "none" /\ att[i].state = "running" THEN stopReq \cup {i} ELSE stopReq
  /\ UNCHANGED <<parallel, run, sid, marked, log, updater, gates, resume, bounds>>

\* A Stop's cancel reaches a run that has nothing to write an `end` of yet.
StoppedEarly(i) ==
  /\ i \in stopReq /\ run[i] = "opening"
  /\ att' = Moved(att, i, "ended", "stopped")
  /\ TaskOver(i) /\ Told
  /\ UNCHANGED <<parallel, sid, log, upd, captured, mech, gates, resume, bounds>>

\* ... or a session, paused by an update or not: the run ends `stopped`.
StopLands(i) ==
  /\ i \in stopReq /\ run[i] \in {"opened", "streaming", "closing"}
  /\ SetRun(i, "concluding")
  /\ UNCHANGED <<rows, sid, stopReq, marked, log, updater, gates, resume, bounds>>

-----------------------------------------------------------------------------
(* What an Apply waits for.                                                *)

\* Mutant of MechBegins: refused only once the window is open.
MechBeginsBeforeWindow ==
  /\ Serving /\ ~Window /\ mech = "no"
  /\ mech' = "undecided"
  /\ UNCHANGED <<rows, flows, log, upd, captured, told, gates, resume, bounds>>

\* An integration gets its slot, or a retake begins; an integration has no road yet.
MechBegins ==
  /\ Serving /\ upd = "idle" /\ ~closed /\ mech = "no"
  /\ mech' = "undecided"
  /\ UNCHANGED <<rows, flows, log, upd, captured, told, gates, resume, bounds>>

\* The road is decided.  Nothing is published here: a pending update does not hear of Gebo.
RoadDecided(road) ==
  /\ mech = "undecided"
  /\ road = "mechanical" => upd = "idle"
  /\ mech' = road
  /\ UNCHANGED <<rows, flows, log, upd, captured, told, gates, resume, bounds>>

\* GitHub refuses the rebase and the press agreed to Gebo: `integration.escalated`.
Escalates ==
  /\ mech = "mechanical"
  /\ mech' = "gebo" /\ Told
  /\ UNCHANGED <<rows, flows, log, upd, captured, gates, resume, bounds>>

\* Mutant of MechEnds: `retake.ended` is not among the events the updater hears.
MechEndsUntold ==
  /\ mech # "no"
  /\ mech' = "no"
  /\ UNCHANGED <<rows, flows, log, upd, captured, told, gates, resume, bounds>>

MechEnds ==
  /\ mech # "no"
  /\ mech' = "no" /\ Told
  /\ UNCHANGED <<rows, flows, log, upd, captured, gates, resume, bounds>>

-----------------------------------------------------------------------------
(* The updater.                                                            *)

Goes(to) == upd' = to /\ UNCHANGED <<rows, flows, log, captured, mech, resume>>

\* `apply`: a second press of one that waits begins it when nothing is left to wait for.
Press ==
  /\ Serving /\ upd = "idle" /\ updates < MaxUpdates
  /\ updates' = updates + 1
  /\ Goes(IF Waited THEN "pending" ELSE "applying")
  /\ UNCHANGED <<told, gates, begins, crashes, busy>>

Cancel == upd = "pending" /\ Goes("idle") /\ UNCHANGED <<told, gates, bounds>>

\* `_maybe_apply` on the loop; `asked` when it is a page's `status` that calls it, or a press.
MaybeApply(asked) ==
  /\ IF asked THEN upd = "pending" ELSE told
  /\ told' = (told /\ asked)
  /\ Goes(IF upd = "pending" /\ ~Waited THEN "applying" ELSE upd)
  /\ UNCHANGED <<gates, bounds>>

\* The checks of `_apply` and its trial, which fail without having touched a session.
Fails == upd \in {"applying", "trial"} /\ Goes("idle") /\ UNCHANGED <<told, gates, bounds>>

TrialBegins == upd = "applying" /\ Goes("trial") /\ UNCHANGED <<told, gates, bounds>>

\* The trial answered: every stream open now is marked and closed, and none opens from here.
SuspendAll ==
  /\ upd = "trial"
  /\ IF Waited   \* the code asks once more; TrialIsNotForNothing is that it need not
     THEN upd' = "pending" /\ UNCHANGED <<paused, marked, captured>>
     ELSE /\ upd' = "suspending" /\ paused' = TRUE
          /\ captured' = {i \in Ids : InSteps(i)}
          /\ marked' = marked \cup captured'
  /\ UNCHANGED <<rows, run, sid, stopReq, log, told, mech, closed, resume, bounds>>

\* `suspend_sessions` writes one row for each, whatever its owner has done meanwhile; `lost` are
\* those the run log was too busy for.
SuspendRows(lost) ==
  /\ upd = "suspending"
  /\ lost \subseteq captured /\ busy + Cardinality(lost) <= MaxBusy
  /\ upd' = "settling" /\ captured' = {}
  /\ busy' = busy + Cardinality(lost)
  /\ log' = [u \in Units |->
               LET of == {i \in captured \ lost : att[i].unit = u}
               IN log[u] \o SetToSeq({Entry("suspend", sid[i], 0) : i \in of})]
  /\ UNCHANGED <<rows, flows, told, mech, gates, resume, begins, updates, crashes>>

\* What `settle_after_suspend` returns for the updater to name in a `cut` row: every attempt past
\* the queue and not ended.
Left == {i \in Ids : att[i].state \in HOLDING}

\* The wait is over, and `shutdown` closes the queue and cancels every task.
ShutsDown ==
  /\ upd = "settling"
  /\ upd' = "down" /\ closed' = TRUE
  /\ UNCHANGED <<rows, flows, log, captured, told, mech, paused, resume, bounds>>

-----------------------------------------------------------------------------
(* Going down, and starting again.                                         *)

\* The memory of a process that is gone.
Forgotten ==
  /\ run' = [i \in Ids |-> "none"] /\ stopReq' = {} /\ marked' = {}
  /\ upd' = "idle" /\ captured' = {} /\ told' = FALSE /\ mech' = "no"
  /\ closed' = FALSE /\ paused' = FALSE
  /\ todo' = {} /\ taking' = {}

\* Mutant of HandedOver: `shutdown` cancels the steps and does not wait for them.
HandedOverAtOnce == upd = "down" /\ mech = "no"

\* `shutdown` returned: no task of a step runs, and an integration was waited for.
HandedOver == upd = "down" /\ mech = "no" /\ \A i \in Ids : run[i] = "none"

\* The server was asked to stop and the updater takes over.
HandOff ==
  /\ HandedOver /\ Forgotten
  /\ boot' = "down"
  /\ UNCHANGED <<rows, sid, log, takes, bounds>>

\* The process dies, at any point.
Crash ==
  /\ boot # "down" /\ crashes < MaxCrashes /\ Forgotten
  /\ boot' = "down" /\ crashes' = crashes + 1
  /\ UNCHANGED <<rows, sid, log, takes, begins, updates, busy>>

\* `_recover`, of rows no task of this process holds.
Recovered ==
  [i \in Ids |->
     CASE att[i].state \notin HOLDING -> att[i]
       [] att[i].stop                 -> Moved(att, i, "ended", "stopped")[i]
       [] att[i].state = "running"    -> att[i]
       [] OTHER                       -> Moved(att, i, "ended", "interrupted")[i]]

\* A start, whoever makes it.
Boots ==
  /\ boot = "down"
  /\ boot' = "recovering" /\ att' = Recovered
  /\ UNCHANGED <<parallel, flows, log, updater, gates, todo, taking, takes, bounds>>

\* Mutant of HandOffFails: nothing is taken up, the rows are left to the next start.
HandOffFailsAlone ==
  /\ HandedOver
  /\ upd' = "idle" /\ paused' = FALSE /\ closed' = FALSE
  /\ UNCHANGED <<rows, flows, log, captured, told, mech, resume, bounds>>

\* The backup or the hand-off fails: this process goes on, and takes up what it paused.
HandOffFails ==
  /\ HandedOver
  /\ upd' = "idle" /\ paused' = FALSE /\ closed' = FALSE
  /\ boot' = "recovering" /\ att' = Recovered
  /\ UNCHANGED <<parallel, flows, log, captured, told, mech, todo, taking, takes, bounds>>

\* `unresumed`: the `suspend` rows no `resume` row names.
Unresumed(u) ==
  {p \in DOMAIN log[u] :
     log[u][p].kind = "suspend" /\ \A q \in DOMAIN log[u] : log[u][q].of # p}

\* Mutant of MovedOn: only an end says that a unit went on.
MovedOnByEnd(u, p) == \E q \in DOMAIN log[u] : q > p /\ log[u][q].kind = "end"

\* `moved_on`: the unit has a `start` or an `end` after its `suspend`.
MovedOn(u, p) == \E q \in DOMAIN log[u] : q > p /\ log[u][q].kind \in {"start", "end"}

\* The rows are read, and each judged, before any is written; a busy run log has none.
ResumeReads(read) ==
  /\ boot = "recovering"
  /\ boot' = "resuming"
  /\ IF read
     THEN /\ todo' = UNION {{[unit |-> u, pos |-> p, gone |-> MovedOn(u, p)] :
                               p \in Unresumed(u)} : u \in Units}
          /\ UNCHANGED busy
     ELSE todo' = {} /\ busy < MaxBusy /\ busy' = busy + 1
  /\ UNCHANGED <<rows, flows, log, updater, gates, taking, takes, begins, updates, crashes>>

\* The next of them: in each unit in the order they were written.
IsNextRow(row) == row \in todo /\ taking = {} /\ \A o \in todo : o.unit = row.unit => row.pos <= o.pos

LeftRunning(u) == {i \in Live(att, u) : att[i].state = "running" /\ run[i] = "none"}

\* Mutant of Unadoptable: what holds the unit is not asked.
UnadoptableNever(u) == FALSE

\* Something holds the unit that a resumed step cannot go on in.
Unadoptable(u) == ~MayOpen(att, u) /\ LeftRunning(u) = {}

\* The `resume` row, before anything is run; with a problem -- `unfit` is one of its directory, its
\* transcript or a guard -- it says `failed`, and the session gets the `end` it will not write.
ResumeRow(row, unfit) ==
  /\ IsNextRow(row)
  /\ LET s == log[row.unit][row.pos].sid
         problem == unfit \/ row.gone \/ Unadoptable(row.unit)
     IN /\ log' = [log EXCEPT ![row.unit] =
                     @ \o IF problem
                          THEN <<Entry("refused", s, row.pos), Entry("end", s, 0)>>
                          ELSE <<Entry("resumed", s, row.pos)>>]
        /\ taking' = IF problem THEN {} ELSE {row}
  /\ todo' = todo \ {row}
  /\ UNCHANGED <<rows, flows, updater, gates, boot, takes, bounds>>

\* Mutant of ResumeBusy: it is taken up all the same.
ResumeBusyTakes(row) ==
  /\ IsNextRow(row) /\ busy < MaxBusy /\ ~row.gone /\ ~Unadoptable(row.unit)
  /\ todo' = todo \ {row} /\ taking' = {row}
  /\ busy' = busy + 1
  /\ UNCHANGED <<rows, flows, log, updater, gates, boot, takes, begins, updates, crashes>>

\* The run log is busy: not taken, so the next start sees the row again.
ResumeBusy(row) ==
  /\ IsNextRow(row) /\ busy < MaxBusy
  /\ todo' = todo \ {row}
  /\ busy' = busy + 1
  /\ UNCHANGED <<rows, flows, log, updater, gates, boot, taking, takes, begins, updates, crashes>>

\* `resume_step` -> `adopt`: the attempt left `running`, else a new one; no second `start` row.
TakesUp(row) ==
  /\ row \in taking
  /\ \E i \in Ids :
       /\ IF LeftRunning(row.unit) # {}
          THEN i \in LeftRunning(row.unit) /\ UNCHANGED att
          ELSE IsNextId(att, i) /\ att' = Opened(att, i, "step", row.unit, "running")
       /\ SetRun(i, "opened")
       /\ sid' = [sid EXCEPT ![i] = log[row.unit][row.pos].sid]
  /\ taking' = {} /\ takes' = Append(takes, <<row.unit, row.pos>>)
  /\ UNCHANGED <<parallel, stopReq, marked, log, updater, gates, boot, todo, bounds>>

\* It raises before its claim: the unit is no longer there.
TakeUpRaises(row) ==
  /\ row \in taking
  /\ taking' = {}
  /\ Write(row.unit, Entry("end", log[row.unit][row.pos].sid, 0))
  /\ UNCHANGED <<rows, flows, updater, gates, boot, todo, takes, bounds>>

\* `_end_unclaimed`.
Claimed ==
  [i \in Ids |-> IF att[i].state \in HOLDING /\ run[i] = "none"
                 THEN Moved(att, i, "ended", "interrupted")[i] ELSE att[i]]

ResumeEnds ==
  /\ boot = "resuming" /\ todo = {} /\ taking = {}
  /\ boot' = "up" /\ att' = Claimed
  /\ UNCHANGED <<parallel, flows, log, updater, gates, todo, taking, takes, bounds>>

-----------------------------------------------------------------------------

Init ==
  /\ att = [i \in Ids |-> NoRow] /\ parallel = MaxParallel
  /\ run = [i \in Ids |-> "none"] /\ sid = [i \in Ids |-> 0]
  /\ stopReq = {} /\ marked = {}
  /\ log = [u \in Units |-> <<>>]
  /\ upd = "idle" /\ captured = {} /\ told = FALSE /\ mech = "no"
  /\ closed = FALSE /\ paused = FALSE
  /\ boot = "up" /\ todo = {} /\ taking = {} /\ takes = <<>>
  /\ begins = 0 /\ updates = 0 /\ crashes = 0 /\ busy = 0

RunTurn(i) ==
  \/ StartRow(i) \/ OpenStream(i) \/ Reply(i) \/ Closed(i)
  \/ \E repair \in BOOLEAN : Seal(i, repair)
  \/ EndRow(i)
  \/ Over(i)
  \/ Suspends(i) \/ GoesDown(i) \/ StoppedEarly(i) \/ StopLands(i)

Roads == \E road \in {"mechanical", "gebo"} : RoadDecided(road)

\* What the updater does by itself once Apply was pressed.
Applies ==
  \/ MaybeApply(FALSE) \/ Fails \/ TrialBegins \/ SuspendAll
  \/ \E lost \in SUBSET captured : SuspendRows(lost)
  \/ ShutsDown \/ HandOff \/ HandOffFails

StartsAgain ==
  \/ Boots
  \/ \E read \in BOOLEAN : ResumeReads(read)
  \/ \E row \in todo : ResumeBusy(row) \/ \E unfit \in BOOLEAN : ResumeRow(row, unfit)
  \/ \E row \in taking : TakesUp(row) \/ TakeUpRaises(row)
  \/ ResumeEnds

\* Nothing else takes a turn while `resume_after_update` goes from its rows to its claims.
Turns ==
  /\ boot # "resuming"
  /\ \/ \E u \in Units : Begin(u)
     \/ \E i \in Ids : RunTurn(i) \/ Stop(i)
     \/ MechBegins \/ Roads \/ Escalates \/ MechEnds
     \/ Press \/ Cancel \/ MaybeApply(TRUE) \/ Applies

Next == Turns \/ StartsAgain \/ Crash

Spec == Init /\ [][Next]_vars

\* Every coroutine takes its turns and every session, wait and start comes to its end; nobody has
\* to click, press, stop, cancel or crash.
FairSpec ==
  /\ Spec
  /\ \A i \in Ids : WF_vars(RunTurn(i) /\ boot # "resuming")
  /\ WF_vars(boot # "resuming" /\ (MechEnds \/ Escalates))
  /\ WF_vars(boot # "resuming" /\ Applies)
  /\ WF_vars(StartsAgain)

-----------------------------------------------------------------------------
(* What must hold.                                                         *)

\* Every variable has its type, what is to be taken up and what was are rows of a log, a process that
\* is down keeps nothing, and only while sessions are paused is a handle marked.
TypeOK ==
  /\ att \in [Ids -> Row] /\ parallel \in 1 .. MaxParallel
  /\ run \in [Ids -> Runs] /\ sid \in [Ids -> 0 .. MaxAttempts]
  /\ {stopReq, marked, captured} \subseteq SUBSET Ids
  /\ \A u \in Units : \A p \in DOMAIN log[u] :
       log[u][p] \in [kind : {"start", "end", "suspend", "resumed", "refused"},
                     sid : Ids, of : 0 .. Len(log[u])]
  /\ upd \in {"idle", "pending", "applying", "trial", "suspending", "settling", "down"}
  /\ mech \in {"no", "undecided", "mechanical", "gebo"}
  /\ {told, closed, paused} \subseteq BOOLEAN
  /\ boot \in {"down", "recovering", "resuming", "up"}
  /\ \A row \in todo \cup taking :
       row.unit \in Units /\ row \in [unit : Units, pos : DOMAIN log[row.unit], gone : BOOLEAN]
  /\ \A n \in DOMAIN takes : takes[n][1] \in Units /\ takes[n][2] \in DOMAIN log[takes[n][1]]
  /\ marked # {} => paused
  /\ boot = "down" => upd = "idle" /\ \A i \in Ids : run[i] = "none"

\* A suspended session is taken up at most once, whatever dies, fails or is busy between its
\* `resume` row and its claim (the order `resume_after_update` writes and claims in).
TakenUpOnce == IsInjective(takes)

\* No two runs work on one unit at once, a run taken up again over one just begun included
\* (`unadoptable`, asked with nothing between it and the claim).
OneRunPerUnit ==
  \A i, j \in Ids : run[i] # "none" /\ run[j] # "none" /\ att[i].unit = att[j].unit => i = j

\* A session is not taken up over newer work: between its `suspend` row and the `resume` row that
\* takes it up nothing of its unit started, nor did it end itself (`moved_on`).
NotOverNewerWork ==
  \A u \in Units : \A q \in DOMAIN log[u] :
    log[u][q].kind = "resumed" =>
      \A k \in DOMAIN log[u] : log[u][q].of < k /\ k < q =>
        /\ log[u][k].kind # "start"
        /\ ~(log[u][k].kind = "end" /\ log[u][k].sid = log[u][q].sid)

\* Once an Apply has begun, nothing it would have to wait for is under way, so that its trial is
\* never thrown away (`refuse_mechanical_while_updating`, `_admitting`).
TrialIsNotForNothing == upd \in {"applying", "trial"} => ~Waited

\* An update that waits gets its turn, with no page asking (`job_ended`, and no wait that grows).
PendingEnds == upd = "pending" ~> upd # "pending"

\* The sessions an update paused do not wait for ever: each unit's `suspend` rows all get their
\* `resume` row, unless the run log was too busy for one.
SuspendsAnswered == \A u \in Units : Unresumed(u) # {} ~> (Unresumed(u) = {} \/ busy > 0)

\* What the comment of `suspend_all` says: a session an update pauses gets `Suspended` instead of
\* an end, so that none that has its end is taken up.
EndedStaysEnded ==
  \A u \in Units : \A q \in DOMAIN log[u] :
    log[u][q].kind = "resumed" =>
      ~\E k \in DOMAIN log[u] :
         k < q /\ log[u][k].kind = "end" /\ log[u][k].sid = log[u][q].sid

\* What `settle_after_suspend` says it returns: what still runs.
CutStillRuns == [][ShutsDown => \A i \in Left : run[i] # "none"]_vars
=============================================================================
