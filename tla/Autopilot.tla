----------------------------- MODULE Autopilot ------------------------------
(***************************************************************************)
(* The autopilot of one workspace (coscc/leif/autopilot.py, decide.py):    *)
(* its wakes, and its passes from what they read to what they queue, with  *)
(* the steps that end, the person and the switch between any two awaits.   *)
(* A pass reads the run log, then what runs, then asks the loop for each   *)
(* unit.  What the loop names is one of: a stage, the same stage again on  *)
(* the same head (a draft to go on with, a red check), or nothing.  What   *)
(* holds back a unit that might start (the day's money, files, a ship, its *)
(* rank, an answer awaited, a session limit) may hold any unit back.       *)
(***************************************************************************)
EXTENDS Naturals, FiniteSets

CONSTANTS Units,
          MaxTries,  \* `MAX_TRIES`
          Places,    \* `max_parallel`
          MaxWakes,  \* bound: wakes that wait for the lock to run their pass
          MaxStarts, \* bound: steps begun of a unit
          MaxMoves   \* bound: clicks, switches, pushes of other people, passes that fail

\* What the constants are.
AutopilotConstants == MaxTries \in Nat /\ MaxStarts \in Nat

VARIABLES on,      \* the switch, and its tasks
          waiting, \* `waiting`: a wake that no pass has taken yet
          asked,   \* tasks of wakes (`_woken`) before their first turn with the lock
          taken,   \* ... and between it and their pass
          pass,    \* the pass that holds the lock
          log,     \* what it read of each unit in the run log
          here,    \* the units it read as running
          chosen,  \* what it has left to queue, each with whether an app note goes with it
          step,    \* of each unit: no attempt, or one queued or running, and whose it is
          last,    \* how the last step of each unit ended
          tries,   \* starts of the autopilot with an app note since the unit's head changed
          noted,   \* units with a pick with a note and no start after it
          refused, \* units whose last attempt, of the autopilot, the gate refused for good
          loop,    \* what the loop names
          unread,  \* history: something a wake told of was not read by a pass yet
          blind,   \* history: steps the autopilot queued after one that did not end done
          starts,  \* history: steps begun
          moves    \* history: moves made, at most MaxMoves
wakes == <<on, waiting, asked, taken, unread>>
passing == <<pass, log, here, chosen>>
work == <<step, last, tries, noted, refused, loop, blind, starts>>
vars == <<wakes, passing, work, moves>>

Idle == [at |-> "idle", by |-> "none"]
NoPick == [unit |-> "none", note |-> FALSE]
NoPass == [at |-> "none", by |-> "none", pick |-> NoPick]
Moving == moves < MaxMoves /\ moves' = moves + 1
Busy == {u \in Units : step[u].at # "idle"}

-----------------------------------------------------------------------------
(* Wakes.                                                                  *)

\* `nudge`: a wake joins the one no pass has taken.
\* Mutant of Nudge: it joins a pass that runs as well.
NudgeJoinsPass ==
  IF ~on THEN UNCHANGED wakes
  ELSE /\ unread' = TRUE /\ UNCHANGED <<on, taken>>
       /\ IF waiting \/ pass.at # "none" THEN UNCHANGED <<waiting, asked>> ELSE waiting' = TRUE /\ asked' = asked + 1
Nudge ==
  IF ~on THEN UNCHANGED wakes
  ELSE /\ unread' = TRUE /\ UNCHANGED <<on, taken>>
       /\ IF waiting THEN UNCHANGED <<waiting, asked>> ELSE waiting' = TRUE /\ asked' = asked + 1

\* Its first turn with the lock (`_woken`): it takes the wakes that joined it, if any are left.
TakeWake ==
  /\ asked > 0 /\ taken < MaxWakes /\ pass.at = "none" /\ asked' = asked - 1
  /\ waiting' = FALSE /\ taken' = taken + (IF waiting THEN 1 ELSE 0)
  /\ UNCHANGED <<on, unread, passing, work, moves>>

\* The lock is fair, so the pass of every five minutes does not come before a wake that waits for it.
BeginPass(by) ==
  /\ pass.at = "none"
  /\ IF by = "wake" THEN taken > 0 /\ taken' = taken - 1 ELSE on /\ taken = 0 /\ UNCHANGED taken
  /\ pass' = IF on THEN [NoPass EXCEPT !.at = "begins", !.by = by] ELSE NoPass
  /\ UNCHANGED <<on, waiting, asked, unread, log, here, chosen, work, moves>>

TurnOff ==
  /\ on /\ Moving /\ on' = FALSE /\ waiting' = FALSE /\ unread' = FALSE
  /\ IF pass.by = "poll" THEN pass' = NoPass /\ chosen' = {} ELSE UNCHANGED <<pass, chosen>>
  /\ UNCHANGED <<asked, taken, log, here, work>>

TurnOn == ~on /\ on' = TRUE /\ UNCHANGED <<waiting, asked, taken, unread, passing, work, moves>>

-----------------------------------------------------------------------------
(* A pass (`run_pass`).                                                    *)

\* The board is awaited and the run log read; all that was told of before is in them.
ReadLog ==
  /\ pass.at = "begins" /\ pass' = [pass EXCEPT !.at = "log"]
  /\ log' = [u \in Units |-> [last |-> last[u], tries |-> tries[u]]] /\ unread' = FALSE
  /\ UNCHANGED <<on, waiting, asked, taken, here, chosen, work, moves>>

\* It raises, or cannot read: the stop it leaves says so, and the next pass or wake asks again.
FailPass ==
  /\ pass.at \in {"begins", "log", "running"} /\ Moving /\ pass' = NoPass /\ unread' = FALSE
  /\ UNCHANGED <<on, waiting, asked, taken, log, here, chosen, work>>

\* The trunk may be fetched and the board read again before this.
ReadRunning ==
  /\ pass.at = "log" /\ pass' = [pass EXCEPT !.at = "running"] /\ here' = Busy
  /\ UNCHANGED <<wakes, log, chosen, work, moves>>

\* `stop_for` and what follows it.
\* Mutant of TriesLeft: one try more on a head.
OneMoreTry(u) == log[u].tries <= MaxTries
TriesLeft(u) == log[u].tries < MaxTries

Candidate(u) ==
  /\ u \notin here /\ u \notin refused /\ log[u].last # "failed"
  /\ loop[u] = "stage" \/ (loop[u] = "again" /\ TriesLeft(u))

\* `pick`, then the switch is read again, and the stops are written.
Choose ==
  /\ pass.at = "running"
  /\ \E c \in SUBSET {u \in Units : Candidate(u)} :
       /\ Cardinality(here) + Cardinality(c) <= Places \/ c = {}
       /\ IF c = {} \/ ~on THEN pass' = NoPass /\ UNCHANGED chosen
          ELSE pass' = [pass EXCEPT !.at = "picks"] /\ chosen' = {[unit |-> u, note |-> loop[u] = "again"] : u \in c}
  /\ UNCHANGED <<wakes, log, here, work, moves>>

PassOn == pass' = IF on /\ chosen # {} THEN [pass EXCEPT !.at = "picks", !.pick = NoPick] ELSE NoPass

\* A pick is recorded before its step is queued, and the switch looked at after each await.
RecordPick(c) ==
  /\ pass.at = "picks" /\ c \in chosen /\ chosen' = chosen \ {c}
  /\ pass' = [pass EXCEPT !.at = "picked", !.pick = c]
  /\ noted' = IF c.note THEN noted \cup {c.unit} ELSE noted
  /\ UNCHANGED <<wakes, log, here, step, last, tries, refused, loop, blind, starts, moves>>

\* `_queue`: refused where an attempt of the unit has come in between.
Queue ==
  /\ pass.at = "picked" /\ PassOn
  /\ LET u == pass.pick.unit
     IN IF ~on \/ u \in Busy THEN UNCHANGED <<step, refused, blind>>
        ELSE /\ step' = [step EXCEPT ![u] = [at |-> "queued", by |-> "autopilot"]]
             /\ refused' = refused \ {u}
             /\ blind' = [blind EXCEPT ![u] = @ + (IF last[u] = "failed" THEN 1 ELSE 0)]
  /\ chosen' = IF on THEN chosen ELSE {}
  /\ UNCHANGED <<wakes, log, here, last, tries, noted, loop, starts, moves>>

-----------------------------------------------------------------------------
(* Steps, the person and the rest of the world.                            *)

Click(u) ==
  /\ u \notin Busy /\ Moving
  /\ step' = [step EXCEPT ![u] = [at |-> "queued", by |-> "person"]]
  /\ refused' = refused \ {u} /\ blind' = [blind EXCEPT ![u] = 0]
  /\ UNCHANGED <<wakes, passing, last, tries, noted, loop, starts>>

Start(u) ==
  /\ step[u].at = "queued" /\ starts[u] < MaxStarts /\ starts' = [starts EXCEPT ![u] = @ + 1]
  /\ step' = [step EXCEPT ![u].at = "runs"]
  /\ tries' = [tries EXCEPT ![u] = @ + (IF u \in noted /\ step[u].by = "autopilot" THEN 1 ELSE 0)]
  /\ noted' = noted \ {u}
  /\ UNCHANGED <<wakes, passing, last, refused, loop, blind, moves>>

\* The gate refuses it: for a race (`WAIT`), or for good.
Refuse(u) ==
  /\ step[u].at = "queued" /\ step' = [step EXCEPT ![u] = Idle]
  /\ refused' \in {refused} \cup (IF step[u].by = "autopilot" THEN {refused \cup {u}} ELSE {})
  /\ Nudge /\ UNCHANGED <<passing, last, tries, noted, loop, blind, starts, moves>>

Named == {"stage", "again", "none"}

\* It may have pushed, which is a new head.
End(u) ==
  /\ step[u].at = "runs" /\ step' = [step EXCEPT ![u] = Idle]
  /\ \E how \in {"done", "failed"}, named \in Named, t \in {0, tries[u]} :
       /\ last' = [last EXCEPT ![u] = how] /\ loop' = [loop EXCEPT ![u] = named]
       /\ tries' = [tries EXCEPT ![u] = t]
       /\ blind' = IF how = "done" THEN [blind EXCEPT ![u] = 0] ELSE blind
  /\ Nudge /\ UNCHANGED <<passing, noted, refused, starts, moves>>

\* Checks end, a person answers, or somebody pushes: `next` says something else, and a wake tells.
LoopMoves(u) ==
  /\ Moving /\ \E named \in Named \ {loop[u]} : loop' = [loop EXCEPT ![u] = named]
  /\ \E t \in {0, tries[u]} : tries' = [tries EXCEPT ![u] = t]
  /\ Nudge /\ UNCHANGED <<passing, step, last, noted, refused, blind, starts>>

-----------------------------------------------------------------------------

Init ==
  /\ on \in BOOLEAN /\ waiting = FALSE /\ asked = 0 /\ taken = 0 /\ unread = FALSE
  /\ pass = NoPass /\ log = [u \in Units |-> [last |-> "none", tries |-> 0]] /\ here = {} /\ chosen = {}
  /\ step = [u \in Units |-> Idle] /\ last = [u \in Units |-> "none"]
  /\ tries = [u \in Units |-> 0] /\ noted = {} /\ refused = {} /\ loop \in [Units -> Named]
  /\ blind = [u \in Units |-> 0] /\ starts = [u \in Units |-> 0] /\ moves = 0

Next ==
  \/ TakeWake \/ (\E by \in {"wake", "poll"} : BeginPass(by)) \/ TurnOff \/ TurnOn
  \/ ReadLog \/ FailPass \/ ReadRunning \/ Choose \/ (\E c \in chosen : RecordPick(c)) \/ Queue
  \/ \E u \in Units : Click(u) \/ Start(u) \/ Refuse(u) \/ End(u) \/ LoopMoves(u)

Spec == Init /\ [][Next]_vars

-----------------------------------------------------------------------------

\* Wakes, the pass, the attempts and what the loop names have the shape the autopilot keeps.
TypeOK ==
  /\ {on, waiting, unread} \subseteq BOOLEAN /\ {asked, taken} \subseteq Nat
  /\ pass.at \in {"none", "begins", "log", "running", "picks", "picked"} /\ pass.by \in {"none", "wake", "poll"}
  /\ here \cup noted \cup refused \subseteq Units /\ chosen \subseteq [unit : Units, note : BOOLEAN]
  /\ step \in [Units -> [at : {"idle", "queued", "runs"}, by : {"none", "autopilot", "person"}]]
  /\ last \in [Units -> {"none", "done", "failed"}] /\ loop \in [Units -> Named]
  /\ {tries[u] : u \in Units} \cup {starts[u] : u \in Units} \subseteq 0..MaxStarts

\* What a wake told of while the autopilot is on, a pass will read: one that is to come, or has not
\* read yet.  A wake is never taken for one that a pass in the middle of its reads will serve.
WakeIsServed ==
  /\ unread => waiting \/ taken > 0 \/ pass.at = "begins"
  /\ waiting => asked > 0

\* Without a person, the autopilot never goes on for ever with what does not move: on one head it
\* begins a step with its own note at most once more than `MAX_TRIES`, and it queues at most one
\* step after one that did not end done.  The one more of each is of a pass that read the run log
\* before the step ended, and what runs after.
RetriesBounded ==
  \A u \in Units : tries[u] <= MaxTries + 1 /\ blind[u] <= 1
=============================================================================
