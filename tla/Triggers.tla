------------------------------ MODULE Triggers ------------------------------
(***************************************************************************)
(* Runs of agents that are no stage of a unit (coscc/runner/triggers.py),  *)
(* in one workspace: pressed by a person, started by Leif from a chat, by  *)
(* the end of another agent's run, at once or later, or by a schedule.     *)
(* A turn of the event loop is an action, and so is each part of the count *)
(* Leif's tool makes off it.  A refusal for reasons not kept here (the     *)
(* row, its pack, its unit, the day's money, an update, a log that cannot  *)
(* be read) may come at any time.  Trials, prompts and what a run hands    *)
(* back are left out.  A row or a count is written when it is asked for:   *)
(* of the writes only the one that turns an agent off may fail.            *)
(***************************************************************************)
EXTENDS Naturals, Sequences, FiniteSets

CONSTANTS Agents,
          Leader,   \* of each agent the one whose end starts it, or itself
          Delayed,  \* agents whose row says `after_hours`
          Callers,  \* of Leif's tool
          Daily,    \* `LEIF_DAILY`
          MaxRuns,  \* bound: runs held
          MaxMoves  \* bound: crashes, midnights and the owner's turning an agent on or off

\* What the constants are: a place of a caller is none of a run.
TriggersConstants ==
  /\ Leader \in [Agents -> Agents] /\ Daily \in Nat /\ MaxRuns \in Nat /\ MaxMoves \in Nat
  /\ \A c \in Callers : c \notin Nat

VARIABLES on,      \* whether each agent is on here (`agent_on`)
          runs,    \* the runs held so far: their rows and, while they go, their tasks
          running, \* `_RUNNING`: the run that holds each agent, 0 when none does
          due,     \* `trigger_due`: the run that ended for which an agent is due, 0 when none
          call,    \* where each caller is and what it counted
          held,    \* `_LEIF_HELD`: places of callers and runs
          over,    \* history: agents that met a ceiling, until the owner turns them on or the app could
                   \* not turn them off
          nights,  \* midnights so far
          moves    \* history: moves made, at most MaxMoves
vars == <<on, runs, running, due, call, held, over, nights, moves>>

NoCall == [at |-> "away", counted |-> {}]
Ids == 1..Len(runs)
Going(i) == runs[i].at \in {"held", "started", "ended", "over"}
LeifToday == {i \in Ids : runs[i].by = "leif" /\ runs[i].night = nights + 1}

\* `_hold`: the run has its agent from here on.
HoldRun(rows, free, a, by, from) ==
  /\ free[a] = 0 /\ Len(rows) < MaxRuns
  /\ runs' = Append(rows, [agent |-> a, by |-> by, from |-> from, at |-> "held", well |-> FALSE, night |-> 0])
  /\ running' = [free EXCEPT ![a] = Len(rows) + 1]

Move(i, to) == runs' = [runs EXCEPT ![i].at = to]

-----------------------------------------------------------------------------
(* A press (`begin`) and a call of Leif's tool (`leif_call`).              *)

\* The checks of a press run off the loop and are asked again by `_hold`, which alone decides.
Press(a) ==
  /\ HoldRun(runs, running, a, "manual", 0)
  /\ UNCHANGED <<on, due, call, held, over, nights, moves>>

\* `_leif_may`, under its lock: the runs held are copied first, then the rows are read; the event
\* loop goes on meanwhile.
CountHeld(c) ==
  /\ \A d \in Callers : call[d].at # "counts"
  /\ call[c].at = "away" /\ call' = [call EXCEPT ![c] = [at |-> "counts", counted |-> held]]
  /\ UNCHANGED <<on, runs, running, due, held, over, nights, moves>>

\* Mutant of Counted: what is held is no part of the count.
CountedRows(c) == LeifToday
Counted(c) == call[c].counted \cup LeifToday

TakePlace(c) ==
  /\ call[c].at = "counts"
  /\ IF Cardinality(Counted(c)) >= Daily THEN call' = [call EXCEPT ![c] = NoCall] /\ UNCHANGED held
     ELSE call' = [call EXCEPT ![c] = [at |-> "placed", counted |-> {}]] /\ held' = held \cup {c}
  /\ UNCHANGED <<on, runs, running, due, over, nights, moves>>

\* Back on the loop, where the agent may have been taken meanwhile: the place goes to the run or is
\* given back.
Begin(c) ==
  /\ call[c].at = "placed" /\ call' = [call EXCEPT ![c] = NoCall]
  /\ \/ \E a \in Agents : HoldRun(runs, running, a, "leif", 0)
        /\ held' = (held \ {c}) \cup {Len(runs) + 1}
     \/ held' = held \ {c} /\ UNCHANGED <<runs, running>>
  /\ UNCHANGED <<on, due, over, nights, moves>>

-----------------------------------------------------------------------------
(* A run (`_held`, `_run`).                                                *)

WriteStart(i) ==
  /\ runs[i].at = "held"
  /\ runs' = [runs EXCEPT ![i].at = "started", ![i].night = IF runs[i].by = "leif" THEN nights + 1 ELSE 0]
  /\ UNCHANGED <<on, running, due, call, held, over, nights, moves>>

\* Nothing new to read, no tree to read it in, or cancelled: it ends with no start.
EndsUnstarted(i) ==
  /\ runs[i].at = "held" /\ Move(i, "over")
  /\ UNCHANGED <<on, running, due, call, held, over, nights, moves>>

WriteEnd(i) ==
  /\ runs[i].at = "started"
  /\ \E well \in BOOLEAN : runs' = [runs EXCEPT ![i].at = "over", ![i].well = well]
  /\ UNCHANGED <<on, running, due, call, held, over, nights, moves>>

\* It ends `paused-budget`.
MeetCeiling(i) ==
  /\ runs[i].at = "started" /\ Move(i, "ended") /\ over' = over \cup {runs[i].agent}
  /\ UNCHANGED <<on, running, due, call, held, nights, moves>>

\* `_turn_off`, before the agent is let go: nothing to do where it is off.  Turning it off may fail (its
\* row has no trigger any more, the store is busy), which is logged: the agent is let go and stays on.
TurnOff(i) ==
  /\ runs[i].at = "ended" /\ Move(i, "over")
  /\ \/ on' = [on EXCEPT ![runs[i].agent] = FALSE] /\ UNCHANGED over
     \/ on[runs[i].agent] /\ over' = over \ {runs[i].agent} /\ UNCHANGED on
  /\ UNCHANGED <<running, due, call, held, nights, moves>>

\* The rows that an agent's run that is done starts (`heard`).
Hears(i) == {f \in Agents : f # runs[i].agent /\ Leader[f] = runs[i].agent /\ on[f] /\ runs[i].well}

\* Mutant of MayRelease: a run that met its ceiling lets its agent go on.
MayReleaseEarly(i) == runs[i].at \in {"ended", "over"}
MayRelease(i) == runs[i].at = "over"

\* Mutant of LetGo: only a run that ended by itself lets its agent go.
LetGoOfEnded(a) == IF runs[running[a]].well THEN [running EXCEPT ![a] = 0] ELSE running
LetGo(a) == [running EXCEPT ![a] = 0]

\* The agent is let go and the end is heard: each row it starts is made due, where it says so or the
\* result cannot be read now; or is refused, and then dropped; or starts.  Here one starts at most.
Release(i) ==
  /\ MayRelease(i)
  /\ \E heard \in [Hears(i) -> {"due", "refused", "starts"}] :
       LET go == {f \in Hears(i) : heard[f] = "starts"}
           rows == [runs EXCEPT ![i].at = IF i \in held THEN "gone" ELSE "done"]
           free == LetGo(runs[i].agent)
       IN /\ \A f \in Hears(i) \cap Delayed : heard[f] = "due"
          /\ due' = [f \in Agents |-> IF f \in Hears(i) /\ heard[f] = "due" THEN i ELSE due[f]]
          /\ IF go = {} THEN runs' = rows /\ running' = free
             ELSE Cardinality(go) = 1 /\ \E f \in go : HoldRun(rows, free, f, "event", i)
  /\ UNCHANGED <<on, call, held, over, nights, moves>>

\* Its task is over (`_done`), a turn later, which tells nothing but where Leif started it.
Discard(i) ==
  /\ runs[i].at = "gone" /\ Move(i, "done") /\ held' = held \ {i}
  /\ UNCHANGED <<on, running, due, call, over, nights, moves>>

-----------------------------------------------------------------------------
(* The tick, the owner and the process.                                    *)

\* A due row whose agent is off goes; one that is refused waits for the next tick.  The run is held before
\* the row is deleted, in a write of its own, with no await between; that the write may fail is left out.
\* Mutant of ClearDue: the row stays when its run was started.
ClearDueLate(f) == due' = IF on[f] THEN due ELSE [due EXCEPT ![f] = 0]
ClearDue(f) == due' = [due EXCEPT ![f] = 0]

TickDue(f) ==
  /\ due[f] # 0 /\ ClearDue(f)
  /\ IF on[f] THEN HoldRun(runs, running, f, "event", due[f]) ELSE UNCHANGED <<runs, running>>
  /\ UNCHANGED <<on, call, held, over, nights, moves>>

TickSchedule(a) ==
  /\ on[a] /\ HoldRun(runs, running, a, "schedule", 0)
  /\ UNCHANGED <<on, due, call, held, over, nights, moves>>

Moving == moves < MaxMoves /\ moves' = moves + 1

Turn(a) ==
  /\ Moving
  /\ on' = [on EXCEPT ![a] = ~on[a]] /\ over' = IF on[a] THEN over ELSE over \ {a}
  /\ UNCHANGED <<runs, running, due, call, held, nights>>

\* A run at its ceiling whose agent was not yet turned off leaves no trace of it.
Crash ==
  /\ Moving
  /\ runs' = [i \in Ids |-> [runs[i] EXCEPT !.at = "done"]]
  /\ running' = [a \in Agents |-> 0] /\ call' = [c \in Callers |-> NoCall] /\ held' = {}
  /\ over' = {a \in over : ~on[a]}
  /\ UNCHANGED <<on, due, nights>>

Midnight ==
  /\ Moving /\ nights' = nights + 1
  /\ UNCHANGED <<on, runs, running, due, call, held, over>>

-----------------------------------------------------------------------------

Init ==
  /\ on = [a \in Agents |-> TRUE] /\ runs = <<>> /\ running = [a \in Agents |-> 0]
  /\ due = [a \in Agents |-> 0] /\ call = [c \in Callers |-> NoCall] /\ held = {} /\ over = {}
  /\ nights = 0 /\ moves = 0

Next ==
  \/ \E c \in Callers : CountHeld(c) \/ TakePlace(c) \/ Begin(c)
  \/ \E i \in Ids : \/ WriteStart(i) \/ TurnOff(i) \/ Release(i) \/ Discard(i)
                    \/ EndsUnstarted(i) \/ WriteEnd(i) \/ MeetCeiling(i)
  \/ \E a \in Agents : Press(a) \/ TickDue(a) \/ TickSchedule(a) \/ Turn(a)
  \/ Crash \/ Midnight

Spec == Init /\ [][Next]_vars

-----------------------------------------------------------------------------

Row == [agent : Agents, by : {"manual", "leif", "event", "schedule"}, from : 0..MaxRuns, night : 0..(MaxMoves + 1),
        at : {"held", "started", "ended", "over", "gone", "done"}, well : BOOLEAN]

\* Rows, holds and places have the shape the module keeps, and an agent is held by a run of its own.
TypeOK ==
  /\ on \in [Agents -> BOOLEAN] /\ \A i \in Ids : runs[i] \in Row
  /\ {running, due} \subseteq [Agents -> 0..Len(runs)]
  /\ \A a \in Agents : running[a] # 0 => runs[running[a]].agent = a /\ Going(running[a])
  /\ held \subseteq Callers \cup Ids /\ over \subseteq Agents

\* An end starts a follower once, now or when the follower is due, with that run's result: whatever
\* is refused, put off or lost in between, and whoever runs the follower or its leader meanwhile.
EndHandedOnce ==
  \A i \in Ids : runs[i].by = "event" =>
    LET first == runs[i].from
    IN /\ runs[first].agent = Leader[runs[i].agent] /\ runs[first].well
       /\ due[runs[i].agent] # first
       /\ \A j \in Ids : runs[j].by = "event" /\ runs[j].agent = runs[i].agent /\ runs[j].from = first => j = i

\* Leif starts no more runs in a day than it may, though its calls count off the event loop while
\* runs it started begin and end, and a run that is held has no row yet.
LeifWithinDay == Cardinality(LeifToday) <= Daily

\* After a run met its ceiling no event and no schedule runs its agent, neither before the app has turned it
\* off nor after, until the owner turns it on.  An agent that could not be turned off is let go.
CeilingHolds ==
  [][\A i \in (Len(runs) + 1)..Len(runs') :
       runs'[i].by \in {"event", "schedule"} => runs'[i].agent \notin over]_vars
=============================================================================
