------------------------------ MODULE MCParts -------------------------------
(***************************************************************************)
(* Parts that share no state of their own, side by side: the loop's rules, *)
(* the autopilot, the triggers, the trunk's fetches, the held board, the   *)
(* wheels of an update and a branch being integrated.  A behaviour is one  *)
(* of one of them; the others stay as they began.                          *)
(***************************************************************************)
EXTENDS Fetches, Sequences

CONSTANTS Findings, Marks, Patches, Limit, MaxCommits, MaxRounds, MaxMoves,
          Units, MaxTries, Places, MaxWakes, MaxStarts,
          Agents, Leader, Delayed, LeifCalls, Daily, MaxRuns,
          Askers, MaxChanges, MaxFails,
          MaxPublic, Locals,
          MaxTrunk, MaxMade

VARIABLES part,
          status, stale, waiting, hold, rounds, granted, claims, answers, line, patch, local, remote,
          origin, ci, behind, pr, merge, shipped, job, moves,
          on, wake, asked, taken, pass, log, here, chosen, step, last, tries, noted, refused, named,
          unread, blind, starts, acts,
          enabled, runs, running, due, tool, held, over, nights, events,
          changes, read, saw, again, board, asker, need, handed, told, fails,
          disk, fetch, lock, check, shown, building, apply, channel, target, rebuilt, version,
          installed, boot, lastRow, unsaid,
          trunk, main, tip, owed, tree, opened, pushed, at, got, commits, mine, swept

MarksV == {<<"open", "high">>, <<"open", "low">>, <<"fixed", "high">>, <<"answered", "high">>, <<"needs-person", "high">>}

L == INSTANCE Loop

A == INSTANCE Autopilot WITH waiting <- wake, loop <- named, moves <- acts

LeaderV == [a \in Agents |-> "lead"]
T == INSTANCE Triggers WITH Callers <- LeifCalls, on <- enabled, call <- tool, moves <- events

B == INSTANCE Boards WITH held <- board

LocalsV == {[public |-> 1, build |-> 1], [public |-> 2, build |-> 1]}
W == INSTANCE Wheels WITH running <- version

I == INSTANCE Integrations WITH pr <- tip, asked <- owed, last <- pushed

ASSUME PartsAssumption ==
  /\ L!LoopConstants
  /\ A!AutopilotConstants
  /\ T!TriggersConstants
  /\ B!BoardsConstants
  /\ W!WheelsConstants
  /\ I!IntegrationsConstants

lVars == <<status, stale, waiting, hold, rounds, granted, claims, answers, line, patch, local, remote,
           origin, ci, behind, pr, merge, shipped, job, moves>>
aVars == <<on, wake, asked, taken, pass, log, here, chosen, step, last, tries, noted, refused, named,
           unread, blind, starts, acts>>
tVars == <<enabled, runs, running, due, tool, held, over, nights, events>>
bVars == <<changes, read, saw, again, board, asker, need, handed, told, fails>>
wVars == <<disk, fetch, lock, check, shown, building, apply, channel, target, rebuilt, version,
           installed, boot, lastRow, unsaid>>
iVars == <<trunk, main, tip, owed, tree, opened, pushed, at, got, commits, mine, swept>>
partVars == <<part, vars, lVars, aVars, tVars, bVars, wVars, iVars>>

\* A part that is not looked at has one initial state.  The triggers are looked at twice: with calls
\* of Leif's tool, where a run less is held, and without.
PartsInit ==
  /\ part \in {"loop", "autopilot", "triggers", "leif", "fetches", "boards", "wheels", "integration"}
  /\ L!Init /\ (part # "loop" => ~waiting)
  /\ A!Init /\ (part # "autopilot" => ~on /\ \A u \in Units : named[u] = "none")
  /\ T!Init /\ Init /\ B!Init /\ W!Init /\ I!Init

PartsNext ==
  \/ part = "loop" /\ L!Next /\ UNCHANGED <<part, vars, aVars, tVars, bVars, wVars, iVars>>
  \/ part = "autopilot" /\ A!Next /\ UNCHANGED <<part, vars, lVars, tVars, bVars, wVars, iVars>>
  \/ part \in {"triggers", "leif"} /\ T!Next /\ UNCHANGED <<part, vars, lVars, aVars, bVars, wVars, iVars>>
     /\ IF part = "leif" THEN Len(runs') < MaxRuns ELSE UNCHANGED tool
  \/ part = "fetches" /\ Next /\ UNCHANGED <<part, lVars, aVars, tVars, bVars, wVars, iVars>>
  \/ part = "boards" /\ B!Next /\ UNCHANGED <<part, vars, lVars, aVars, tVars, wVars, iVars>>
  \/ part = "wheels" /\ W!Next /\ UNCHANGED <<part, vars, lVars, aVars, tVars, bVars, iVars>>
  \/ part = "integration" /\ I!Next /\ UNCHANGED <<part, vars, lVars, aVars, tVars, bVars, wVars>>

PartsSpec == PartsInit /\ [][PartsNext]_partVars

\* A part that is not looked at stays as it began, so each statement is about the part at work.
\* Every part has the types of its module.
PartsTypeOK ==
  CASE part = "loop" -> L!TypeOK
    [] part = "autopilot" -> A!TypeOK
    [] part \in {"triggers", "leif"} -> T!TypeOK
    [] part = "fetches" -> TypeOK
    [] part = "boards" -> B!TypeOK
    [] part = "wheels" -> W!TypeOK
    [] part = "integration" -> I!TypeOK

\* Of Loop: what is merged is what a round passed, with every finding rated high dealt with.
MergedWasReviewed == part = "loop" => L!MergedWasReviewed

\* Of Loop: a stage the loop names is one its gate lets through.
NamedIsOpen == part = "loop" => L!NamedIsOpen

\* Of Loop: a unit that is not over stands where something can move it on.
SomeoneCanMove == part = "loop" => L!SomeoneCanMove

\* Of Autopilot: what a wake told of is read by a pass that begins after it.
WakeIsServed == part = "autopilot" => A!WakeIsServed

\* Of Autopilot: on one head, and after a step that failed, it tries again a bounded number of times.
RetriesBounded == part = "autopilot" => A!RetriesBounded

\* Of Triggers: an agent's end starts each follower once, with that end's result.
EndHandedOnce == part \in {"triggers", "leif"} => T!EndHandedOnce

\* Of Triggers: Leif starts no more runs a day than it may.
LeifWithinDay == part \in {"triggers", "leif"} => T!LeifWithinDay

\* Of Triggers: an agent that met its ceiling runs by no event or schedule until it is turned on.
CeilingHolds == T!CeilingHolds

\* Of Boards: who asks for a new board is handed one, and a change told is shown or being read.
BoardIsCurrent == part = "boards" => B!BoardIsCurrent

\* Of Wheels: what `finish` was handed is on disk, checked, and not older.
HandedIsSound == part = "wheels" => W!HandedIsSound

\* Of Wheels: a local build that runs keeps its own wheel to go back to.
WayBack == part = "wheels" => W!WayBack

\* Of Integrations: no push takes the pull request back to an older `main` or from a commit it had.
NothingPushedBack == I!NothingPushedBack

\* Of Integrations: a commit made in the tree is not lost to an integration.
LocalWorkKept == part = "integration" => I!LocalWorkKept
=============================================================================
