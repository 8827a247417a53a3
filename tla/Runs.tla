-------------------------------- MODULE Runs --------------------------------
(***************************************************************************)
(* One run of an agent, from its `start` to its `end`: a stage of a unit   *)
(* (coscc/runner/step.py, `Runner.run`) or an agent of no stage            *)
(* (coscc/runner/run.py).  A session speaks, calls its tools and hands an  *)
(* object to `submit`; the app writes the artifact from what it said, may  *)
(* ask for it or for the object once more, and writes the `end`.  A Stop,  *)
(* an update that pauses the session, a ceiling a person then raises and   *)
(* the app going down may come at every wait.                              *)
(*                                                                         *)
(* What a session says is a few pieces: a text under the artifact's title, *)
(* a call.  A dollar is a number.  The turns are a ceiling that may be met *)
(* at any end.  Prompts, grants, the events kept, and what the artifact's  *)
(* text holds beside its title are left out.                               *)
(***************************************************************************)
EXTENDS Integers, Sequences

CONSTANTS MaxSaid,  \* bound: pieces of one session
          MaxUsd,   \* bound: dollars spent by all sessions
          MaxRuns,  \* bound: runs, those that go on with a session included
          MaxRev    \* bound: states of the unit's files in one run

\* What the constants are.
RunsConstants == {MaxSaid, MaxUsd, MaxRuns} \subseteq Nat /\ MaxRev \in Nat \ {0}

VARIABLES run,    \* the run that is there
          disk,   \* the artifact: none, one from before this run, or this run's
          rev,    \* how often the unit's files, as `submit` hashes them, changed in this run
          around, \* of a spike: its tree was touched, its progress file is there
          kept,   \* the session an update paused or a ceiling stopped
          money   \* what was billed, where the CLI counts from, and what the ends say together
vars == <<run, disk, rev, around, kept, money>>

Stages == {"prose", "review", "spike", "impl"}
Kinds == Stages \union {"agent"}
AppWrites == Stages \ {"impl"}
Unknown == -1
Ceiling == 1

NoRun == [n |-> 0, kind |-> "agent", at |-> "idle", road |-> "start", stop |-> FALSE, sealed |-> FALSE,
          said |-> <<>>, chan |-> 0, terminal |-> "none", outcome |-> "failed",
          unopened |-> FALSE, withheld |-> FALSE, left |-> Ceiling, most |-> Ceiling, spent |-> Unknown,
          cost |-> Unknown]
NoSession == [how |-> "none", kind |-> "agent", owner |-> "step", said |-> <<>>, spent |-> Unknown,
              most |-> Ceiling, cost |-> Unknown]

-----------------------------------------------------------------------------
(* What is written of what a session said.                                  *)

LastOf(S) == IF S = {} THEN 0 ELSE CHOOSE i \in S : \A j \in S : j <= i

\* The artifact is what follows the last title.
Opens(s) == \E i \in DOMAIN s : s[i] = "title"

\* The safe point: what was said before the last call that has its result.  `all`: the last one has.
Safe(s, all) ==
  LET calls == {i \in DOMAIN s : s[i] = "call"}
      last == LastOf(calls) IN
  SubSeq(s, 1, IF all THEN last ELSE LastOf(calls \ {last}))

-----------------------------------------------------------------------------
(* `_conclude`, without a wait: each gives what the run may be at its next  *)
(* wait.                                                                    *)

\* The last seal.  A Stop that came is the outcome of everything that is not done; with no result
\* message nothing was billed that the app saw.
Sealing(r) ==
  IF r.stop /\ r.outcome # "done"
  THEN [r EXCEPT !.at = "closing", !.outcome = "stopped", !.cost = IF r.terminal = "none" THEN Unknown ELSE @]
  ELSE [r EXCEPT !.at = "closing", !.sealed = ~r.stop]

\* A review's round is written from its object, or the run fails.
Rounds(r) == {Sealing(r)} \union (IF r.kind = "review" THEN {Sealing([r EXCEPT !.outcome = "failed"])} ELSE {})

\* No budget is left for one more turn.
TurnSpent(r) == r.left <= 0

\* A mutant: an object once accepted counts whatever moved since.
SubmittingOldObject(r) ==
  IF r.outcome # "done" THEN {Sealing(r)}
  ELSE IF r.chan # 0 THEN Rounds(r)
  ELSE {IF TurnSpent(r) THEN Sealing([r EXCEPT !.outcome = "failed"]) ELSE [r EXCEPT !.at = "submitting"]}

\* A run that wrote its artifact and holds no object, or one the files moved past, gets one more turn.
Submitting(r) ==
  IF r.outcome # "done" THEN {Sealing(r)}
  ELSE IF r.chan = rev THEN Rounds(r)
  ELSE LET none == [r EXCEPT !.chan = 0] IN
       {IF TurnSpent(r) THEN Sealing([none EXCEPT !.outcome = "failed"]) ELSE [none EXCEPT !.at = "submitting"]}

\* One refused for its opening alone is asked for it again, once.
Repairing(r) ==
  IF r.stop THEN Submitting(r)
  ELSE IF TurnSpent(r) THEN Submitting([r EXCEPT !.sealed = TRUE])
  ELSE {[r EXCEPT !.at = "opening", !.sealed = TRUE]}

Concludes(r) ==
  IF r.kind = "spike" /\ r.outcome = "failed" /\ ~r.withheld /\ ~r.stop THEN {[r EXCEPT !.at = "progress"]}
  ELSE IF r.kind \in {"prose", "review"} /\ r.outcome = "failed" /\ r.unopened THEN Repairing(r)
  ELSE Submitting(r)

-----------------------------------------------------------------------------
(* The reply, once the client is closed.                                    *)

\* Why a reply that came back is not written.
CutShort(terminal) ==
  CASE terminal \in {"turns", "usd"} -> "paused-budget"
    [] terminal = "limit" -> "session-limit"
    [] OTHER -> "none"

Wrote == disk' = "run"

\* Sealed, the artifact is written from what was said, or looked for on disk.  No wait in between.
Writes(r) ==
  LET sealed == [r EXCEPT !.sealed = TRUE]
      done == [sealed EXCEPT !.outcome = "done"] IN
  IF r.stop THEN run' \in Concludes([r EXCEPT !.withheld = TRUE]) /\ UNCHANGED disk
  ELSE IF r.kind = "impl"
  THEN run' \in Concludes(IF disk # "none" THEN done ELSE sealed) /\ UNCHANGED disk
  ELSE \/ ~Opens(r.said) /\ run' \in Concludes([sealed EXCEPT !.unopened = TRUE]) /\ UNCHANGED disk
       \/ Opens(r.said) /\ Wrote /\ run' \in Concludes(done)
       \* `merge_review`: it changes an earlier round, or adds none.
       \/ Opens(r.said) /\ r.kind = "review" /\ run' \in Concludes(sealed) /\ UNCHANGED disk

\* A spike's tree is read first.
ReplyRead(r) ==
  IF CutShort(r.terminal) # "none"
  THEN run' \in Concludes([r EXCEPT !.outcome = CutShort(r.terminal)]) /\ UNCHANGED disk
  ELSE IF r.kind = "spike" THEN run' = [r EXCEPT !.at = "tree"] /\ UNCHANGED disk
  ELSE Writes(r)

-----------------------------------------------------------------------------
(* A run begins.                                                            *)

Total == money.billed - money.base
Begins == kept' = NoSession /\ rev' = 1

\* With the session's client a new process of the CLI, which counts its ceilings from zero.
Opening == money' = [money EXCEPT !.opened = money.billed]

\* `run_step`, or a run of `run.run`: a new session.  A spike's tree is read before it opens.
Start(kind) ==
  /\ run.at = "idle" /\ kept.how # "suspended" /\ run.n < MaxRuns
  /\ Begins /\ run' = [NoRun EXCEPT !.n = run.n + 1, !.kind = kind, !.at = "main"]
  /\ around' = [touched |-> FALSE, noted |-> FALSE] /\ UNCHANGED disk
  /\ money' = [money EXCEPT !.opened = money.billed, !.base = money.billed]

\* What a kept session goes on from.
GoesOn(road, most) ==
  [NoRun EXCEPT !.n = run.n + 1, !.kind = kept.kind, !.at = "main", !.road = road, !.said = kept.said,
                !.most = most, !.left = IF kept.spent = Unknown THEN most ELSE most - kept.spent,
                !.spent = kept.spent, !.cost = IF kept.kind = "agent" THEN Unknown ELSE kept.spent]

\* What `run.run` ends as, and what of it is left to wait for.
Judged(r, outcome) == [r EXCEPT !.at = "finishing", !.outcome = outcome]

\* A ceiling used up opens no session.
UsedUp(r, terminal) ==
  IF r.kind = "agent" THEN run' = [Judged(r, "paused-budget") EXCEPT !.terminal = terminal]
  ELSE run' \in Concludes([r EXCEPT !.terminal = terminal, !.outcome = "paused-budget"])

TakesUp(road, most) ==
  /\ run.at = "idle" /\ run.n < MaxRuns /\ Begins /\ UNCHANGED around
  /\ LET r == GoesOn(road, most) IN
     IF kept.owner = "opening"
     THEN \* The main reply ended before the update: it is read again, and its turn taken up.
          ReplyRead([r EXCEPT !.terminal = "done", !.cost = kept.cost])
     ELSE /\ UNCHANGED disk
          /\ \/ r.left <= 0 /\ UsedUp(r, "usd")
             \/ r.left > 0 /\ (run' = r \/ UsedUp(r, "turns"))

\* `resume_after_update`.  A CLI killed without its `cost-state` counts from zero.
Resume ==
  /\ kept.how = "suspended" /\ kept.owner \in {"step", "opening"}
  /\ TakesUp(IF kept.owner = "step" THEN "resumed" ELSE "opening", kept.most)
  /\ money' = [money EXCEPT !.opened = money.billed, !.base = IF kept.spent = Unknown THEN money.billed ELSE @]

\* `_raised`, `raise_step`: only a stage, the ceiling it hit, and above what it spent.
Raise(most) ==
  /\ kept.kind # "agent"
  /\ \/ kept.how = "usd" /\ most > kept.most /\ most > kept.spent
     \/ kept.how = "turns" /\ most >= kept.most
  /\ TakesUp("raised", most) /\ Opening

\* `_end_unresumed`: a directory, a transcript or a safe point that is gone, or a kind no owner takes.
Refuse ==
  /\ kept.how = "suspended" /\ kept' = NoSession
  /\ money' = [money EXCEPT !.sum = @ + (IF kept.spent = Unknown THEN 0 ELSE kept.spent)]
  /\ UNCHANGED <<run, disk, rev, around>>

-----------------------------------------------------------------------------
(* The session works.                                                       *)

Works == run.at \in {"main", "opening", "submitting"}
Spends == Works /\ money.billed < MaxUsd /\ money' = [money EXCEPT !.billed = @ + 1]
          /\ UNCHANGED <<run, disk, rev, around, kept>>

Talks == run.at = "main" /\ Len(run.said) < MaxSaid
Says(what) ==
  /\ Talks /\ run.kind \in AppWrites
  /\ run' = [run EXCEPT !.said = Append(@, what)]
  /\ UNCHANGED <<disk, rev, around, kept, money>>

\* `Channel.handle`: the last object it accepts counts.  It may be refused for what it says.
Accepts == run.kind = "impl" => disk # "none"
Submits(accepted) ==
  /\ run.at = "main" /\ accepted => Accepts
  /\ IF run.kind \in AppWrites
     THEN /\ Talks
          /\ run' = [run EXCEPT !.said = Append(@, "call"), !.chan = IF accepted THEN rev ELSE @]
     ELSE accepted /\ run' = [run EXCEPT !.chan = rev]
  /\ UNCHANGED <<disk, rev, around, kept, money>>

\* `impl` writes its file itself.
WritesFile ==
  /\ run.at = "main" /\ run.kind = "impl" /\ rev < MaxRev
  /\ Wrote /\ rev' = rev + 1
  /\ UNCHANGED <<run, around, kept, money>>

\* A spike notes its progress, or changes the tree it was only to read.
Touches(what) ==
  /\ run.at = "main" /\ run.kind = "spike" /\ around' = [around EXCEPT ![what] = TRUE]
  /\ UNCHANGED <<run, disk, rev, kept, money>>

\* A person answers in another file of the unit.
Answered ==
  /\ run.at # "idle" /\ run.kind # "agent" /\ rev < MaxRev /\ rev' = rev + 1
  /\ UNCHANGED <<run, disk, around, kept, money>>

\* How the CLI says it stopped.
Terminals == IF money.billed - money.opened >= run.left THEN {"usd"} ELSE {"done", "turns", "limit"}
TurnTerminals == {"done", "turns", "usd", "limit", "none"}

Replies ==
  /\ run.at = "main"
  /\ \E t \in Terminals : run' = [run EXCEPT !.at = "shut", !.terminal = t, !.cost = Total]
  /\ UNCHANGED <<disk, rev, around, kept, money>>

\* The client is closed, and the run goes on.
Replied ==
  /\ run.at = "shut"
  /\ IF run.kind = "agent"
     THEN /\ run' = Judged(run, IF CutShort(run.terminal) # "none" THEN CutShort(run.terminal)
                                ELSE IF run.chan = 0 THEN "failed" ELSE "done")
          /\ UNCHANGED disk
     ELSE ReplyRead(run)
  /\ UNCHANGED <<rev, around, kept, money>>

\* The session, or a read of the tree, raised.
Breaks ==
  /\ run.at \in {"main", "shut", "tree"}
  /\ IF run.kind = "agent" THEN run' = Judged(run, "failed")
     ELSE run' \in Concludes([run EXCEPT !.outcome = IF CutShort(run.terminal) = "paused-budget"
                                                    THEN "paused-budget" ELSE "failed"])
  /\ UNCHANGED <<disk, rev, around, kept, money>>

TreeRead ==
  /\ run.at = "tree"
  /\ IF around.touched THEN run' \in Concludes([run EXCEPT !.withheld = TRUE]) /\ UNCHANGED disk
     ELSE Writes(run)
  /\ UNCHANGED <<rev, around, kept, money>>

-----------------------------------------------------------------------------
(* The waits of `_conclude`.                                                *)

\* A mutant: the tree is not read again.
ProgressReadOnce ==
  /\ run.at = "progress"
  /\ run' \in Concludes([run EXCEPT !.withheld = TRUE, !.sealed = ~run.stop])
  /\ \/ UNCHANGED disk
     \/ ~run.stop /\ around.noted /\ Wrote
  /\ UNCHANGED <<rev, around, kept, money>>

\* `_from_progress`: the tree is read again, or could not be; the run stays failed.
ProgressRead ==
  /\ run.at = "progress"
  /\ run' \in Concludes([run EXCEPT !.withheld = TRUE, !.sealed = ~run.stop /\ ~around.touched])
  /\ \/ UNCHANGED disk
     \/ ~around.touched /\ ~run.stop /\ around.noted /\ Wrote
  /\ UNCHANGED <<rev, around, kept, money>>

\* The repair of an opening: one turn with no tools, written as every reply is.
Repaired ==
  /\ run.at = "opening"
  /\ \/ \E t \in TurnTerminals :
          LET r == [run EXCEPT !.cost = IF t = "none" THEN @ ELSE Total] IN
          \/ run' \in Submitting(r) /\ UNCHANGED disk
          \/ /\ CutShort(t) # "paused-budget" /\ Wrote
             /\ run' \in Submitting([r EXCEPT !.outcome = "done"])
  /\ UNCHANGED <<rev, around, kept, money>>

\* The repair of a missing object: one turn with `submit` alone.
HandsBack ==
  /\ run.at = "submitting" /\ run' = [run EXCEPT !.chan = rev]
  /\ UNCHANGED <<disk, rev, around, kept, money>>

Resubmitted ==
  /\ run.at = "submitting"
  /\ \E t \in TurnTerminals :
       LET r == [run EXCEPT !.cost = IF t = "none" THEN @ ELSE Total] IN
       run' \in IF CutShort(t) # "paused-budget" /\ r.chan = rev THEN Rounds(r)
                ELSE {Sealing([r EXCEPT !.outcome = "failed", !.chan = 0])}
  /\ UNCHANGED <<disk, rev, around, kept, money>>

\* It raised, or took `OPENING_TIMEOUT`: what it handed in does not count.
TurnBreaks ==
  /\ run.at \in {"opening", "submitting"} /\ run' = Sealing([run EXCEPT !.outcome = "failed"])
  /\ UNCHANGED <<disk, rev, around, kept, money>>

\* What an estimate writes, or Gebo reads of GitHub, before the `end`; it may fail the run.
Finished ==
  /\ run.at = "finishing"
  /\ run' \in {[run EXCEPT !.at = "closing"], [run EXCEPT !.at = "closing", !.outcome = "failed"]}
  /\ UNCHANGED <<disk, rev, around, kept, money>>

\* A stopped stage's tree and transcript are captured first.
Closed ==
  /\ run.at = "closing" /\ run.kind # "agent" /\ run.outcome # "done"
  /\ run' = [run EXCEPT !.at = "capturing"]
  /\ UNCHANGED <<disk, rev, around, kept, money>>

-----------------------------------------------------------------------------
(* A run ends.                                                              *)

Gone == run' = [NoRun EXCEPT !.n = run.n] /\ disk' = IF disk = "run" THEN "before" ELSE disk

\* A raised run's own share of the session's total, so a sum over ends counts each dollar once.
Share(r) ==
  IF r.cost = Unknown THEN 0
  ELSE IF r.road = "raised" /\ r.spent # Unknown THEN r.cost - r.spent ELSE r.cost

Ends(outcome) ==
  /\ Gone
  /\ money' = [money EXCEPT !.sum = @ + Share(run)]
  /\ IF outcome = "paused-budget"
     THEN \E all \in BOOLEAN :
            kept' = [NoSession EXCEPT !.how = run.terminal, !.kind = run.kind, !.said = Safe(run.said, all),
                                      !.spent = run.cost, !.most = run.most]
     ELSE kept' = NoSession

\* A run that goes with no `end`.
Lost == Gone /\ UNCHANGED <<kept, money>>

End ==
  /\ \/ run.at = "capturing"
     \/ run.at = "closing" /\ (run.outcome = "done" \/ run.kind = "agent")
  /\ Ends(run.outcome) /\ UNCHANGED <<rev, around>>

\* `suspend_all`: the stream raises `Suspended`, and its `suspend` row is the end.  What the session
\* said and cost is read from its transcript.
Suspend ==
  /\ Works /\ Gone
  /\ \E all \in BOOLEAN, spent \in {Total, Unknown} :
       kept' = [how |-> "suspended", kind |-> run.kind, said |-> Safe(run.said, all), spent |-> spent,
                owner |-> IF run.at = "main" THEN "step" ELSE run.at,
                most |-> run.most, cost |-> run.cost]
  /\ UNCHANGED <<rev, around, money>>

\* `stop_running` before the seal: the session is closed, then the task cancelled.  While the runner
\* closes the client itself, the runner is the first to go on.
StopAsks ==
  /\ run.at \in {"main", "shut", "tree", "progress"} /\ run.kind # "agent" /\ ~run.stop /\ ~run.sealed
  /\ LET r == [run EXCEPT !.stop = TRUE] IN
     \/ run.at = "shut" /\ run' = r
     \/ run.at = "progress" /\ run' \in Concludes([r EXCEPT !.withheld = TRUE])
     \/ run.at # "progress" /\ run' \in Concludes([r EXCEPT !.outcome = "stopped"])
  /\ UNCHANGED <<disk, rev, around, kept, money>>

\* The cancel of a Stop whose close of the client came late, or of a second press: taken back where the
\* run waits, but not while its events are closed, where the run goes with no `end`.
StopLands ==
  /\ run.stop
  /\ \/ /\ \/ run.at = "tree" /\ run' \in Concludes([run EXCEPT !.outcome = "stopped"])
           \/ run.at = "progress" /\ run' \in Concludes([run EXCEPT !.withheld = TRUE])
        /\ UNCHANGED <<disk, kept, money>>
     \/ run.at = "closing" /\ Lost
  /\ UNCHANGED <<rev, around>>

\* A run of no stage that is cancelled writes its `end`, unless its events are being closed.
Cancelled ==
  /\ run.kind = "agent"
  /\ \/ run.at \in {"main", "shut", "finishing"} /\ Ends("cancelled")
     \/ run.at = "closing" /\ Lost
  /\ UNCHANGED <<rev, around>>

\* The app goes down, or its process dies: no `end`, but for what is only being captured.
GoesDown ==
  /\ run.at # "idle"
  /\ Lost \/ (run.at = "capturing" /\ Ends(run.outcome))
  /\ UNCHANGED <<rev, around>>

-----------------------------------------------------------------------------
Init ==
  /\ run = NoRun /\ kept = NoSession /\ rev = 1
  /\ disk = "none"
  /\ around = [touched |-> FALSE, noted |-> FALSE]
  /\ money = [billed |-> 0, base |-> 0, opened |-> 0, sum |-> 0]

Next ==
  \/ \E k \in Kinds : Start(k)
  \/ Resume
  \/ \E most \in 1..MaxUsd + 1 : Raise(most)
  \/ Refuse
  \/ Spends
  \/ \E what \in {"title", "call"} : Says(what)
  \/ \E ok \in BOOLEAN : Submits(ok)
  \/ WritesFile
  \/ \E what \in {"touched", "noted"} : Touches(what)
  \/ Answered
  \/ Replies \/ Replied \/ Breaks \/ TreeRead \/ ProgressRead
  \/ Repaired \/ HandsBack \/ Resubmitted \/ TurnBreaks
  \/ Finished \/ Closed \/ End
  \/ Suspend \/ StopAsks \/ StopLands \/ Cancelled \/ GoesDown

Spec == Init /\ [][Next]_vars

-----------------------------------------------------------------------------
\* The type of every variable.
TypeOK ==
  /\ run.n \in 0..MaxRuns /\ run.kind \in Kinds /\ run.road \in {"start", "resumed", "opening", "raised"}
  /\ run.at \in {"idle", "main", "shut", "tree", "progress", "opening", "submitting", "finishing",
                 "closing", "capturing"}
  /\ Len(run.said) <= MaxSaid /\ run.chan \in 0..MaxRev /\ rev \in 1..MaxRev
  /\ run.outcome \in {"failed", "done", "stopped", "paused-budget", "session-limit"}
  /\ kept.how \in {"none", "suspended", "turns", "usd"} /\ kept.kind \in Kinds
  /\ kept.owner \in {"step", "opening", "submitting"}
  /\ disk \in {"none", "before", "run"} /\ money.billed \in 0..MaxUsd

\* A stage is `done` only with its artifact there, written by this very run where the app writes it,
\* with an object of `submit` for the unit's files as they are, and with no Stop asked before the
\* seal: whichever of the reply, the repair of its opening or the turn for its object came last
\* (`Runner.run`, `_conclude`).
DoneIsSound ==
  [][(run.at # "closing" /\ run'.at = "closing" /\ run'.outcome = "done" /\ run'.kind # "agent") =>
       /\ run'.chan = rev' /\ ~run'.stop
       /\ disk' = "run" \/ (run'.kind = "impl" /\ disk' # "none")]_vars

\* A run that a Stop reached before the seal, and a spike whose session touched the tree it was only
\* to read, leave the artifact as it was, on every road to it: the reply, the progress file, the
\* repair (`seal`, `describe_tree_change`).
Withheld ==
  [][(disk' # disk /\ disk' = "run" /\ run'.kind # "impl") =>
       ~run'.stop /\ (run'.kind = "spike" => ~around.touched)]_vars

\* "So a sum over ends counts each dollar once" (`_conclude`): the ends together never say more than
\* what was billed.  The code breaks it: the `suspend` row of a raised run does not say it was raised.
EachDollarOnce == money.sum <= money.billed
=============================================================================
