-------------------------------- MODULE Loop --------------------------------
(***************************************************************************)
(* The loop's rules (coscc/loop/): which stage a unit runs next, whether a *)
(* stage's gate is open, when its review is over and what may be merged.   *)
(* They keep no state.  Each answer is worked out again from the unit's    *)
(* rows, the repository and the pull request, so here they are operators   *)
(* over the variables that stand for those, and the actions are what       *)
(* changes them while nobody asks the rules: sessions that may answer      *)
(* anything their `submit` accepts, the owner, GitHub and other people.    *)
(*                                                                         *)
(* Commits of the branch are numbered in the order they are made.  One is  *)
(* on another's line when it was made on top of it, and a rewrite begins a *)
(* line; a patch stands for what the branch changes outside `.cos/`.  The  *)
(* process is the part every built-in one ends with, behind one stage that *)
(* stands for those before it.  Stages that only the owner may skip, the   *)
(* spike, the fast lane, findings about screens and a merge made outside   *)
(* the app are left out.  What happens to the branch and the trunk while   *)
(* the pull request is closed counts from when one is open again.          *)
(***************************************************************************)
EXTENDS Naturals, Sequences, FiniteSets

CONSTANTS Findings,
          Marks,       \* how a review may list a finding: <<label, severity>>
          Patches,     \* bound: what a branch may change
          Limit,       \* `REVIEW_ROUNDS`
          MaxCommits,  \* bound: commits of the branch
          MaxRounds,   \* bound: review rounds
          MaxMoves     \* bound: moves of the owner and of people outside the app

\* What the constants are.
LoopConstants ==
  /\ {MaxCommits, MaxRounds, Limit} \subseteq Nat \ {0} /\ MaxMoves \in Nat
  /\ Marks \subseteq {"open", "fixed", "answered", "needs-person", "claim-rejected"} \X {"low", "high"}

VARIABLES status,   \* of the artifact of each stage but `ship`
          stale,    \* stages a rerun named whose artifact is still the one it named
          waiting,  \* whether a unit this one depends on is not merged
          hold,     \* the fold of the unit's holds (`fold_holds`)
          rounds,   \* the review rounds the app recorded
          granted,  \* rounds the owner added
          claims,   \* findings the last impl says only a person can close
          answers,  \* findings a person answered in review.md
          line,     \* of each commit
          patch,    \* of each commit
          local,    \* the branch in the unit's worktree
          remote,   \* the head of the pull request on GitHub
          origin,   \* `origin/<branch>`, the head this repository last saw
          ci,       \* the required checks of that head
          behind,   \* whether `origin/main` holds commits the head does not
          pr,       \* the pull request on GitHub
          merge,    \* the row of the last merge asked for, and whether the machine still follows it
          shipped,  \* whether the unit's merge is recorded
          job,      \* the review or ship that runs
          moves     \* history: moves made, at most MaxMoves

branch == <<line, patch, local, remote, origin, ci>>
review == <<rounds, granted, claims, answers>>
github == <<behind, pr, merge, shipped>>
vars == <<status, stale, waiting, hold, review, branch, github, job, moves>>

Stages == <<"plan", "impl", "pr", "review", "ship">>
Before(s) == {Stages[i] : i \in {j \in 1..5 : \E k \in (j + 1)..5 : Stages[k] = s}}
Commits == 1..Len(line)
Settled(s) == status[s] = "accepted"
Stale(s) == s \in stale /\ Settled(s)
NoJob == [at |-> "idle", head |-> 0]

\* The pull request the machine follows, which the reader watches: recorded `open` or `merge-requested`.
\* Mutant of Watched: one whose merge was asked for is left to the step that asked.
WatchedOpen == Settled("pr") /\ ~merge.asked
Watched == Settled("pr")

-----------------------------------------------------------------------------
(* Review rounds and their findings.                                       *)

Last == rounds[Len(rounds)]
Listed(i) == DOMAIN rounds[i].found
Label(f) == Last.found[f][1]

\* The numbers and the commits of rounds are the app's own, so of `round_fault`'s three faults only
\* this one can be a session's: a round that leaves out what an earlier one raised.
DroppedOf(i) == (UNION {Listed(j) : j \in 1..(i - 1)}) \ Listed(i)
Faulty(i) == DroppedOf(i) # {}
Fault == rounds # <<>> /\ Faulty(Len(rounds))

RoundsUsed == Cardinality({i \in 1..Len(rounds) : rounds[i].verdict = "changes-requested" /\ ~Faulty(i)})
ReviewLimit == Limit + granted
OutOfRounds == status["review"] = "changes-requested" /\ RoundsUsed >= ReviewLimit

\* `severity_rule`: a low finding left open does not block, unless an earlier round rated it higher.
RatedHigher == {f \in Findings : \E i \in 1..(Len(rounds) - 1) : f \in Listed(i)
                                                                 /\ rounds[i].found[f][2] = "high"}
Low == {f \in DOMAIN Last.found : Last.found[f] = <<"open", "low">>}
NonBlocking == Low \ RatedHigher
Demoted == Low \cap RatedHigher

AnsweredBy(f) == Label(f) = "answered" /\ f \in answers
Open == {f \in DOMAIN Last.found : Label(f) # "fixed" /\ ~AnsweredBy(f)} \ Low

\* `person_findings`: what a needs-person round awaits a person on, {} when it awaits none.
PersonFindings ==
  IF /\ status["review"] = "changes-requested" /\ rounds # <<>> /\ Last.verdict = "needs-person"
     /\ \A f \in DOMAIN Last.found :
          Label(f) \in {"fixed", "needs-person"} \/ AnsweredBy(f) \/ f \in NonBlocking
  THEN {f \in DOMAIN Last.found : Label(f) = "needs-person"}
  ELSE {}

Judged == {f \in Findings : \E i \in 1..Len(rounds) : f \in Listed(i)
             /\ rounds[i].found[f][1] \in {"needs-person", "claim-rejected", "answered"}}

EveryOpenClaimed ==
  LET open == {f \in DOMAIN Last.found : Label(f) = "open"} \ NonBlocking
  IN /\ Last.verdict = "changes-requested" /\ open # {} /\ open \subseteq claims \ Judged
     /\ \A f \in DOMAIN Last.found : Label(f) # "claim-rejected" /\ (Label(f) = "answered" => f \in answers)

-----------------------------------------------------------------------------
(* What the gates ask git and GitHub.                                      *)

Ancestor(a, b) == a <= b /\ line[a] = line[b]

\* `changed_since` and `rebase_clean`: the branch moved past commit `a` when files changed on top of
\* it, or when it was rewritten into another patch; a rewrite into the same one is a clean rebase.
Moved(a, b) == patch[a] # patch[b]
CleanRebase(a, b) == ~Ancestor(a, b) /\ ~Moved(a, b)

Known == remote \in {origin, local} \/ Ancestor(remote, local)

\* `evaluate` of the stages before this one, of holds and of dependencies.
FilesOpen(s) ==
  /\ hold = "active"
  /\ \A b \in Before(s) : Settled(b) /\ ~Stale(b)
  /\ s = "impl" => ~waiting

\* `review_needs` asks for the checks of the recorded pull request, and not whether that is open.
ReviewGate == IF ~FilesOpen("review") \/ pr = "none" \/ OutOfRounds THEN "closed" ELSE ci

PassStands == Last.verdict = "pass" /\ Open = {} /\ Demoted = {} /\ DroppedOf(Len(rounds)) = {}

\* `ship_needs`, by its first reason.
ShipGate ==
  IF ~FilesOpen("ship") \/ rounds = <<>> \/ ~PassStands \/ pr \in {"none", "closed"} THEN "closed"
  ELSE IF pr = "merged" THEN "recording"
  ELSE IF ~Known THEN "closed"
  ELSE IF \E ref \in {local, origin, remote} : Moved(Last.head, ref) THEN "moved"
  ELSE IF CleanRebase(Last.head, remote) /\ ci # "green" THEN ci
  ELSE IF behind THEN "behind"
  ELSE IF ~Last.screens THEN "screens"
  ELSE "open"

\* `pass_left_closed`: the pass left ship closed for what one more round may cure.
LeftClosed ==
  /\ Last.verdict = "pass"
  /\ \/ ShipGate = "moved" /\ remote # Last.head /\ Ancestor(remote, Last.head)
     \/ ShipGate = "screens"

\* The round before passed on the same head: that one more round has been.
Stuck ==
  /\ LeftClosed /\ Len(rounds) > 1
  /\ LET prev == rounds[Len(rounds) - 1]
     IN prev.verdict = "pass" /\ Ancestor(prev.head, Last.head) /\ ~Moved(prev.head, Last.head)

-----------------------------------------------------------------------------
(* The next stage (`decide`, `step_of`).                                   *)

\* Why the unit stands at stage `s`, "none" when it is past it.
WhyAt(s) ==
  IF s = "ship"
  THEN IF merge.round = 0 THEN "missing" ELSE IF merge.refused THEN "ship-refused" ELSE "ship-merging"
  ELSE IF status[s] = "none" THEN "missing"
  ELSE IF Stale(s) THEN "stale"
  ELSE IF s = "review" /\ Fault
  THEN IF RoundsUsed >= ReviewLimit THEN "needs-person" ELSE "review-incomplete"
  ELSE IF status[s] = "draft" THEN "draft"
  ELSE IF status[s] # "changes-requested" THEN "none"
  ELSE IF RoundsUsed >= ReviewLimit THEN "needs-person"
  ELSE IF PersonFindings = {} THEN "changes-requested"
  ELSE IF PersonFindings \subseteq answers THEN "person-answered"
  ELSE "awaits-person"

StageAt == LET at == {i \in 1..5 : WhyAt(Stages[i]) # "none"}
           IN Stages[CHOOSE i \in at : \A j \in at : i <= j]
Why == IF shipped THEN "finished" ELSE IF hold # "active" THEN hold ELSE WhyAt(StageAt)

OnReview == CASE ReviewGate = "green" -> "review" [] ReviewGate = "red" -> "impl" [] OTHER -> "none"
Again == IF Stuck THEN "none" ELSE OnReview

OnShip(mayMerge) ==
  LET gate == ShipGate
  IN CASE gate = "recording" -> "ship"
       [] gate = "open" -> (IF mayMerge THEN "ship" ELSE "none")
       [] gate \in {"moved", "screens"} -> Again
       [] gate = "red" -> "impl"
       [] OTHER -> "none"

\* Whose turn a round that asked for changes leaves it: the fix is told from none by what reached
\* the pull request after the commit that was reviewed.
OnChanges ==
  IF EveryOpenClaimed THEN OnReview
  ELSE IF pr # "open" \/ ~Known THEN "none"
  ELSE IF Moved(Last.head, remote) THEN OnReview ELSE "impl"

Step ==
  LET why == Why
      stage == StageAt
  IN CASE why \in {"missing", "stale"} /\ stage = "review" -> OnReview
       [] why = "missing" /\ stage = "ship" -> OnShip(TRUE)
       [] why \in {"missing", "stale"} /\ stage \in {"plan", "impl", "pr"} -> stage
       [] why = "ship-merging" -> (IF ShipGate = "recording" THEN "ship" ELSE "none")
       [] why = "ship-refused" -> OnShip(merge.round < Len(rounds) \/ CleanRebase(Last.head, remote))
       [] why \in {"person-answered", "review-incomplete"} -> OnReview
       [] why = "changes-requested" -> OnChanges
       [] OTHER -> "none"

\* Mutant of NextStage: the answer is not asked about dependencies.
NextStageNow == Step
\* `wait_on_dependencies`: a stage that waits on another unit's merge is not named before it.
NextStage == IF Step = "impl" /\ waiting THEN "none" ELSE Step

-----------------------------------------------------------------------------
(* Sessions.  One that nothing else can tell from its end is one action.   *)

Quiet == job.at = "idle" /\ ~shipped
Room == moves < MaxMoves
Moving == Room /\ moves' = moves + 1

Unstale(s) == stale' = stale \ {s}
Commit(l, p) == Len(line) < MaxCommits /\ line' = Append(line, l) /\ patch' = Append(patch, p)

Pushed(c) == remote' = c /\ origin' = c /\ ci' = "pending"

Plan ==
  /\ Quiet /\ FilesOpen("plan") /\ ~Settled("plan")
  /\ \E to \in {"accepted", "draft"} : status' = [status EXCEPT !["plan"] = to]
  /\ Unstale("plan")
  /\ UNCHANGED <<waiting, hold, review, branch, github, job, moves>>

\* It goes where the loop names it, or on with its draft; it builds on what the pull request holds
\* and may leave its commit unpushed.
Impl ==
  /\ Quiet /\ FilesOpen("impl") /\ (NextStage = "impl" \/ (Why = "draft" /\ StageAt = "impl"))
  /\ \E to \in {"accepted", "draft"} : status' = [status EXCEPT !["impl"] = to]
  /\ Unstale("impl")
  /\ LET open == IF rounds = <<>> THEN {} ELSE {f \in DOMAIN Last.found : Label(f) = "open"}
     IN \E c \in SUBSET open : claims' = c
  /\ \/ UNCHANGED branch
     \/ /\ \E p \in Patches : Commit(IF remote = 0 THEN 1 ELSE line[remote], p)
        /\ local' = Len(line) + 1
        /\ IF pr # "open" THEN UNCHANGED <<remote, origin, ci>>
           ELSE Pushed(Len(line) + 1) \/ UNCHANGED <<remote, origin, ci>>
  /\ UNCHANGED <<waiting, hold, rounds, granted, answers, github, job, moves>>

\* The machine opens a pull request, or takes the one that is open, unless it follows one already:
\* then it answers `already` and records nothing.
MayOpen == ~Settled("pr")
OpenPr ==
  /\ Quiet /\ FilesOpen("pr") /\ MayOpen
  /\ local > 0 /\ (remote > 0 => Ancestor(remote, local))  \* git refuses any other push
  /\ status' = [status EXCEPT !["pr"] = "accepted"] /\ Unstale("pr") /\ pr' = "open"
  /\ merge' = [merge EXCEPT !.asked = FALSE]
  /\ IF remote = local THEN UNCHANGED <<remote, origin, ci>> ELSE Pushed(local)
  /\ UNCHANGED <<waiting, hold, review, line, patch, local, behind, shipped, job, moves>>

\* The owner runs an accepted `pr` again, which names it and its review (`rerun_stale`); the machine
\* then records `open` again, unless it refuses or has asked for the merge.
RerunPr ==
  /\ Quiet /\ FilesOpen("pr") /\ Settled("pr") /\ ~Stale("pr") /\ Moving
  /\ \E written \in BOOLEAN :
       /\ written => ~merge.asked
       /\ stale' = stale \cup {s \in {"pr", "review"} : status[s] # "none" /\ (written => s # "pr")}
  /\ UNCHANGED <<status, waiting, hold, review, branch, github, job>>

\* The owner runs an accepted plan again: what came of it is stale at once (`rerun_stale`).
RerunPlan ==
  /\ Quiet /\ FilesOpen("plan") /\ Settled("plan") /\ ~Stale("plan") /\ Moving
  /\ LET later == {s \in DOMAIN status \ {"plan"} : status[s] # "none"}
     IN \/ stale' = stale \cup later /\ \E to \in {"accepted", "draft"} : status' = [status EXCEPT !["plan"] = to]
        \/ stale' = stale \cup later \cup {"plan"} /\ UNCHANGED status
  /\ UNCHANGED <<waiting, hold, review, branch, github, job>>

\* The commit under review is the worktree's head as the session opens.
StartReview ==
  /\ Quiet /\ ReviewGate = "green" /\ Len(rounds) < MaxRounds
  /\ job' = [at |-> "review", head |-> local]
  /\ UNCHANGED <<status, stale, waiting, hold, review, branch, github, moves>>

RoundStates == [v \in {"pass", "changes-requested", "needs-person"} |->
                  IF v = "pass" THEN "accepted" ELSE "changes-requested"]

EndReview(v) ==
  /\ job.at = "review" /\ job' = NoJob
  /\ \E listed \in SUBSET Findings, screens \in (IF v = "pass" THEN BOOLEAN ELSE {TRUE}) :
       \E found \in [listed -> Marks] :
         rounds' = Append(rounds, [head |-> job.head, verdict |-> v, found |-> found, screens |-> screens])
  /\ status' = [status EXCEPT !["review"] = RoundStates[v]]
  /\ Unstale("review")
  /\ UNCHANGED <<waiting, hold, granted, claims, answers, branch, github, moves>>

\* It hands back no round: it failed, or it stopped at a ceiling and left a draft.
FailReview ==
  /\ job.at = "review" /\ job' = NoJob
  /\ status' \in {status} \cup {[status EXCEPT !["review"] = "draft"]}
  /\ UNCHANGED <<stale, waiting, hold, review, branch, github, moves>>

\* The machine's guard (`ship_ready`) reads the checks of the head the merge will be pinned to.
StartShip ==
  /\ Quiet /\ ShipGate = "open" /\ ci = "green"
  /\ job' = [at |-> "ship", head |-> remote]
  /\ merge' = [round |-> Len(rounds), refused |-> FALSE, asked |-> TRUE]
  /\ UNCHANGED <<status, stale, waiting, hold, review, branch, behind, pr, shipped, moves>>

\* GitHub merges at the pinned head alone.
\* Mutant of Merge: the merge names the pull request and no head.
MergeUnpinned ==
  /\ job.at = "ship" /\ pr = "open" /\ pr' = "merged"
  /\ UNCHANGED <<status, stale, waiting, hold, review, branch, behind, merge, shipped, job, moves>>
Merge ==
  /\ job.at = "ship" /\ pr = "open" /\ remote = job.head /\ pr' = "merged"
  /\ UNCHANGED <<status, stale, waiting, hold, review, branch, behind, merge, shipped, job, moves>>

EndShip ==
  /\ job.at = "ship" /\ job' = NoJob
  /\ \/ pr = "merged" /\ shipped' = TRUE /\ UNCHANGED merge
     \/ pr # "merged" /\ merge' = [merge EXCEPT !.refused = TRUE] /\ UNCHANGED shipped
     \/ UNCHANGED <<merge, shipped>>  \* GitHub cannot be read, or the process dies first
  /\ UNCHANGED <<status, stale, waiting, hold, review, branch, behind, pr, moves>>

\* The step the loop names for it, the reader or a start records a merge the app asked for.
RecordShip ==
  /\ pr = "merged" /\ Watched /\ ~shipped /\ shipped' = TRUE
  /\ UNCHANGED <<status, stale, waiting, hold, review, branch, behind, pr, merge, job, moves>>

\* A branch behind the trunk is rebased, and its conflicts may change the unit's patch.
Integrate ==
  /\ Quiet /\ behind /\ pr = "open" /\ Known /\ hold = "active"
  /\ \E p \in {patch[local]} \cup Patches : Commit(Len(line) + 2, p)
  /\ local' = Len(line) + 1 /\ Pushed(Len(line) + 1) /\ behind' = FALSE
  /\ UNCHANGED <<status, stale, waiting, hold, review, pr, merge, shipped, job, moves>>

-----------------------------------------------------------------------------
(* The owner, GitHub and people outside the app.                           *)

ChecksEnd ==
  /\ remote > 0 /\ ci # "green" /\ pr = "open"
  /\ ci' \in (IF ci = "red" THEN {"pending"} ELSE {"green", "red"})
  /\ UNCHANGED <<status, stale, waiting, hold, review, line, patch, local, remote, origin, github, job, moves>>

TrunkMoves ==
  /\ pr = "open" /\ ~behind /\ Moving /\ behind' = TRUE
  /\ UNCHANGED <<status, stale, waiting, hold, review, branch, pr, merge, shipped, job>>

Close ==
  /\ pr = "open" /\ Moving /\ pr' = "closed"
  /\ UNCHANGED <<status, stale, waiting, hold, review, branch, behind, merge, shipped, job>>

\* The reader records that it is closed: `pr` is to run again, and opens a new one.
ReadClosed ==
  /\ pr = "closed" /\ Watched /\ status' = [status EXCEPT !["pr"] = "draft"]
  /\ UNCHANGED <<stale, waiting, hold, review, branch, github, job, moves>>

\* A merge that meets one opened again is PullRequest's.
Reopen ==
  /\ pr = "closed" /\ job.at # "ship" /\ pr' = "open"
  /\ UNCHANGED <<status, stale, waiting, hold, review, branch, behind, merge, shipped, job, moves>>

\* From another checkout, which this repository sees once somebody fetches.
PushElsewhere ==
  /\ pr = "open" /\ Moving
  /\ \E p \in Patches : Commit(line[remote], p)
  /\ remote' = Len(line) + 1 /\ ci' = "pending"
  /\ UNCHANGED <<status, stale, waiting, hold, review, local, origin, github, job>>

Fetch ==
  /\ origin # remote /\ origin' = remote
  /\ UNCHANGED <<status, stale, waiting, hold, review, line, patch, local, remote, ci, github, job, moves>>

PushLocal ==
  /\ pr = "open" /\ remote # local /\ Ancestor(remote, local) /\ Pushed(local)
  /\ UNCHANGED <<status, stale, waiting, hold, review, line, patch, local, github, job, moves>>

Answer ==
  /\ Why = "awaits-person"
  /\ \E f \in PersonFindings \ answers : answers' = answers \cup {f}
  /\ UNCHANGED <<status, stale, waiting, hold, rounds, granted, claims, branch, github, job, moves>>

\* `more_rounds`
MayGrant == OutOfRounds /\ ~shipped /\ hold = "active"
GrantRound ==
  /\ Quiet /\ MayGrant /\ Moving /\ granted' = granted + 1
  /\ UNCHANGED <<status, stale, waiting, hold, rounds, claims, answers, branch, github, job>>

HoldMoves == [active |-> {"paused", "dropped"}, paused |-> {"dropped", "active"}, dropped |-> {"paused"}]
MoveHold ==
  /\ Quiet /\ Moving /\ hold' \in HoldMoves[hold]
  /\ UNCHANGED <<status, stale, waiting, review, branch, github, job>>

DependencyMerges ==
  /\ waiting /\ waiting' = FALSE
  /\ UNCHANGED <<status, stale, hold, review, branch, github, job, moves>>

-----------------------------------------------------------------------------

Init ==
  /\ status = [s \in {"plan", "impl", "pr", "review"} |-> "none"] /\ stale = {}
  /\ waiting \in BOOLEAN /\ hold = "active"
  /\ rounds = <<>> /\ granted = 0 /\ claims = {} /\ answers = {}
  /\ line = <<>> /\ patch = <<>> /\ local = 0 /\ remote = 0 /\ origin = 0 /\ ci = "pending"
  /\ behind = FALSE /\ pr = "none" /\ merge = [round |-> 0, refused |-> FALSE, asked |-> FALSE] /\ shipped = FALSE
  /\ job = NoJob /\ moves = 0

Next ==
  \/ Plan \/ Impl \/ OpenPr \/ RerunPr \/ RerunPlan
  \/ StartReview \/ (\E v \in DOMAIN RoundStates : EndReview(v)) \/ FailReview
  \/ StartShip \/ Merge \/ EndShip \/ RecordShip \/ Integrate
  \/ Close \/ ReadClosed \/ Reopen
  \/ ChecksEnd \/ TrunkMoves \/ PushElsewhere \/ Fetch \/ PushLocal
  \/ Answer \/ GrantRound \/ MoveHold \/ DependencyMerges

Spec == Init /\ [][Next]_vars

-----------------------------------------------------------------------------
(* Properties.                                                             *)

Round == [head : 1..MaxCommits, verdict : DOMAIN RoundStates, screens : BOOLEAN,
          found : UNION {[d -> Marks] : d \in SUBSET Findings}]

\* The rows, the branch and the pull request have the shape the rules read.
TypeOK ==
  /\ status \in [{"plan", "impl", "pr", "review"} -> {"none", "draft", "accepted", "changes-requested"}]
  /\ stale \subseteq {"plan", "impl", "pr", "review"} /\ waiting \in BOOLEAN
  /\ hold \in {"active", "paused", "dropped"}
  /\ \A i \in 1..Len(rounds) : rounds[i] \in Round
  /\ Len(rounds) <= MaxRounds /\ granted <= MaxMoves /\ claims \cup answers \subseteq Findings
  /\ Len(line) <= MaxCommits /\ Len(patch) = Len(line) /\ {local, remote, origin} \subseteq {0} \cup Commits
  /\ ci \in {"pending", "green", "red"} /\ pr \in {"none", "open", "closed", "merged"}
  /\ job.at \in {"idle", "review", "ship"} /\ moves <= MaxMoves

\* What the app merges is what a round passed: its commit or a clean rebase of it, and every finding
\* any round rated high is fixed or answered by a person in that round, whatever the rounds between
\* left out or lowered and whoever pushed meanwhile.
MergedWasReviewed ==
  pr = "merged" =>
    LET passed == rounds[merge.round]
    IN /\ passed.verdict = "pass" /\ patch[remote] = patch[passed.head]
       /\ \A i \in 1..merge.round : \A f \in Listed(i) : rounds[i].found[f][2] = "high" =>
            /\ f \in DOMAIN passed.found
            /\ passed.found[f][1] = "fixed" \/ (passed.found[f][1] = "answered" /\ f \in answers)

\* A step the loop names is one its gate lets through: a name the gate refuses would be a stop.
NamedIsOpen ==
  LET next == NextStage
  IN Quiet => CASE next = "none" -> TRUE
                [] next = "review" -> ReviewGate = "green"
                [] next = "ship" -> ShipGate \in {"open", "recording"}
                [] OTHER -> FilesOpen(next)

\* A unit that is not over stands where something can move it on: the loop names a stage, a merge is being
\* made or refused, a person has a finding to answer, a round to add, a hold to lift or a draft to go on
\* with; an open pull request has checks that run or failed, a branch to fetch or to integrate, or a review
\* to ask for; a closed or merged one is to be recorded.  A stale `pr` that the machine follows is named in
\* vain (StaleIsWritten), and only a person who closes the pull request moves it.
SomeoneCanMove ==
  \/ ~Quiet \/ hold # "active" \/ waiting \/ MayGrant
  \/ pr = "open" /\ (ci # "green" \/ ~Known \/ behind \/ ReviewGate = "green" \/ Stale("pr"))
  \/ pr \in {"closed", "merged"} /\ Watched
  \/ NextStage \notin {"none", "pr"} \/ (NextStage = "pr" /\ MayOpen)
  \/ Why \in {"draft", "awaits-person", "ship-merging"}

\* What "they all become stale until each writes a new record" (fsm.md:129) says of `pr`: when the loop
\* names it, the run records it.  It fails after a rerun of a plan whose `pr` is open; no run checks it.
StaleIsWritten == Quiet /\ NextStage = "pr" => MayOpen
=============================================================================
