---------------------------- MODULE PullRequest ----------------------------
(***************************************************************************)
(* The pull request machine (coscc/github/prmachine.py) with GitHub beside *)
(* it: the `pr` and `ship` steps of a unit, the reader of the workspace's  *)
(* pull requests (coscc/leif/autopilot.py), the board's own asks for the   *)
(* required checks and the reconcile of a start                            *)
(* (coscc/github/integration.py).                                          *)
(*                                                                         *)
(* Every call of `gh` is an await.  An action here is what GitHub does     *)
(* with one call, or what one coroutine does with the answer once it has   *)
(* its turn; its answer is kept in the caller where another may act in     *)
(* between, so what it was told may be old when it acts on it.             *)
(*                                                                         *)
(* Heads of a unit's branch are numbered in the order they are pushed, and *)
(* a pushed head never comes back.  Only the checks of the last head are   *)
(* kept: GitHub answers for the head a pull request is at, and runs again  *)
(* of an older head change no answer.                                      *)
(***************************************************************************)
EXTENDS Naturals, FiniteSets

CONSTANTS Units,
          MaxHead,     \* bound: heads of a branch
          MaxAsked,    \* bound: the board asks for checks up to this head of a branch
          MaxPr,       \* bound: pull requests created
          MaxTroubles  \* bound: how often the process dies, the autopilot is turned off, a person
                       \* closes a pull request or a branch is pushed again

ASSUME PullRequestAssumption ==
  /\ {MaxHead, MaxPr} \subseteq Nat \ {0} /\ {MaxAsked, MaxTroubles} \subseteq Nat
  /\ "reader" \notin Units

VARIABLES pr,         \* GitHub: the pull requests, by number
          tip,        \* GitHub: the head of each unit's branch, 0 before its first push
          check,      \* GitHub: the required checks of that head
          clean,      \* heads that are a clean rebase of the head before them
          round,      \* the head the last review round passed, 0 before any did
          now,        \* the fold of the unit's rows (`state`)
          rerun,      \* what the rows say of the rerun asked at each head (`rerun_at`)
          noted,      \* units with a `ship` row for notices (`Integration.shipped`)
          job,        \* the `pr` or `ship` step of each unit
          ci,         \* each read of required checks under way
          reader,     \* the reader's walk over the pull requests it watches
          rerunning,  \* `_RERUNNING`
          recon,      \* the reconcile of a start
          up,         \* whether the process runs
          on,         \* whether the autopilot is on, and the reader with it
          faults      \* history: how often one of the first three happened

github == <<pr, tip, check, clean>>
rows == <<now, rerun, noted>>
memory == <<job, ci, reader, rerunning, recon>>
vars == <<github, round, rows, memory, up, on, faults>>

Again == {a \in Units \X (2..MaxHead) : a[2] <= tip[a[1]]}
Room == faults + Cardinality(Again) < MaxTroubles

Numbers == 1..MaxPr
Heads == 1..MaxHead

\* Mutant of Watched: a merge asked for is taken for the ship step's business.
WatchedOpen == {"open"}
Watched == {"open", "merge-requested"}
SettledCi == {"green", "red"}

\* The slots in which required checks are read: the reader's, and the board's ask of each unit.
Readers == {"reader"} \cup Units

Idle == [at |-> "idle", n |-> 0, h |-> 0, rebased |-> 0]
NoRead == [at |-> "idle", unit |-> CHOOSE u \in Units : TRUE, n |-> 0, h |-> 0, read |-> 0,
           bucket |-> "none", done |-> 0, said |-> "none"]
Unread == [n |-> 0, h |-> 0, ci |-> "none"]
NoWalk == [at |-> "idle", todo |-> {}, seen |-> [u \in Units |-> 0],
           snap |-> [u \in Units |-> Unread], merged |-> {}]
NoRecon == [at |-> "idle", todo |-> {}]

-----------------------------------------------------------------------------
(* GitHub, and what people do to it.                                       *)

OpenOf(u) == {n \in Numbers : pr[n].st = "OPEN" /\ pr[n].unit = u}

NoRuns == [bucket |-> "pending", done |-> 0, due |-> FALSE]

CreatedNumbers == {n \in Numbers : pr[n].st # "none"}

\* A push by an impl, an integration or a person; `rebase` says it only moved the base.
Push(u, rebase) ==
  /\ tip[u] \in 1..(MaxHead - 1) /\ Room
  /\ \A n \in Numbers : pr[n].st = "MERGED" => pr[n].unit # u
  /\ tip' = [tip EXCEPT ![u] = @ + 1]
  /\ check' = [check EXCEPT ![u] = NoRuns]
  /\ clean' = IF rebase THEN [clean EXCEPT ![u] = @ \cup {tip[u] + 1}] ELSE clean
  /\ UNCHANGED <<pr, round, rows, memory, up, on, faults>>

\* The checks end, or those a rerun was asked for begin again.  `done` tells one red run from a
\* later one, as the times they completed do.
ChecksEnd(u) ==
  /\ tip[u] > 0 /\ check[u].bucket = "pending"
  /\ \/ check' = [check EXCEPT ![u].bucket = "green"]
     \/ check' = [check EXCEPT ![u].bucket = "red", ![u].done = @ + 1]
  /\ UNCHANGED <<pr, tip, clean, round, rows, memory, up, on, faults>>

RerunBegins(u) ==
  /\ check[u].due
  /\ check' = [check EXCEPT ![u].bucket = "pending", ![u].due = FALSE]
  /\ UNCHANGED <<pr, tip, clean, round, rows, memory, up, on, faults>>

MergedBy(n, by) == [pr EXCEPT ![n].st = "MERGED", ![n].by = by]

\* A person merges, closes or opens again on GitHub.
MergeOutside(n) ==
  /\ pr[n].st = "OPEN" /\ pr' = MergedBy(n, "person")
  /\ UNCHANGED <<tip, check, clean, round, rows, memory, up, on, faults>>

CloseOutside(n) ==
  /\ pr[n].st = "OPEN" /\ pr' = [pr EXCEPT ![n].st = "CLOSED"]
  /\ Room /\ faults' = faults + 1
  /\ UNCHANGED <<tip, check, clean, round, rows, memory, up, on>>

ReopenOutside(n) ==
  /\ pr[n].st = "CLOSED" /\ OpenOf(pr[n].unit) = {}
  /\ pr' = [pr EXCEPT ![n].st = "OPEN"]
  /\ UNCHANGED <<tip, check, clean, round, rows, memory, up, on, faults>>

\* A review step of the unit passes its head; one that does not leaves `ship` no nearer.  It holds the unit as `pr` and `ship` do.
Review(u) ==
  /\ up /\ job[u].at = "idle" /\ tip[u] > 0 /\ now[u].state # "merged"
  /\ round[u] # tip[u] /\ round' = [round EXCEPT ![u] = tip[u]]
  /\ UNCHANGED <<github, rows, memory, up, on, faults>>

-----------------------------------------------------------------------------
(* The rows, folded as they are written.                                   *)

Opened(n, h) == [state |-> "open", n |-> n, h |-> h, ci |-> "none"]

\* Mutant of MergeRow: the state GitHub gave is kept as it was read.
MergeRowAsRead(u) == now' = [now EXCEPT ![u].state = "MERGED"]

\* `_record_merged`: guard `merge-read` and then the fold's last word, whatever it was before.
MergeRow(u) == now' = [now EXCEPT ![u].state = "merged"]

\* A `ci` row; the fold does not ask of which pull request.
CiRow(u, h, c) == now' = [now EXCEPT ![u].h = h, ![u].ci = c]

\* `rerun_at` reads the first row at the head that names one.
RerunRow(u, h, said, done) ==
  rerun' = IF said = "none" \/ rerun[u][h].said # "none" THEN rerun
           ELSE [rerun EXCEPT ![u][h] = [said |-> said, done |-> done]]

-----------------------------------------------------------------------------
(* `open_pr`.                                                              *)

SetJob(u, j) == job' = [job EXCEPT ![u] = j]
Ends(u) == SetJob(u, Idle)

\* Pressed again on an open pull request it records `open` again; in any other state the machine
\* answers `already`, and nothing moves.
OpenPr(u, again) ==
  /\ up /\ job[u].at = "idle"
  /\ \/ /\ now[u].state \in {"none", "closed"} /\ ~again
        /\ SetJob(u, [Idle EXCEPT !.at = "push"])
        /\ UNCHANGED now
     \/ /\ now[u].state = "open" /\ again
        /\ now' = [now EXCEPT ![u] = Opened(@.n, @.h)]
        /\ UNCHANGED job
  /\ UNCHANGED <<github, round, rerun, noted, ci, reader, rerunning, recon, up, on, faults>>

OpenPush(u) ==
  /\ job[u].at = "push"
  /\ tip' = [tip EXCEPT ![u] = IF @ = 0 THEN 1 ELSE @]
  /\ SetJob(u, [job[u] EXCEPT !.at = "find", !.h = tip'[u]])
  /\ UNCHANGED <<pr, check, clean, round, rows, ci, reader, rerunning, recon, up, on, faults>>

\* The branch's open pull request is taken when it has one, and one created when not.
OpenFind(u) ==
  /\ job[u].at = "find"
  /\ \/ /\ \E n \in OpenOf(u) : SetJob(u, [job[u] EXCEPT !.at = "opened", !.n = n])
        /\ UNCHANGED pr
     \/ /\ OpenOf(u) = {}
        /\ \E n \in Numbers : /\ n = Cardinality(CreatedNumbers) + 1
                              /\ pr' = [pr EXCEPT ![n].st = "OPEN", ![n].unit = u]
                              /\ SetJob(u, [job[u] EXCEPT !.at = "opened", !.n = n])
  /\ UNCHANGED <<tip, check, clean, round, rows, ci, reader, rerunning, recon, up, on, faults>>

OpenRecord(u) ==
  /\ job[u].at = "opened"
  /\ now' = [now EXCEPT ![u] = Opened(job[u].n, job[u].h)]
  /\ Ends(u)
  /\ UNCHANGED <<github, round, rerun, noted, ci, reader, rerunning, recon, up, on, faults>>

-----------------------------------------------------------------------------
(* `ship`.                                                                 *)

\* It reads the rows and the last round; the gate, asked before it, read whether the head is a
\* clean rebase of the reviewed one.
Ship(u) ==
  /\ up /\ job[u].at = "idle" /\ now[u].state # "merged"
  /\ \E n \in IF now[u].n > 0 THEN {now[u].n} ELSE OpenOf(u) :
       SetJob(u, [Idle EXCEPT !.at = "view", !.n = n,
                    !.rebased = IF tip[u] \in clean[u] /\ round[u] = tip[u] - 1 THEN tip[u] ELSE 0])
  /\ UNCHANGED <<github, round, rows, ci, reader, rerunning, recon, up, on, faults>>

\* A merge is recorded, and then the row notices read, with no await between.
Merged(u) == MergeRow(u) /\ noted' = noted \cup {u} /\ Ends(u)

ShipView(u) ==
  /\ job[u].at = "view"
  /\ LET n == job[u].n
     IN \/ pr[n].st = "MERGED" /\ Merged(u)
        \/ /\ pr[n].st = "OPEN" /\ SetJob(u, [job[u] EXCEPT !.at = "checks", !.h = tip[u]])
           /\ UNCHANGED <<now, noted>>
        \/ pr[n].st = "CLOSED" /\ Ends(u) /\ UNCHANGED <<now, noted>>
  /\ UNCHANGED <<github, round, rerun, ci, reader, rerunning, recon, up, on, faults>>

\* Guard `ship-ready`: green, and the head reviewed or a clean rebase of the one that was.
ShipReady(j, answer, passed) ==
  /\ answer = "green" /\ passed > 0
  /\ j.h = passed \/ (j.h = j.rebased /\ passed = j.rebased - 1)

\* `gh pr checks` answers for the head the pull request is at now.  The guard open, the
\* `merge-requested` row is committed before the merge is asked.
ShipRequest(u) ==
  /\ job[u].at = "checks"
  /\ IF ShipReady(job[u], check[u].bucket, round[u])
     THEN /\ now' = [now EXCEPT ![u].state = "merge-requested", ![u].n = job[u].n, ![u].h = job[u].h]
          /\ SetJob(u, [job[u] EXCEPT !.at = "merge", !.rebased = 0])
     ELSE Ends(u) /\ UNCHANGED now
  /\ UNCHANGED <<github, round, rerun, noted, ci, reader, rerunning, recon, up, on, faults>>

\* Mutant of MergePinned: `--match-head-commit` is left out.
MergeUnpinned(n, h) == pr[n].st = "OPEN"

\* `gh pr merge --match-head-commit`: GitHub merges the head it names or nothing, and may refuse.
MergePinned(n, h) == pr[n].st = "OPEN" /\ tip[pr[n].unit] = h

ShipMerge(u) ==
  /\ job[u].at = "merge"
  /\ \/ MergePinned(job[u].n, job[u].h) /\ pr' = MergedBy(job[u].n, "app")
     \/ UNCHANGED pr
  /\ SetJob(u, [job[u] EXCEPT !.at = "reread", !.h = 0])
  /\ UNCHANGED <<tip, check, clean, round, rows, ci, reader, rerunning, recon, up, on, faults>>

\* Whatever `gh` said, the pull request is read again; a refusal is a row the fold does not count.
ShipReread(u) ==
  /\ job[u].at = "reread"
  /\ \/ pr[job[u].n].st = "MERGED" /\ Merged(u)
     \/ pr[job[u].n].st # "MERGED" /\ Ends(u) /\ UNCHANGED <<now, noted>>
  /\ UNCHANGED <<github, round, rerun, ci, reader, rerunning, recon, up, on, faults>>

\* A call that did not answer ends the step, and nothing is recorded after it.
JobFails(u) ==
  /\ job[u].at \in {"push", "find", "opened", "view", "checks", "reread"}
  /\ Ends(u)
  /\ UNCHANGED <<github, round, rows, ci, reader, rerunning, recon, up, on, faults>>

-----------------------------------------------------------------------------
(* A read of the required checks at a head: the reader's, or the board's   *)
(* ask (`_answer_ci`, `record_ci`).                                        *)

SetRead(r, x) == ci' = [ci EXCEPT ![r] = x]

\* `gh pr checks` for head `h` answers for the head the pull request is at.
Checked(u, n, h) ==
  LET c == check[u]
  IN [NoRead EXCEPT !.at = "judge", !.unit = u, !.n = n, !.h = h, !.read = tip[u],
                    !.bucket = c.bucket, !.done = c.done]

\* The board asks for a unit between `pr` and `ship`, at the head its held list gave: that list may
\* be older than the last push.
Ask(u) ==
  /\ up /\ ci[u].at = "idle" /\ now[u].state \in Watched /\ tip[u] <= MaxAsked
  /\ \E h \in 1..tip[u] : SetRead(u, Checked(u, now[u].n, h))
  /\ UNCHANGED <<github, round, rows, job, reader, rerunning, recon, up, on, faults>>

\* Mutant of CiNow: a red check is red again before the rerun has run.
CiNowAtOnce(r) ==
  IF ci[r].bucket = "red" /\ rerun[ci[r].unit][ci[r].h].said = "none" THEN "pending" ELSE ci[r].bucket

\* `_ci_after_rerun` before it asks GitHub for anything: the `ci` to record.
CiNow(r) ==
  LET x == ci[r]
      was == rerun[x.unit][x.h]
  IN CASE x.bucket # "red" -> x.bucket
       [] x.bucket = "red" /\ was.said # "none" ->
            IF x.done # was.done \/ was.said = "refused" THEN "red" ELSE "pending"
       [] OTHER -> "pending"

\* Red at a head with no rerun in the rows, and nobody in this process asking for one.
MayRerun(r) ==
  /\ ci[r].bucket = "red" /\ rerun[ci[r].unit][ci[r].h].said = "none"
  /\ <<ci[r].n, ci[r].h>> \notin rerunning

\* The reader compares with what it read before its calls; `record_ci` with the rows as they are.
Same(r, c) ==
  LET was == IF r = "reader" THEN reader.snap[ci[r].unit] ELSE now[ci[r].unit]
  IN ci[r].h = was.h /\ c = was.ci

Judge(r) ==
  /\ ci[r].at = "judge" /\ ~MayRerun(r)
  /\ IF Same(r, CiNow(r)) THEN UNCHANGED now ELSE CiRow(ci[r].unit, ci[r].h, CiNow(r))
  /\ SetRead(r, NoRead)
  /\ UNCHANGED <<github, round, rerun, noted, job, reader, rerunning, recon, up, on, faults>>

\* A red check with no run to rerun is red at once.
JudgeUnfixable(r) ==
  /\ ci[r].at = "judge" /\ MayRerun(r)
  /\ CiRow(ci[r].unit, ci[r].h, "red")
  /\ RerunRow(ci[r].unit, ci[r].h, "refused", ci[r].done)
  /\ SetRead(r, NoRead)
  /\ UNCHANGED <<github, round, noted, job, reader, rerunning, recon, up, on, faults>>

\* Marked in `_RERUNNING`, and `gh run rerun` on the run the checks named: that of the head they
\* were read at.  GitHub does it, later, or refuses.
AskRerun(r) ==
  /\ ci[r].at = "judge" /\ MayRerun(r)
  /\ rerunning' = rerunning \cup {<<ci[r].n, ci[r].h>>}
  /\ LET u == ci[r].unit
         h == ci[r].read
     IN \/ /\ h = tip[u] /\ check[u].bucket = "red"
           /\ check' = [check EXCEPT ![u].due = TRUE]
           /\ SetRead(r, [ci[r] EXCEPT !.at = "record", !.said = "asked"])
        \/ /\ \E said \in {"refused"} \cup (IF h < tip[u] THEN {"asked"} ELSE {}) :
                SetRead(r, [ci[r] EXCEPT !.at = "record", !.said = said])
           /\ UNCHANGED check
  /\ UNCHANGED <<pr, tip, clean, round, rows, job, reader, recon, up, on, faults>>

Record(r) ==
  /\ ci[r].at = "record"
  /\ CiRow(ci[r].unit, ci[r].h, IF ci[r].said = "asked" THEN "pending" ELSE "red")
  /\ RerunRow(ci[r].unit, ci[r].h, ci[r].said, ci[r].done)
  /\ rerunning' = rerunning \ {<<ci[r].n, ci[r].h>>}
  /\ SetRead(r, NoRead)
  /\ UNCHANGED <<github, round, noted, job, reader, recon, up, on, faults>>

-----------------------------------------------------------------------------
(* The reader: one list, then each pull request whose answer is wanted.    *)

Walk(w) == reader' = w

\* After the reconcile of the start; nothing is called when nothing is watched.
WalkBegins ==
  /\ up /\ on /\ recon.at = "idle" /\ reader.at = "idle"
  /\ LET watched == {u \in Units : now[u].state \in Watched}
     IN /\ watched # {}
        /\ Walk([NoWalk EXCEPT !.at = "list", !.todo = watched,
                   !.snap = [u \in Units |-> IF u \notin watched THEN Unread
                                             ELSE [n |-> now[u].n, h |-> now[u].h, ci |-> now[u].ci]]])
  /\ UNCHANGED <<github, round, rows, job, ci, rerunning, recon, up, on, faults>>

WalkList ==
  /\ reader.at = "list"
  /\ Walk([reader EXCEPT !.at = "next",
             !.seen = [u \in Units |-> IF u \in reader.todo /\ pr[reader.snap[u].n].st = "OPEN"
                                       THEN tip[u] ELSE 0]])
  /\ UNCHANGED <<github, round, rows, job, ci, rerunning, recon, up, on, faults>>

\* Mutant of Settled: whatever head it was read at.
SettledAnywhere(u) == reader.snap[u].ci \in SettledCi

\* `ci` settled at the head the list gave is not read again.
Settled(u) == reader.seen[u] = reader.snap[u].h /\ reader.snap[u].ci \in SettledCi

\* The reader takes its next pull request once it is through with the one before.
Takes(u) == reader.at = "next" /\ ci["reader"].at = "idle" /\ u \in reader.todo
Taken(u) == [reader EXCEPT !.todo = @ \ {u}, !.seen[u] = 0]

WalkSkip(u) ==
  /\ Takes(u) /\ reader.seen[u] > 0 /\ Settled(u)
  /\ Walk(Taken(u))
  /\ UNCHANGED <<github, round, rows, job, ci, rerunning, recon, up, on, faults>>

WalkChecks(u) ==
  /\ Takes(u) /\ reader.seen[u] > 0 /\ ~Settled(u)
  /\ Walk(Taken(u))
  /\ SetRead("reader", Checked(u, reader.snap[u].n, reader.seen[u]))
  /\ UNCHANGED <<github, round, rows, job, rerunning, recon, up, on, faults>>

\* One gone from the list is viewed by itself, and what it became is recorded.
WalkView(u) ==
  /\ Takes(u) /\ reader.seen[u] = 0
  /\ LET st == pr[reader.snap[u].n].st
     IN /\ \/ st = "MERGED" /\ MergeRow(u)
           \/ st = "CLOSED" /\ now' = [now EXCEPT ![u].state = "closed"]
           \/ st = "OPEN" /\ UNCHANGED now
        /\ Walk([Taken(u) EXCEPT !.merged = IF st = "MERGED" THEN @ \cup {u} ELSE @])
  /\ UNCHANGED <<github, round, rerun, noted, job, ci, rerunning, recon, up, on, faults>>

\* A list that does not answer ends the read; a unit's own call leaves that unit to the next one.
WalkFails ==
  /\ \/ reader.at = "list" /\ Walk(NoWalk)
     \/ \E u \in Units : Takes(u) /\ Walk(Taken(u))
  /\ UNCHANGED <<github, round, rows, job, ci, rerunning, recon, up, on, faults>>

\* The read is over: the `ship` row of each merge it recorded, and the wait for the next one.
WalkNotes ==
  /\ reader.at = "next" /\ reader.todo = {} /\ ci["reader"].at = "idle"
  /\ noted' = noted \cup reader.merged
  /\ Walk(NoWalk)
  /\ UNCHANGED <<github, round, now, rerun, job, ci, rerunning, recon, up, on, faults>>

-----------------------------------------------------------------------------
(* The process, and the switch of the autopilot.                           *)

NothingRuns ==
  /\ job' = [u \in Units |-> Idle] /\ ci' = [r \in Readers |-> NoRead]
  /\ reader' = NoWalk /\ rerunning' = {} /\ recon' = NoRecon

\* A process may die between the `merged` row and the row notices read: two transactions.
Crash ==
  /\ up /\ Room
  /\ up' = FALSE /\ faults' = faults + 1 /\ NothingRuns
  /\ \/ UNCHANGED now
     \/ \E u \in Units : job[u].at = "reread" /\ pr[job[u].n].st = "MERGED" /\ MergeRow(u)
  /\ UNCHANGED <<github, round, rerun, noted, on>>

\* `reconcile_prs`: the units left at `merge-requested`, each viewed once, before the autopilot.
Start ==
  /\ ~up
  /\ up' = TRUE
  /\ recon' = [at |-> "next", todo |-> {u \in Units : now[u].state = "merge-requested"}]
  /\ UNCHANGED <<github, round, rows, job, ci, reader, rerunning, on, faults>>

\* A view that fails leaves the unit as it is.
ReconView(u) ==
  /\ recon.at = "next" /\ u \in recon.todo
  /\ recon' = [recon EXCEPT !.todo = @ \ {u}]
  /\ \/ /\ now[u].state = "merge-requested" /\ pr[now[u].n].st = "MERGED"
        /\ MergeRow(u) /\ noted' = noted \cup {u}
     \/ UNCHANGED <<now, noted>>
  /\ UNCHANGED <<github, round, rerun, job, ci, reader, rerunning, up, on, faults>>

ReconEnds ==
  /\ recon.at = "next" /\ recon.todo = {}
  /\ recon' = NoRecon
  /\ UNCHANGED <<github, round, rows, job, ci, reader, rerunning, up, on, faults>>

\* Turned off: the reader is cancelled where it waits, and what it asked goes with it.
TurnOff ==
  /\ on /\ Room
  /\ on' = FALSE /\ faults' = faults + 1
  /\ Walk(NoWalk) /\ SetRead("reader", NoRead)
  /\ rerunning' = IF ci["reader"].at = "record"
                  THEN rerunning \ {<<ci["reader"].n, ci["reader"].h>>} ELSE rerunning
  /\ UNCHANGED <<github, round, rows, job, recon, up>>

TurnOn ==
  /\ ~on /\ on' = TRUE
  /\ UNCHANGED <<github, round, rows, memory, up, faults>>

-----------------------------------------------------------------------------

PrType == [st : {"none", "OPEN", "CLOSED", "MERGED"}, unit : Units,
           by : {"none", "app", "person"}]
CiType == {"none", "pending", "green", "red"}
NowType == [state : Watched \cup {"none", "merged", "closed"}, n : 0..MaxPr, h : 0..MaxHead,
            ci : CiType]
JobAt == {"idle", "push", "find", "opened", "view", "checks", "merge", "reread"}

\* Type correctness.
TypeOK ==
  /\ pr \in [Numbers -> PrType]
  /\ tip \in [Units -> 0..MaxHead]
  /\ \A u \in Units : check[u].bucket \in CiType \ {"none"} /\ check[u].done \in Nat
  /\ clean \in [Units -> SUBSET Heads]
  /\ round \in [Units -> 0..MaxHead]
  /\ now \in [Units -> NowType]
  /\ \A u \in Units : \A h \in Heads : rerun[u][h].said \in {"none", "asked", "refused"}
  /\ noted \subseteq Units
  /\ \A u \in Units : job[u].at \in JobAt /\ job[u].n \in 0..MaxPr /\ job[u].h \in 0..MaxHead
  /\ \A r \in Readers : ci[r].at \in {"idle", "judge", "record"} /\ ci[r].h \in 0..MaxHead
  /\ reader.at \in {"idle", "list", "next"} /\ reader.todo \subseteq Units
  /\ rerunning \subseteq Numbers \X Heads
  /\ recon.at \in {"idle", "next"}
  /\ {up, on} \subseteq BOOLEAN /\ faults \in 0..MaxTroubles

Init ==
  /\ pr = [n \in Numbers |-> [st |-> "none", unit |-> CHOOSE u \in Units : TRUE, by |-> "none"]]
  /\ tip = [u \in Units |-> 0]
  /\ check = [u \in Units |-> NoRuns]
  /\ clean = [u \in Units |-> {}]
  /\ round = [u \in Units |-> 0]
  /\ now = [u \in Units |-> [state |-> "none", n |-> 0, h |-> 0, ci |-> "none"]]
  /\ rerun = [u \in Units |-> [h \in Heads |-> [said |-> "none", done |-> 0]]]
  /\ noted = {}
  /\ job = [u \in Units |-> Idle] /\ ci = [r \in Readers |-> NoRead]
  /\ reader = NoWalk /\ rerunning = {} /\ recon = NoRecon
  /\ up = TRUE /\ on = TRUE
  /\ faults = 0

World(u) ==
  \/ \E rebase \in BOOLEAN : Push(u, rebase)
  \/ ChecksEnd(u) \/ RerunBegins(u)
  \/ Review(u)

Steps(u) ==
  \/ OpenPush(u) \/ OpenFind(u) \/ OpenRecord(u)
  \/ Ship(u) \/ ShipView(u) \/ ShipRequest(u) \/ ShipMerge(u) \/ ShipReread(u) \/ JobFails(u)

Reading(r) == Judge(r) \/ JudgeUnfixable(r) \/ AskRerun(r) \/ Record(r)

Viewing == \E u \in Units : WalkChecks(u) \/ WalkView(u)
Walking == WalkBegins \/ WalkList \/ (\E u \in Units : WalkSkip(u)) \/ Viewing \/ WalkNotes

Reconciling == (\E u \in Units : ReconView(u)) \/ ReconEnds

Next ==
  \/ \E u \in Units : World(u) \/ Steps(u) \/ Ask(u)
  \/ \E u \in Units, again \in BOOLEAN : OpenPr(u, again)
  \/ \E n \in Numbers : MergeOutside(n) \/ CloseOutside(n) \/ ReopenOutside(n)
  \/ \E r \in Readers : Reading(r)
  \/ Walking \/ WalkFails
  \/ Reconciling
  \/ Crash \/ Start \/ TurnOff \/ TurnOn

Spec == Init /\ [][Next]_vars

\* The loop of the reader and of a start go on; a call that is made again and again is answered
\* some day.
Fairness ==
  /\ WF_vars(Start) /\ WF_vars(Reconciling) /\ WF_vars(Walking)
  /\ SF_vars(WalkList) /\ SF_vars(Viewing)
  /\ \A r \in Readers : WF_vars(Reading(r))

-----------------------------------------------------------------------------

\* What the app merges is a head whose required checks are green at that moment and that the
\* last review round passed, or a clean rebase of it: whatever was pushed, reviewed or read
\* between the calls of `ship`, which are awaits apart.
MergedWasReady ==
  [][\A n \in Numbers :
       (pr[n].by # "app" /\ pr'[n].by = "app") =>
         LET u == pr[n].unit
         IN /\ check[u].bucket = "green"
            /\ round[u] > 0
            /\ round[u] = tip[u] \/ (round[u] = tip[u] - 1 /\ tip[u] \in clean[u])]_vars

\* `red` at the head of the branch, which sends the unit back to `impl`, is a second red run or a
\* rerun that could not be made: a check that fails once is not enough.  Before a merge is asked for,
\* and while the unit has one pull request: a second one at the same head is asked about as if new.
RedIsReal ==
  \A u \in Units :
    (Cardinality(CreatedNumbers) = 1 /\ now[u].state = "open" /\ now[u].ci = "red" /\ now[u].h = tip[u]) =>
      check[u].done >= 2 \/ rerun[u][tip[u]].said = "refused"

\* The docstring of `state`: `ci` is the one last recorded at `head`.  So a `red` is of a head whose
\* checks were red.
CiIsOfItsHead ==
  \A u \in Units : (now[u].ci = "red" /\ now[u].h = tip[u]) => check[u].done > 0

\* A watched pull request that was merged, by the app or by a person, by a process that died
\* right after it or not, is recorded merged, unless the autopilot is turned off.
MergeIsRecorded ==
  \A u \in Units, n \in Numbers :
    (pr[n].st = "MERGED" /\ now[u].state \in Watched /\ now[u].n = n)
      ~> (now[u].state = "merged" \/ ~on)

Quiet(u) ==
  /\ on /\ now[u].state = "open" /\ pr[now[u].n].st = "OPEN"
  /\ ~check[u].due /\ check[u].bucket \in SettledCi

\* When the pull request stays open and its checks have ended for good, the rows come to say so of
\* its last head: an older answer written late is corrected by a later read.  Only `red` is final
\* at a head, whatever its checks say later.
CiCatchesUp ==
  \A u \in Units :
    <>[]Quiet(u) => []<>(now[u].h = tip[u] /\ now[u].ci \in {check[u].bucket, "red"})

=============================================================================
