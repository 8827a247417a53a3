------------------------------ MODULE WorkProofs ------------------------------
(***************************************************************************)
(* Theorems about the work of a unit (MCWork): the pull request machine    *)
(* (PullRequest) and the run of an agent (Runs), for any units, heads,     *)
(* pull requests, sessions, dollars and faults.                            *)
(*                                                                         *)
(* The pull request machine's calls are awaits, so what a step, a read or  *)
(* the reader's walk keeps is old when it is used.  Its inductive          *)
(* invariant says how old it may be and of which pull request (RowsKept,   *)
(* JobsKept, ReadsKept, WalkKept), what the rows and the reads know of the *)
(* red runs of a head (Checks, Asked), who alone asks for a rerun          *)
(* (Recording), and what a merge that was decided still rests on           *)
(* (Decided).  A run's (RunInv) says at which of its steps it may be done, *)
(* and at which nobody stopped it; a release's (OneOpen to PressKnows)     *)
(* what a press, any of whose calls may fail, knows that stays true.  The  *)
(* types come last, with the bounds each part keeps to (ReleaseBounds,     *)
(* PullBounds, RunBounds): they alone rest on WorkAssumption.              *)
(***************************************************************************)
EXTENDS MCWork, Sequences, FiniteSetTheorems, NaturalsInduction, TLAPS

-----------------------------------------------------------------------------
(* The pull request machine.                                               *)

\* The unit in the slots that stand for none.
Owner == Units \cup {CHOOSE u \in Units : TRUE}

Rows == [state : Watched \cup {"none", "merged", "closed"}, n : Nat, h : Nat, ci : CiType]
Reruns == [said : {"none", "asked", "refused"}, done : Nat]
Jobs == [at : JobAt, n : Nat, h : Nat, rebased : Nat]
Reads == [at : {"idle", "judge", "record"}, unit : Owner, n : Nat, h : Nat, read : Nat, bucket : CiType,
          done : Nat, said : {"none", "asked", "refused"}]
Walks == [at : {"idle", "list", "next"}, todo : SUBSET Units, seen : [Units -> Nat],
          snap : [Units -> [n : Nat, h : Nat, ci : CiType]], merged : SUBSET Units]
Pulls == [st : {"none", "OPEN", "CLOSED", "MERGED"}, unit : Owner, by : {"none", "app", "person"}]
Runs == [bucket : CiType, done : Nat, due : BOOLEAN]

PrTypes == pr \in [Numbers -> Pulls]
HeadTypes == tip \in [Units -> Nat] /\ round \in [Units -> Nat] /\ clean \in [Units -> SUBSET Nat]
CheckTypes == check \in [Units -> Runs]
NowTypes == now \in [Units -> Rows]
RerunTypes == rerun \in [Units -> [Heads -> Reruns]]
JobTypes == job \in [Units -> Jobs]
ReadTypes == ci \in [Readers -> Reads]
WalkTypes == reader \in Walks

\* Pull requests are numbered as they are created.
Numbered == \E k \in 0..MaxPr : CreatedNumbers = 1..k

\* Pull request `n` is there, and of unit `u`.
Owned(n, u) == n \in Numbers /\ pr[n].st # "none" /\ pr[n].unit = u

\* What the app keeps of a pull request is of one of the unit it keeps it for, and of no head past the
\* branch's: the rows,
RowsKept ==
  \A u \in Units : /\ now[u].n > 0 \/ now[u].state \in Watched => Owned(now[u].n, u)
                   /\ now[u].h <= tip[u]
                   /\ now[u].state = "open" /\ now[u].ci # "none" => now[u].h \in Heads

\* the steps,
JobsKept ==
  \A u \in Units : /\ job[u].at \in {"opened", "view", "checks", "merge", "reread"} => Owned(job[u].n, u)
                   /\ job[u].h <= tip[u]
                   /\ job[u].rebased > 0 => job[u].rebased \in clean[u]

\* the reads, of which one at the branch's head counts no more red runs than there were,
ReadsKept ==
  \A r \in Readers : ci[r].at # "idle" =>
    /\ ci[r].unit \in Units /\ Owned(ci[r].n, ci[r].unit)
    /\ ci[r].h \in Heads /\ ci[r].h <= ci[r].read /\ ci[r].read <= tip[ci[r].unit]
    /\ ci[r].bucket = "red" => ci[r].done > 0
    /\ ci[r].read = tip[ci[r].unit] => ci[r].done <= check[ci[r].unit].done
    /\ ci[r].at = "record" => ci[r].bucket = "red" /\ ci[r].said # "none"

\* and the reader's walk.
WalkKept ==
  /\ reader.at # "idle" => \A u \in reader.todo : Owned(reader.snap[u].n, u)
  /\ \A u \in Units : reader.seen[u] <= tip[u]

HeadsBounded == \A u \in Units : tip[u] <= MaxHead

\* A rerun is due of red checks alone, which were red before.
Checks == \A u \in Units : /\ check[u].due => check[u].bucket = "red"
                           /\ check[u].bucket = "red" => check[u].done > 0

\* A merge that was decided: at the head it names nothing it rests on has changed.
Decided ==
  \A u \in Units : job[u].at = "merge" /\ job[u].h = tip[u] =>
    /\ check[u].bucket = "green" /\ round[u] > 0
    /\ round[u] = tip[u] \/ (round[u] = tip[u] - 1 /\ tip[u] \in clean[u])

\* A rerun in the rows counts no more red runs than there were either, and is of no head to come.
Asked ==
  \A u \in Units, h \in Heads : rerun[u][h].said # "none" =>
    h <= tip[u] /\ rerun[u][h].done > 0 /\ (h = tip[u] => rerun[u][h].done <= check[u].done)

Single == CreatedNumbers = {1}

\* One read alone asks for a rerun of a pull request at a head; with one pull request, of a head that
\* has none in the rows.
Recording ==
  /\ \A r \in Readers : ci[r].at = "record" => <<ci[r].n, ci[r].h>> \in rerunning
  /\ \A r, q \in Readers : ci[r].at = "record" /\ ci[q].at = "record" /\ ci[r].n = ci[q].n /\ ci[r].h = ci[q].h => r = q
  /\ Single => \A r \in Readers : ci[r].at = "record" => rerun[ci[r].unit][ci[r].h].said = "none"

RedAtTip ==
  Single => \A u \in Units : now[u].state = "open" /\ now[u].ci = "red" /\ now[u].h = tip[u] =>
    check[u].done >= 2 \/ rerun[u][tip[u]].said = "refused"

PullTypes == PrTypes /\ HeadTypes /\ CheckTypes /\ NowTypes /\ RerunTypes /\ JobTypes /\ ReadTypes /\ WalkTypes
PullInv ==
  /\ PullTypes /\ Numbered /\ HeadsBounded /\ Checks
  /\ RowsKept /\ JobsKept /\ ReadsKept /\ WalkKept
  /\ Decided /\ Asked /\ Recording /\ RedAtTip

\* The first number that is not taken.
LEMMA NextIsNew ==
  ASSUME PullRequestAssumption, NEW k \in 0..MaxPr, CreatedNumbers = 1..k
  PROVE  Cardinality(CreatedNumbers) = k
<1>1. k \in Nat  BY DEF PullRequestAssumption
<1>2. Cardinality(1..k) = k  BY <1>1, FS_Interval
<1> QED  BY <1>2

\* Nothing starts with a pull request, a head or a call.
LEMMA PullBegins == PullRequestAssumption /\ Init => PullInv
<1> SUFFICES ASSUME PullRequestAssumption, Init PROVE PullInv  OBVIOUS
<1> USE DEF Init, PullRequestAssumption
<1>1. PrTypes /\ HeadTypes  BY DEF PrTypes, HeadTypes, Pulls, Owner
<1>2. CheckTypes /\ NowTypes /\ RerunTypes
  BY DEF CheckTypes, NowTypes, RerunTypes, Runs, Rows, Reruns, Watched, CiType, NoRuns
<1>3. JobTypes  BY DEF JobTypes, Jobs, JobAt, Idle
<1>4. ReadTypes  BY DEF ReadTypes, Reads, NoRead, Owner, CiType
<1>5. WalkTypes  BY DEF WalkTypes, Walks, NoWalk, Unread, CiType
<1>6. CreatedNumbers = {}  BY DEF CreatedNumbers
<1>7. CreatedNumbers = 1..0 /\ 0 \in 0..MaxPr  BY <1>6
<1>8. Numbered  BY <1>7 DEF Numbered
<1>9. ~Single  BY <1>6 DEF Single
<1>10. RowsKept /\ JobsKept /\ ReadsKept /\ WalkKept
  BY DEF RowsKept, JobsKept, ReadsKept, WalkKept, Watched, Idle, NoRead, NoWalk
<1>12. HeadsBounded /\ Checks /\ Decided /\ Asked  BY DEF HeadsBounded, Checks, Decided, Asked, Idle, NoRuns
<1>11. Recording /\ RedAtTip  BY <1>9 DEF Recording, RedAtTip, NoRead
<1> QED  BY <1>1, <1>2, <1>3, <1>4, <1>5, <1>8, <1>10, <1>11, <1>12 DEF PullInv, PullTypes

-----------------------------------------------------------------------------
(* What each write does to the types.                                      *)

\* A step kept for a unit keeps the types.
LEMMA JobPut == \A u \in Units, j \in Jobs : JobTypes /\ SetJob(u, j) => JobTypes'
  BY DEF JobTypes, SetJob

\* No step, and a step that begins, are steps.
LEMMA IdleIsJob ==
  /\ Idle \in Jobs
  /\ \A a \in JobAt, n, b \in Nat :
       [Idle EXCEPT !.at = a] \in Jobs /\ [Idle EXCEPT !.at = a, !.n = n, !.rebased = b] \in Jobs
<1> "idle" \in JobAt  BY DEF JobAt
<1> QED BY DEF Jobs, Idle

\* A read kept for a reader keeps the types; no read, and one whose rerun was asked, are reads.
LEMMA ReadPut ==
  /\ \A r \in Readers, x \in Reads : ReadTypes /\ SetRead(r, x) => ReadTypes'
  /\ NoRead \in Reads
  /\ \A x \in Reads, s \in {"none", "asked", "refused"} : [x EXCEPT !.at = "record", !.said = s] \in Reads
<1> NoRead \in Reads  BY DEF NoRead, Reads, Owner, CiType
<1> QED  BY DEF Reads, SetRead, ReadTypes

\* What a reader keeps of the checks it read, field by field.
LEMMA CheckedIs ==
  ASSUME CheckTypes, HeadTypes, NEW u \in Units, NEW n \in Nat, NEW h \in Nat
  PROVE  /\ Checked(u, n, h) = [at |-> "judge", unit |-> u, n |-> n, h |-> h, read |-> tip[u],
                               bucket |-> check[u].bucket, done |-> check[u].done, said |-> "none"]
         /\ Checked(u, n, h) \in Reads
<1>1. check[u].bucket \in CiType /\ check[u].done \in Nat  BY DEF CheckTypes, Runs
<1>2. Checked(u, n, h) = [at |-> "judge", unit |-> u, n |-> n, h |-> h, read |-> tip[u],
                          bucket |-> check[u].bucket, done |-> check[u].done, said |-> "none"]
<2> DEFINE none == CHOOSE v \in Units : TRUE
           read == Checked(u, n, h)
<2>1. NoRead = [at |-> "idle", unit |-> none, n |-> 0, h |-> 0, read |-> 0, bucket |-> "none", done |-> 0, said |-> "none"]
  BY DEF NoRead
<2>2. read = [NoRead EXCEPT !.at = "judge", !.unit = u, !.n = n, !.h = h, !.read = tip[u],
                            !.bucket = check[u].bucket, !.done = check[u].done]
  BY DEF Checked
<2> HIDE DEF none, read
<2>3. /\ read.at = "judge" /\ read.unit = u /\ read.n = n /\ read.h = h /\ read.read = tip[u]
      /\ read.bucket = check[u].bucket /\ read.done = check[u].done /\ read.said = "none"
      /\ read = [at |-> read.at, unit |-> read.unit, n |-> read.n, h |-> read.h, read |-> read.read,
                 bucket |-> read.bucket, done |-> read.done, said |-> read.said]
  BY <2>1, <2>2
<2>4. read = [at |-> "judge", unit |-> u, n |-> n, h |-> h, read |-> tip[u],
              bucket |-> check[u].bucket, done |-> check[u].done, said |-> "none"]
  BY <2>3
<2> QED  BY <2>4 DEF read
<1>3. tip[u] \in Nat /\ u \in Owner  BY DEF HeadTypes, Owner
<1> QED  BY <1>1, <1>2, <1>3 DEF Reads

\* What the walk keeps of each unit, and what it is with one taken or the list read.
LEMMA WalkMade ==
  ASSUME WalkTypes
  PROVE  /\ reader.at \in {"idle", "list", "next"} /\ reader.todo \subseteq Units /\ reader.merged \subseteq Units
         /\ \A u \in Units :
               /\ reader.seen[u] \in Nat /\ reader.snap[u].n \in Nat
               /\ reader.snap[u].h \in Nat /\ reader.snap[u].ci \in CiType
         /\ \A u \in Units : Taken(u) \in Walks
         /\ \A u \in Units : Taken(u) = [reader EXCEPT !.todo = @ \ {u}, !.seen = [@ EXCEPT ![u] = 0]]
         /\ \A s \in [Units -> Nat] : [reader EXCEPT !.at = "next", !.seen = s] \in Walks
  BY DEF WalkTypes, Walks, Taken

-----------------------------------------------------------------------------
(* Who writes what.                                                        *)

\* The actions that write the app's rows of a pull request; the rest leave them.
LEMMA RowsMove ==
  Next =>
    \/ \E u \in Units, again \in BOOLEAN : OpenPr(u, again)
    \/ \E u \in Units : OpenRecord(u) \/ ShipView(u) \/ ShipRequest(u) \/ ShipReread(u) \/ WalkView(u) \/ ReconView(u)
    \/ \E r \in Readers : Judge(r) \/ JudgeUnfixable(r) \/ Record(r)
    \/ Crash
    \/ UNCHANGED now
  BY DEF Next, World, Steps, Reading, Walking, Viewing, Reconciling, github, rows, memory, Push, ChecksEnd,
    RerunBegins, Review, OpenPush, OpenFind, Ship, ShipMerge, JobFails, Ask, MergeOutside, CloseOutside,
    ReopenOutside, AskRerun, WalkBegins, WalkList, WalkSkip, WalkChecks, WalkNotes, WalkFails, ReconEnds, Start,
    TurnOff, TurnOn

\* The actions that move a step.
LEMMA JobsMove ==
  Next =>
    \/ \E u \in Units, again \in BOOLEAN : OpenPr(u, again)
    \/ \E u \in Units : OpenPush(u) \/ OpenFind(u) \/ OpenRecord(u) \/ Ship(u)
                         \/ ShipView(u) \/ ShipRequest(u) \/ ShipMerge(u) \/ ShipReread(u) \/ JobFails(u)
    \/ Crash
    \/ UNCHANGED job
  BY DEF Next, World, Steps, Reading, Walking, Viewing, Reconciling, github, rows, memory, Push, ChecksEnd,
    RerunBegins, Review, Ask, MergeOutside, CloseOutside, ReopenOutside, Judge, JudgeUnfixable, AskRerun, Record,
    WalkBegins, WalkList, WalkSkip, WalkChecks, WalkView, WalkNotes, WalkFails, ReconView, ReconEnds, Start,
    TurnOff, TurnOn

\* The actions that move a read of the checks.
LEMMA ReadsMove ==
  Next =>
    \/ \E u \in Units : Ask(u) \/ WalkChecks(u)
    \/ \E r \in Readers : Judge(r) \/ JudgeUnfixable(r) \/ AskRerun(r) \/ Record(r)
    \/ Crash \/ TurnOff
    \/ UNCHANGED ci
  BY DEF Next, World, Steps, Reading, Walking, Viewing, Reconciling, github, rows, memory, Push, ChecksEnd,
    RerunBegins, Review, OpenPr, OpenPush, OpenFind, OpenRecord, Ship, ShipView, ShipRequest, ShipMerge,
    ShipReread, JobFails, MergeOutside, CloseOutside, ReopenOutside, WalkBegins, WalkList, WalkSkip, WalkView,
    WalkNotes, WalkFails, ReconView, ReconEnds, Start, TurnOn

\* The actions that move the reader's walk.
LEMMA WalkMoves ==
  Next =>
    \/ WalkBegins \/ WalkList \/ WalkNotes \/ WalkFails \/ Crash \/ TurnOff
    \/ \E u \in Units : WalkSkip(u) \/ WalkChecks(u) \/ WalkView(u)
    \/ UNCHANGED reader
<1> USE DEF github, rows, memory
<1>1. \A u \in Units : World(u) \/ Ask(u) => UNCHANGED reader
  BY DEF World, Push, ChecksEnd, RerunBegins, Review, Ask
<1>2. \A u \in Units : Steps(u) => UNCHANGED reader
  BY DEF Steps, OpenPush, OpenFind, OpenRecord, Ship, ShipView, ShipRequest, ShipMerge, ShipReread, JobFails
<1>3. \A u \in Units, again \in BOOLEAN : OpenPr(u, again) => UNCHANGED reader  BY DEF OpenPr
<1>4. \A n \in Numbers : MergeOutside(n) \/ CloseOutside(n) \/ ReopenOutside(n) => UNCHANGED reader
  BY DEF MergeOutside, CloseOutside, ReopenOutside
<1>5. \A r \in Readers : Reading(r) => UNCHANGED reader
  BY DEF Reading, Judge, JudgeUnfixable, AskRerun, Record
<1>6. Reconciling \/ Start \/ TurnOn => UNCHANGED reader  BY DEF Reconciling, ReconView, ReconEnds, Start, TurnOn
<1> QED  BY <1>1, <1>2, <1>3, <1>4, <1>5, <1>6 DEF Next, Walking, Viewing

\* The actions that change a pull request on GitHub.
LEMMA PullsMove ==
  Next =>
    \/ \E u \in Units : OpenFind(u) \/ ShipMerge(u)
    \/ \E n \in Numbers : MergeOutside(n) \/ CloseOutside(n) \/ ReopenOutside(n)
    \/ UNCHANGED pr
  BY DEF Next, World, Steps, Reading, Walking, Viewing, Reconciling, github, rows, memory, Push, ChecksEnd,
    RerunBegins, Review, OpenPr, OpenPush, OpenRecord, Ship, ShipView, ShipRequest, ShipReread, JobFails, Ask,
    Judge, JudgeUnfixable, AskRerun, Record, WalkBegins, WalkList, WalkSkip, WalkChecks, WalkView, WalkNotes,
    WalkFails, ReconView, ReconEnds, Crash, Start, TurnOff, TurnOn

\* The actions that write the row of a rerun.
LEMMA RerunsMove ==
  Next =>
    \/ \E r \in Readers : JudgeUnfixable(r) \/ Record(r)
    \/ UNCHANGED rerun
<1> USE DEF github, rows, memory
<1>1. \A u \in Units : World(u) \/ Ask(u) => UNCHANGED rerun
  BY DEF World, Push, ChecksEnd, RerunBegins, Review, Ask
<1>2. \A u \in Units : Steps(u) => UNCHANGED rerun
  BY DEF Steps, OpenPush, OpenFind, OpenRecord, Ship, ShipView, ShipRequest, ShipMerge, ShipReread, JobFails
<1>3. \A u \in Units, again \in BOOLEAN : OpenPr(u, again) => UNCHANGED rerun  BY DEF OpenPr
<1>4. \A n \in Numbers : MergeOutside(n) \/ CloseOutside(n) \/ ReopenOutside(n) => UNCHANGED rerun
  BY DEF MergeOutside, CloseOutside, ReopenOutside
<1>5. \A r \in Readers : Reading(r) => JudgeUnfixable(r) \/ Record(r) \/ UNCHANGED rerun
  BY DEF Reading, Judge, AskRerun
<1>6. Walking \/ WalkFails \/ Reconciling => UNCHANGED rerun
  BY DEF Walking, Viewing, WalkBegins, WalkList, WalkSkip, WalkChecks, WalkView, WalkNotes, WalkFails, Reconciling,
    ReconView, ReconEnds
<1>7. Crash \/ Start \/ TurnOff \/ TurnOn => UNCHANGED rerun  BY DEF Crash, Start, TurnOff, TurnOn
<1> QED  BY <1>1, <1>2, <1>3, <1>4, <1>5, <1>6, <1>7 DEF Next

\* The actions that change the checks of a head on GitHub.
LEMMA ChecksMove ==
  Next =>
    \/ \E u \in Units, rebase \in BOOLEAN : Push(u, rebase)
    \/ \E u \in Units : ChecksEnd(u) \/ RerunBegins(u)
    \/ \E r \in Readers : AskRerun(r)
    \/ UNCHANGED check
  BY DEF Next, World, Steps, Reading, Walking, Viewing, Reconciling, github, rows, memory, Review, OpenPr,
    OpenPush, OpenFind, OpenRecord, Ship, ShipView, ShipRequest, ShipMerge, ShipReread, JobFails, Ask,
    MergeOutside, CloseOutside, ReopenOutside, Judge, JudgeUnfixable, Record, WalkBegins, WalkList, WalkSkip,
    WalkChecks, WalkView, WalkNotes, WalkFails, ReconView, ReconEnds, Crash, Start, TurnOff, TurnOn

\* The rows keep their type,
LEMMA NowTyped ==
  ASSUME PullRequestAssumption, PullInv, Next
  PROVE  NowTypes'
<1>1. PrTypes /\ HeadTypes /\ CheckTypes /\ NowTypes /\ RerunTypes /\ JobTypes /\ ReadTypes /\ WalkTypes
  BY DEF PullInv, PullTypes
<1>2. \A r \in Readers : ci[r].at # "idle" => ci[r].unit \in Units  BY DEF PullInv, ReadsKept
<1>3. ASSUME NEW u \in Units, NEW again \in BOOLEAN, OpenPr(u, again) PROVE NowTypes'
  BY <1>3, <1>1 DEF OpenPr, NowTypes, Rows, CiType, Watched, Opened
<1>4. ASSUME NEW u \in Units, OpenRecord(u) PROVE NowTypes'
  BY <1>4, <1>1 DEF OpenRecord, NowTypes, Rows, CiType, Watched, Opened, JobTypes, Jobs
<1>5. ASSUME NEW u \in Units, ShipView(u) PROVE NowTypes'
  BY <1>5, <1>1 DEF ShipView, NowTypes, Rows, CiType, Watched, Merged, MergeRow
<1>6. ASSUME NEW u \in Units, ShipRequest(u) PROVE NowTypes'
  <2>1. CASE UNCHANGED now  BY <1>1, <2>1 DEF NowTypes
  <2>2. CASE now' = [now EXCEPT ![u].state = "merge-requested", ![u].n = job[u].n, ![u].h = job[u].h]
    <3>1. now[u] \in Rows /\ job[u].n \in Nat /\ job[u].h \in Nat  BY <1>1 DEF NowTypes, JobTypes, Jobs
    <3>2. [now[u] EXCEPT !.state = "merge-requested", !.n = job[u].n, !.h = job[u].h] \in Rows
      BY <3>1 DEF Rows, Watched
    <3>3. now' = [now EXCEPT ![u] = [now[u] EXCEPT !.state = "merge-requested", !.n = job[u].n, !.h = job[u].h]]
      BY <1>1, <2>2 DEF NowTypes
    <3> QED  BY <1>1, <3>2, <3>3 DEF NowTypes
  <2> QED  BY <1>6, <2>1, <2>2 DEF ShipRequest
<1>7. ASSUME NEW u \in Units, ShipReread(u) PROVE NowTypes'
  BY <1>7, <1>1 DEF ShipReread, NowTypes, Rows, CiType, Watched, Merged, MergeRow
<1>8. ASSUME NEW r \in Readers, Judge(r) PROVE NowTypes'
  <2>1. ci[r] \in Reads  BY <1>1 DEF ReadTypes
  <2>2. CiNow(r) \in CiType  BY <2>1 DEF CiNow, CiType, Reads
  <2> QED  BY <1>8, <1>1, <2>1, <2>2 DEF Judge, NowTypes, Rows, CiRow, Reads
<1>9. ASSUME NEW r \in Readers, JudgeUnfixable(r) PROVE NowTypes'
  BY <1>9, <1>1, <1>2 DEF JudgeUnfixable, NowTypes, Rows, CiType, Watched, CiRow, ReadTypes, Reads
<1>10. ASSUME NEW r \in Readers, Record(r) PROVE NowTypes'
  BY <1>10, <1>1, <1>2 DEF Record, NowTypes, Rows, CiType, Watched, CiRow, ReadTypes, Reads
<1>11. ASSUME NEW u \in Units, WalkView(u) PROVE NowTypes'
  BY <1>11, <1>1 DEF WalkView, NowTypes, Rows, CiType, Watched, MergeRow
<1>12. ASSUME NEW u \in Units, ReconView(u) PROVE NowTypes'
  BY <1>12, <1>1 DEF ReconView, NowTypes, Rows, CiType, Watched, MergeRow
<1>13. CASE Crash
  BY <1>13, <1>1 DEF Crash, NowTypes, Rows, CiType, Watched, MergeRow
<1>14. CASE UNCHANGED now  BY <1>14, <1>1 DEF NowTypes
<1> QED  BY <1>3, <1>4, <1>5, <1>6, <1>7, <1>8, <1>9, <1>10, <1>11, <1>12, <1>13, <1>14, RowsMove

\* the steps theirs,
LEMMA JobTyped ==
  ASSUME PullRequestAssumption, PullInv, Next
  PROVE  JobTypes'
<1>1. PrTypes /\ HeadTypes /\ CheckTypes /\ NowTypes /\ RerunTypes /\ JobTypes /\ ReadTypes /\ WalkTypes
  BY DEF PullInv, PullTypes
<1>2. ASSUME NEW u \in Units, NEW again \in BOOLEAN, OpenPr(u, again) PROVE JobTypes'
  BY <1>2, <1>1 DEF OpenPr, JobTypes, Jobs, JobAt, SetJob, Ends, Idle
<1>3. ASSUME NEW u \in Units, OpenPush(u) PROVE JobTypes'
  <2>1. tip'[u] \in Nat  BY <1>3, <1>1 DEF OpenPush, HeadTypes
  <2>2. job[u] \in Jobs  BY <1>1 DEF JobTypes
  <2>3. [job[u] EXCEPT !.at = "find", !.h = tip'[u]] \in Jobs  BY <2>1, <2>2 DEF Jobs, JobAt
  <2> QED  BY <1>3, <1>1, <2>3, JobPut DEF OpenPush
<1>4. ASSUME NEW u \in Units, OpenFind(u) PROVE JobTypes'
  <2>1. PICK n \in Numbers : SetJob(u, [job[u] EXCEPT !.at = "opened", !.n = n])
    BY <1>4 DEF OpenFind, OpenOf
  <2>2. job[u] \in Jobs  BY <1>1 DEF JobTypes
  <2>3. n \in Nat  BY DEF Numbers
  <2>4. [job[u] EXCEPT !.at = "opened", !.n = n] \in Jobs  BY <2>2, <2>3 DEF Jobs, JobAt
  <2> QED  BY <1>1, <2>1, <2>4, JobPut
<1>5. ASSUME NEW u \in Units, OpenRecord(u) PROVE JobTypes'
  BY <1>5, <1>1 DEF OpenRecord, JobTypes, Jobs, JobAt, SetJob, Ends, Idle
<1>6. ASSUME NEW u \in Units, Ship(u) PROVE JobTypes'
  <2>1. PICK n \in Nat, h \in Nat : SetJob(u, [Idle EXCEPT !.at = "view", !.n = n, !.rebased = h])
    <3>1. now[u].n \in Nat /\ tip[u] \in Nat /\ OpenOf(u) \subseteq Nat
      BY <1>1 DEF NowTypes, Rows, HeadTypes, OpenOf, Numbers
    <3> QED  BY <1>6, <3>1 DEF Ship
  <2>2. [Idle EXCEPT !.at = "view", !.n = n, !.rebased = h] \in Jobs  BY DEF Jobs, JobAt, Idle
  <2> QED  BY <1>1, <2>1, <2>2, JobPut
<1>7. ASSUME NEW u \in Units, ShipView(u) PROVE JobTypes'
  <2>1. job[u] \in Jobs /\ tip[u] \in Nat  BY <1>1 DEF JobTypes, HeadTypes
  <2>2. [job[u] EXCEPT !.at = "checks", !.h = tip[u]] \in Jobs  BY <2>1 DEF Jobs, JobAt
  <2> QED  BY <1>7, <1>1, <2>2, IdleIsJob, JobPut DEF ShipView, Merged, Ends
<1>8. ASSUME NEW u \in Units, ShipRequest(u) PROVE JobTypes'
  <2>1. job[u] \in Jobs  BY <1>1 DEF JobTypes
  <2>2. [job[u] EXCEPT !.at = "merge", !.rebased = 0] \in Jobs  BY <2>1 DEF Jobs, JobAt
  <2> QED  BY <1>8, <1>1, <2>2, IdleIsJob, JobPut DEF ShipRequest, Ends
<1>9. ASSUME NEW u \in Units, ShipMerge(u) PROVE JobTypes'
  BY <1>9, <1>1 DEF ShipMerge, JobTypes, Jobs, JobAt, SetJob, Ends, Idle
<1>10. ASSUME NEW u \in Units, ShipReread(u) PROVE JobTypes'
  BY <1>10, <1>1 DEF ShipReread, JobTypes, Jobs, JobAt, SetJob, Ends, Idle, Merged
<1>11. ASSUME NEW u \in Units, JobFails(u) PROVE JobTypes'
  BY <1>11, <1>1 DEF JobFails, JobTypes, Jobs, JobAt, SetJob, Ends, Idle
<1>12. CASE Crash
  BY <1>12, <1>1 DEF Crash, JobTypes, Jobs, JobAt, SetJob, Ends, Idle, NothingRuns
<1>13. CASE UNCHANGED job  BY <1>13, <1>1 DEF JobTypes
<1> QED  BY <1>2, <1>3, <1>4, <1>5, <1>6, <1>7, <1>8, <1>9, <1>10, <1>11, <1>12, <1>13, JobsMove

\* the reads theirs,
LEMMA ReadTyped ==
  ASSUME PullRequestAssumption, PullInv, Next
  PROVE  ReadTypes'
<1>1. PrTypes /\ HeadTypes /\ CheckTypes /\ NowTypes /\ RerunTypes /\ JobTypes /\ ReadTypes /\ WalkTypes
  BY DEF PullInv, PullTypes
<1>2. ASSUME NEW u \in Units, Ask(u) PROVE ReadTypes'
  <2>1. PICK h \in Nat : SetRead(u, Checked(u, now[u].n, h))  BY <1>2, <1>1 DEF Ask, HeadTypes
  <2>2. now[u].n \in Nat  BY <1>1 DEF NowTypes, Rows
  <2>3. Checked(u, now[u].n, h) \in Reads  BY <1>1, <2>2, CheckedIs
  <2> QED  BY <1>1, <2>1, <2>3, ReadPut DEF Readers
<1>3. ASSUME NEW r \in Readers, Judge(r) PROVE ReadTypes'
  BY <1>3, <1>1 DEF Judge, ReadTypes, Reads, SetRead, NoRead, CiType, Owner
<1>4. ASSUME NEW r \in Readers, JudgeUnfixable(r) PROVE ReadTypes'
  BY <1>4, <1>1 DEF JudgeUnfixable, ReadTypes, Reads, SetRead, NoRead, CiType, Owner
<1>5. ASSUME NEW r \in Readers, AskRerun(r) PROVE ReadTypes'
  <2>1. PICK s \in {"asked", "refused"} : SetRead(r, [ci[r] EXCEPT !.at = "record", !.said = s])  BY <1>5 DEF AskRerun
  <2>2. ci[r] \in Reads  BY <1>1 DEF ReadTypes
  <2>3. [ci[r] EXCEPT !.at = "record", !.said = s] \in Reads  BY <2>2 DEF Reads
  <2> QED  BY <1>1, <2>1, <2>3, ReadPut
<1>6. ASSUME NEW r \in Readers, Record(r) PROVE ReadTypes'
  BY <1>6, <1>1 DEF Record, ReadTypes, Reads, SetRead, NoRead, CiType, Owner
<1>7. ASSUME NEW u \in Units, WalkChecks(u) PROVE ReadTypes'
  <2>1. reader.snap[u].n \in Nat /\ reader.seen[u] \in Nat  BY <1>1, WalkMade
  <2>2. Checked(u, reader.snap[u].n, reader.seen[u]) \in Reads  BY <1>1, <2>1, CheckedIs
  <2> QED  BY <1>7, <1>1, <2>2, ReadPut DEF WalkChecks, Readers
<1>8. CASE Crash
  BY <1>8, <1>1 DEF Crash, ReadTypes, Reads, SetRead, NoRead, CiType, NothingRuns, Owner
<1>9. CASE TurnOff
  BY <1>9, <1>1 DEF TurnOff, ReadTypes, Reads, SetRead, NoRead, CiType, Owner, Readers
<1>10. CASE UNCHANGED ci  BY <1>10, <1>1 DEF ReadTypes
<1> QED  BY <1>2, <1>3, <1>4, <1>5, <1>6, <1>7, <1>8, <1>9, <1>10, ReadsMove

\* the walk its own,
LEMMA WalkTyped ==
  ASSUME PullRequestAssumption, PullInv, Next
  PROVE  WalkTypes'
<1>1. PrTypes /\ HeadTypes /\ CheckTypes /\ NowTypes /\ RerunTypes /\ JobTypes /\ ReadTypes /\ WalkTypes
  BY DEF PullInv, PullTypes
<1>2. CASE WalkBegins
  BY <1>2, <1>1 DEF WalkBegins, WalkTypes, Walks, Walk, Taken, Unread, NoWalk, CiType, NowTypes, Rows
<1>3. CASE WalkList
  BY <1>3, <1>1 DEF WalkList, WalkTypes, Walks, Walk, Taken, Unread, NoWalk, CiType, HeadTypes
<1>4. ASSUME NEW u \in Units, WalkSkip(u) PROVE WalkTypes'
  BY <1>4, <1>1 DEF WalkSkip, WalkTypes, Walks, Walk, Taken, Unread, NoWalk, CiType, Takes
<1>5. ASSUME NEW u \in Units, WalkChecks(u) PROVE WalkTypes'
  BY <1>5, <1>1 DEF WalkChecks, WalkTypes, Walks, Walk, Taken, Unread, NoWalk, CiType, Takes
<1>6. ASSUME NEW u \in Units, WalkView(u) PROVE WalkTypes'
  BY <1>6, <1>1 DEF WalkView, WalkTypes, Walks, Walk, Taken, Unread, NoWalk, CiType, Takes
<1>7. CASE WalkNotes
  BY <1>7, <1>1 DEF WalkNotes, WalkTypes, Walks, Walk, Taken, Unread, NoWalk, CiType
<1>8. CASE WalkFails
  <2>1. CASE Walk(NoWalk)  BY <2>1 DEF WalkTypes, Walks, Walk, Unread, NoWalk, CiType
  <2>2. ASSUME NEW u \in Units, Walk(Taken(u)) PROVE WalkTypes'
    BY <1>1, <2>2 DEF WalkTypes, Walks, Walk, Taken
  <2> QED  BY <1>8, <2>1, <2>2 DEF WalkFails
<1>9. CASE Crash
  BY <1>9, <1>1 DEF Crash, WalkTypes, Walks, Walk, Taken, Unread, NoWalk, CiType, NothingRuns
<1>10. CASE TurnOff
  BY <1>10, <1>1 DEF TurnOff, WalkTypes, Walks, Walk, Taken, Unread, NoWalk, CiType
<1>11. CASE UNCHANGED reader  BY <1>11, <1>1 DEF WalkTypes
<1> QED  BY <1>2, <1>3, <1>4, <1>5, <1>6, <1>7, <1>8, <1>9, <1>10, <1>11, WalkMoves

\* the pull requests on GitHub theirs,
LEMMA PrTyped ==
  ASSUME PullRequestAssumption, PullInv, Next
  PROVE  PrTypes'
<1>1. PrTypes /\ HeadTypes /\ CheckTypes /\ NowTypes /\ RerunTypes /\ JobTypes /\ ReadTypes /\ WalkTypes
  BY DEF PullInv, PullTypes
<1>2. ASSUME NEW u \in Units, OpenFind(u) PROVE PrTypes'
  <2>1. CASE UNCHANGED pr  BY <1>1, <2>1 DEF PrTypes
  <2>2. CASE \E n \in Numbers : pr' = [pr EXCEPT ![n].st = "OPEN", ![n].unit = u]
    <3>1. PICK n \in Numbers : pr' = [pr EXCEPT ![n].st = "OPEN", ![n].unit = u]  BY <2>2
    <3>2. u \in Owner  BY DEF Owner
    <3> QED  BY <1>1, <3>1, <3>2 DEF PrTypes, Pulls
  <2> QED  BY <1>2, <2>1, <2>2 DEF OpenFind
<1>3. ASSUME NEW u \in Units, ShipMerge(u) PROVE PrTypes'
  <2>1. job[u].n \in Numbers  BY <1>3 DEF ShipMerge, PullInv, JobsKept, Owned
  <2> QED  BY <1>3, <1>1, <2>1 DEF ShipMerge, PrTypes, Pulls, MergedBy
<1>4. ASSUME NEW n \in Numbers, MergeOutside(n) PROVE PrTypes'
  BY <1>4, <1>1 DEF MergeOutside, PrTypes, Pulls, MergedBy
<1>5. ASSUME NEW n \in Numbers, CloseOutside(n) PROVE PrTypes'
  BY <1>5, <1>1 DEF CloseOutside, PrTypes, Pulls
<1>6. ASSUME NEW n \in Numbers, ReopenOutside(n) PROVE PrTypes'
  BY <1>6, <1>1 DEF ReopenOutside, PrTypes, Pulls
<1>7. CASE UNCHANGED pr  BY <1>7, <1>1 DEF PrTypes
<1> QED  BY <1>2, <1>3, <1>4, <1>5, <1>6, <1>7, PullsMove

\* the rows of the reruns,
LEMMA RerunTyped ==
  ASSUME PullRequestAssumption, PullInv, Next
  PROVE  RerunTypes'
<1>1. PrTypes /\ HeadTypes /\ CheckTypes /\ NowTypes /\ RerunTypes /\ JobTypes /\ ReadTypes /\ WalkTypes
  BY DEF PullInv, PullTypes
<1>2. \A r \in Readers : ci[r].at # "idle" => ci[r].unit \in Units  BY DEF PullInv, ReadsKept
<1>3. ASSUME NEW r \in Readers, JudgeUnfixable(r) PROVE RerunTypes'
  BY <1>3, <1>1, <1>2 DEF JudgeUnfixable, RerunTypes, Reruns, RerunRow, ReadTypes, Reads
<1>4. ASSUME NEW r \in Readers, Record(r) PROVE RerunTypes'
  BY <1>4, <1>1, <1>2 DEF Record, RerunTypes, Reruns, RerunRow, ReadTypes, Reads
<1>5. CASE UNCHANGED rerun  BY <1>5, <1>1 DEF RerunTypes
<1> QED  BY <1>3, <1>4, <1>5, RerunsMove

\* the checks,
LEMMA CheckTyped ==
  ASSUME PullRequestAssumption, PullInv, Next
  PROVE  CheckTypes'
<1>1. PrTypes /\ HeadTypes /\ CheckTypes /\ NowTypes /\ RerunTypes /\ JobTypes /\ ReadTypes /\ WalkTypes
  BY DEF PullInv, PullTypes
<1>2. \A r \in Readers : ci[r].at # "idle" => ci[r].unit \in Units  BY DEF PullInv, ReadsKept
<1>3. ASSUME NEW u \in Units, NEW rebase \in BOOLEAN, Push(u, rebase) PROVE CheckTypes'
  BY <1>3, <1>1 DEF Push, CheckTypes, Runs, CiType, NoRuns
<1>4. ASSUME NEW u \in Units, ChecksEnd(u) PROVE CheckTypes'
  BY <1>4, <1>1 DEF ChecksEnd, CheckTypes, Runs, CiType, NoRuns
<1>5. ASSUME NEW u \in Units, RerunBegins(u) PROVE CheckTypes'
  BY <1>5, <1>1 DEF RerunBegins, CheckTypes, Runs, CiType, NoRuns
<1>6. ASSUME NEW r \in Readers, AskRerun(r) PROVE CheckTypes'
  <2>1. CheckTypes /\ ci[r].unit \in Units  BY <1>6, <1>1, <1>2 DEF AskRerun
  <2>2. CASE UNCHANGED check  BY <2>1, <2>2 DEF CheckTypes
  <2>3. CASE check' = [check EXCEPT ![ci[r].unit].due = TRUE]  BY <2>1, <2>3 DEF CheckTypes, Runs
  <2> QED  BY <1>6, <2>2, <2>3 DEF AskRerun
<1>7. CASE UNCHANGED check  BY <1>7, <1>1 DEF CheckTypes
<1> QED  BY <1>3, <1>4, <1>5, <1>6, <1>7, ChecksMove

\* The actions that push a head.
LEMMA HeadsMove ==
  Next =>
    \/ \E u \in Units, rebase \in BOOLEAN : Push(u, rebase)
    \/ \E u \in Units : OpenPush(u)
    \/ UNCHANGED <<tip, clean>>
  BY DEF Next, World, Steps, Reading, Walking, Viewing, Reconciling, github, rows, memory, ChecksEnd,
    RerunBegins, Review, OpenPr, OpenFind, OpenRecord, Ship, ShipView, ShipRequest, ShipMerge, ShipReread,
    JobFails, Ask, MergeOutside, CloseOutside, ReopenOutside, Judge, JudgeUnfixable, AskRerun, Record, WalkBegins,
    WalkList, WalkSkip, WalkChecks, WalkView, WalkNotes, WalkFails, ReconView, ReconEnds, Crash, Start, TurnOff,
    TurnOn

\* The reviews alone pass a head.
LEMMA RoundMoves ==
  Next => (\E u \in Units : Review(u)) \/ UNCHANGED round
  BY DEF Next, World, Steps, Reading, Walking, Viewing, Reconciling, github, rows, memory, Push, ChecksEnd,
    RerunBegins, OpenPr, OpenPush, OpenFind, OpenRecord, Ship, ShipView, ShipRequest, ShipMerge, ShipReread,
    JobFails, Ask, MergeOutside, CloseOutside, ReopenOutside, Judge, JudgeUnfixable, AskRerun, Record, WalkBegins,
    WalkList, WalkSkip, WalkChecks, WalkView, WalkNotes, WalkFails, ReconView, ReconEnds, Crash, Start, TurnOff,
    TurnOn

\* The actions that claim or free a rerun in the process.
LEMMA RerunningMoves ==
  Next =>
    \/ \E r \in Readers : AskRerun(r) \/ Record(r)
    \/ Crash \/ TurnOff
    \/ UNCHANGED rerunning
  BY DEF Next, World, Steps, Reading, Walking, Viewing, Reconciling, github, rows, memory, Push, ChecksEnd,
    RerunBegins, Review, OpenPr, OpenPush, OpenFind, OpenRecord, Ship, ShipView, ShipRequest, ShipMerge,
    ShipReread, JobFails, Ask, MergeOutside, CloseOutside, ReopenOutside, Judge, JudgeUnfixable, WalkBegins,
    WalkList, WalkSkip, WalkChecks, WalkView, WalkNotes, WalkFails, ReconView, ReconEnds, Start, TurnOn

\* and the branches and what the reviews passed of them.
LEMMA HeadTyped ==
  ASSUME PullRequestAssumption, PullInv, Next
  PROVE  HeadTypes'
<1>1. HeadTypes  BY DEF PullInv, PullTypes
<1>2. tip' \in [Units -> Nat] /\ clean' \in [Units -> SUBSET Nat]
  <2>1. ASSUME NEW u \in Units, NEW rebase \in BOOLEAN, Push(u, rebase)
      PROVE tip' \in [Units -> Nat] /\ clean' \in [Units -> SUBSET Nat]
    BY <1>1, <2>1 DEF Push, HeadTypes
  <2>2. ASSUME NEW u \in Units, OpenPush(u) 
      PROVE tip' \in [Units -> Nat] /\ clean' \in [Units -> SUBSET Nat]
    BY <1>1, <2>2 DEF OpenPush, HeadTypes
  <2> QED  BY <1>1, <2>1, <2>2, HeadsMove DEF HeadTypes
<1>3. round' \in [Units -> Nat]
  <2>1. ASSUME NEW u \in Units, Review(u) PROVE round' \in [Units -> Nat]
    BY <1>1, <2>1 DEF Review, HeadTypes
  <2> QED  BY <1>1, <2>1, RoundMoves DEF HeadTypes
<1> QED  BY <1>2, <1>3 DEF HeadTypes

-----------------------------------------------------------------------------
(* A pull request never goes and keeps its unit, and a branch only grows.  *)

\* After the step, for what was kept before it.
OwnedThen(n, u) == n \in Numbers /\ pr'[n].st # "none" /\ pr'[n].unit = u

\* A pull request that is there stays the unit's, whoever merges, closes or reopens it, and the next one
\* takes the next number.
LEMMA PullsStay ==
  ASSUME PullRequestAssumption, PullInv, Next
  PROVE  /\ \A n \in Numbers, u \in Units : Owned(n, u) => OwnedThen(n, u)
         /\ Numbered' /\ (Single' => Single \/ CreatedNumbers = {})
<1>1. PrTypes /\ Numbered /\ JobsKept  BY DEF PullInv, PullTypes
<1>2. PICK k \in 0..MaxPr : CreatedNumbers = 1..k  BY <1>1 DEF Numbered
<1>3. MaxPr \in Nat /\ k \in Nat /\ Cardinality(CreatedNumbers) = k  BY <1>2, NextIsNew DEF PullRequestAssumption
<1>4. ASSUME \A n \in Numbers : (pr'[n].st = "none" <=> pr[n].st = "none") /\ pr'[n].unit = pr[n].unit
      PROVE  /\ \A n \in Numbers, u \in Units : Owned(n, u) => OwnedThen(n, u)
             /\ CreatedNumbers' = CreatedNumbers
  BY <1>4 DEF Owned, OwnedThen, CreatedNumbers
<1>5. ASSUME CreatedNumbers' = CreatedNumbers PROVE Numbered' /\ (Single' => Single \/ CreatedNumbers = {})
  BY <1>2, <1>5 DEF Numbered, Single
<1>6. CASE UNCHANGED pr  BY <1>4, <1>5, <1>6
<1>7. ASSUME NEW n \in Numbers, MergeOutside(n) \/ CloseOutside(n) \/ ReopenOutside(n)
      PROVE  \A m \in Numbers : (pr'[m].st = "none" <=> pr[m].st = "none") /\ pr'[m].unit = pr[m].unit
  BY <1>1, <1>7 DEF MergeOutside, CloseOutside, ReopenOutside, MergedBy, PrTypes, Pulls
<1>8. ASSUME NEW u \in Units, ShipMerge(u)
      PROVE  \A m \in Numbers : (pr'[m].st = "none" <=> pr[m].st = "none") /\ pr'[m].unit = pr[m].unit
  <2>1. job[u].n \in Numbers /\ pr[job[u].n].st # "none"  BY <1>1, <1>8 DEF ShipMerge, JobsKept, Owned
  <2> QED  BY <1>1, <1>8, <2>1 DEF ShipMerge, MergedBy, PrTypes, Pulls
<1>9. ASSUME NEW v \in Units, OpenFind(v), ~UNCHANGED pr
      PROVE  /\ \A n \in Numbers, u \in Units : Owned(n, u) => OwnedThen(n, u)
             /\ Numbered' /\ (Single' => Single \/ CreatedNumbers = {})
  <2>1. PICK n \in Numbers : n = Cardinality(CreatedNumbers) + 1 /\ pr' = [pr EXCEPT ![n].st = "OPEN", ![n].unit = v]
    BY <1>9 DEF OpenFind
  <2>2. n = k + 1 /\ n \notin CreatedNumbers  BY <1>2, <1>3, <2>1
  <2>3. \A m \in Numbers, u \in Units : Owned(m, u) => OwnedThen(m, u)
    BY <1>1, <2>1, <2>2 DEF Owned, OwnedThen, CreatedNumbers, PrTypes, Pulls
  <2>4. CreatedNumbers' = CreatedNumbers \cup {n}
    BY <1>1, <2>1 DEF CreatedNumbers, PrTypes, Pulls
  <2>5. CreatedNumbers' = 1..n /\ n \in 0..MaxPr  BY <1>2, <1>3, <2>2, <2>4 DEF Numbers
  <2>6. Numbered'  BY <2>5 DEF Numbered
  <2>7. Single' => CreatedNumbers = {}
    <3> SUFFICES ASSUME Single' PROVE CreatedNumbers = {}  OBVIOUS
    <3>1. n = 1  BY <2>1, <2>5 DEF Single, Numbers
    <3> QED  BY <1>2, <1>3, <2>2, <3>1
  <2> QED  BY <2>3, <2>6, <2>7
<1> QED  BY <1>4, <1>5, <1>6, <1>7, <1>8, <1>9, PullsMove

\* The heads of a branch and its clean rebases only grow, and so do the red runs of a head while it is the last.
LEMMA HeadsGrow ==
  ASSUME PullRequestAssumption, PullInv, Next
  PROVE  \A u \in Units :
           /\ tip[u] \in Nat /\ tip'[u] \in Nat /\ tip[u] <= tip'[u] /\ tip'[u] <= MaxHead
           /\ clean[u] \subseteq clean'[u]
           /\ check[u].done \in Nat /\ check'[u].done \in Nat
           /\ tip'[u] = tip[u] => check[u].done <= check'[u].done
<1>1. HeadTypes /\ CheckTypes /\ HeadsBounded /\ MaxHead \in Nat \ {0}
  BY DEF PullInv, PullTypes, PullRequestAssumption
<1>2. HeadTypes' /\ CheckTypes'  BY HeadTyped, CheckTyped
<1>3. \A u \in Units : tip[u] \in Nat /\ tip'[u] \in Nat /\ check[u].done \in Nat /\ check'[u].done \in Nat
  BY <1>1, <1>2 DEF HeadTypes, CheckTypes, Runs
<1>4. \A u \in Units : tip[u] <= tip'[u] /\ tip'[u] <= MaxHead /\ clean[u] \subseteq clean'[u]
  <2>1. CASE UNCHANGED <<tip, clean>>  BY <1>1, <1>3, <2>1 DEF HeadsBounded
  <2>2. ASSUME NEW v \in Units, NEW rebase \in BOOLEAN, Push(v, rebase)
        PROVE  \A u \in Units : tip[u] <= tip'[u] /\ tip'[u] <= MaxHead /\ clean[u] \subseteq clean'[u]
    BY <1>1, <1>3, <2>2 DEF Push, HeadsBounded, HeadTypes
  <2>3. ASSUME NEW v \in Units, OpenPush(v)
        PROVE  \A u \in Units : tip[u] <= tip'[u] /\ tip'[u] <= MaxHead /\ clean[u] \subseteq clean'[u]
    BY <1>1, <1>3, <2>3 DEF OpenPush, HeadsBounded, HeadTypes
  <2> QED  BY <2>1, <2>2, <2>3, HeadsMove
<1>5. \A u \in Units : tip'[u] = tip[u] => check[u].done <= check'[u].done
  <2>1. CASE UNCHANGED check  BY <1>3, <2>1
  <2>2. ASSUME NEW v \in Units, NEW rebase \in BOOLEAN, Push(v, rebase)
        PROVE  \A u \in Units : tip'[u] = tip[u] => check[u].done <= check'[u].done
    BY <1>1, <1>3, <2>2 DEF Push, HeadTypes, CheckTypes, Runs
  <2>3. ASSUME NEW v \in Units, ChecksEnd(v) \/ RerunBegins(v)
        PROVE  \A u \in Units : tip'[u] = tip[u] => check[u].done <= check'[u].done
    BY <1>1, <1>3, <2>3 DEF ChecksEnd, RerunBegins, CheckTypes, Runs
  <2>4. ASSUME NEW r \in Readers, AskRerun(r)
        PROVE  \A u \in Units : tip'[u] = tip[u] => check[u].done <= check'[u].done
    <3>1. ci[r].unit \in Units  BY <2>4 DEF AskRerun, PullInv, ReadsKept
    <3>2. CASE check' = [check EXCEPT ![ci[r].unit].due = TRUE]  BY <1>1, <1>3, <3>1, <3>2 DEF CheckTypes, Runs
    <3> QED  BY <1>3, <2>1, <2>4, <3>2 DEF AskRerun
  <2> QED  BY <2>1, <2>2, <2>3, <2>4, ChecksMove
<1> QED  BY <1>3, <1>4, <1>5

-----------------------------------------------------------------------------
(* What is kept of a pull request stays true of it.                        *)

\* The rows go on naming pull requests of their units, and no head to come.
LEMMA RowsStay ==
  ASSUME PullRequestAssumption, PullInv, Next
  PROVE  RowsKept'
<1>1. RowsKept /\ JobsKept /\ ReadsKept /\ WalkKept /\ NowTypes /\ JobTypes /\ ReadTypes /\ WalkTypes
  BY DEF PullInv, PullTypes
<1>2. /\ \A n \in Numbers, u \in Units : Owned(n, u) => OwnedThen(n, u)
      /\ \A u \in Units : tip[u] \in Nat /\ tip'[u] \in Nat /\ tip[u] <= tip'[u]
  BY PullsStay, HeadsGrow
<1>3. \A u \in Units : /\ now[u].n > 0 \/ now[u].state \in Watched => OwnedThen(now[u].n, u)
                       /\ now[u].h <= tip'[u]
                       /\ now[u].state = "open" /\ now[u].ci # "none" => now[u].h \in Heads
  BY <1>1, <1>2 DEF RowsKept, Owned, OwnedThen, NowTypes, Rows
<1>4. CASE UNCHANGED now  BY <1>3, <1>4 DEF RowsKept, Owned, OwnedThen
<1>5. ASSUME NEW u \in Units, NEW again \in BOOLEAN, OpenPr(u, again) PROVE RowsKept'
  BY <1>1, <1>3, <1>5 DEF OpenPr, RowsKept, Owned, OwnedThen, NowTypes, Rows, Opened, Watched
<1>6. ASSUME NEW u \in Units, OpenRecord(u) PROVE RowsKept'
  <2>1. OwnedThen(job[u].n, u) /\ job[u].h <= tip'[u]
    BY <1>1, <1>2, <1>6 DEF OpenRecord, JobsKept, Owned, OwnedThen, JobTypes, Jobs
  <2> QED  BY <1>1, <1>3, <1>6, <2>1 DEF OpenRecord, RowsKept, Owned, OwnedThen, NowTypes, Rows, Opened
<1>7. ASSUME NEW u \in Units, ShipView(u) \/ ShipReread(u) PROVE RowsKept'
  <2>1. CASE UNCHANGED now  BY <1>4, <2>1
  <2>2. CASE MergeRow(u) /\ Owned(job[u].n, u)
    BY <1>1, <1>3, <2>2 DEF MergeRow, RowsKept, Owned, OwnedThen, NowTypes, Rows, Watched
  <2> QED  BY <1>1, <1>7, <2>1, <2>2 DEF ShipView, ShipReread, Merged, JobsKept
<1>8. ASSUME NEW u \in Units, WalkView(u) PROVE RowsKept'
  <2>1. CASE UNCHANGED now  BY <1>4, <2>1
  <2>2. CASE MergeRow(u)
    BY <1>1, <1>3, <2>2 DEF MergeRow, RowsKept, Owned, OwnedThen, NowTypes, Rows, Watched
  <2>3. CASE now' = [now EXCEPT ![u].state = "closed"]
    BY <1>1, <1>3, <2>3 DEF RowsKept, Owned, OwnedThen, NowTypes, Rows, Watched
  <2> QED  BY <1>8, <2>1, <2>2, <2>3 DEF WalkView
<1>9. ASSUME NEW u \in Units, ReconView(u) PROVE RowsKept'
  BY <1>1, <1>3, <1>9 DEF ReconView, MergeRow, RowsKept, Owned, OwnedThen, NowTypes, Rows, Watched
<1>10. ASSUME NEW u \in Units, ShipRequest(u) PROVE RowsKept'
  <2>1. OwnedThen(job[u].n, u) /\ job[u].h <= tip'[u]
    BY <1>1, <1>2, <1>10 DEF ShipRequest, JobsKept, Owned, OwnedThen, JobTypes, Jobs
  <2> QED  BY <1>1, <1>3, <1>10, <2>1 DEF ShipRequest, RowsKept, Owned, OwnedThen, NowTypes, Rows
<1>11. ASSUME NEW r \in Readers, NEW c, CiRow(ci[r].unit, ci[r].h, c), ci[r].at # "idle" PROVE RowsKept'
  <2>1. ci[r].unit \in Units /\ ci[r].h <= tip'[ci[r].unit] /\ ci[r].h \in Heads
    BY <1>1, <1>2, <1>11 DEF ReadsKept, ReadTypes, Reads
  <2>2. now' = [now EXCEPT ![ci[r].unit].h = ci[r].h, ![ci[r].unit].ci = c]  BY <1>11 DEF CiRow
  <2>3. \A u \in Units : now'[u].n = now[u].n /\ now'[u].state = now[u].state
    BY <1>1, <2>1, <2>2 DEF NowTypes, Rows
  <2>4. \A u \in Units : u # ci[r].unit => now'[u] = now[u]  BY <1>1, <2>2 DEF NowTypes
  <2>5. now'[ci[r].unit].h = ci[r].h  BY <1>1, <2>1, <2>2 DEF NowTypes, Rows
  <2>6. \A u \in Units : now'[u].h <= tip'[u] /\ (now'[u].state = "open" /\ now'[u].ci # "none" => now'[u].h \in Heads)
    BY <1>3, <2>1, <2>4, <2>5
  <2> QED  BY <1>3, <2>3, <2>6 DEF RowsKept, Owned, OwnedThen
<1>12. ASSUME NEW r \in Readers, Judge(r) \/ JudgeUnfixable(r) \/ Record(r) PROVE RowsKept'
  BY <1>4, <1>11, <1>12 DEF Judge, JudgeUnfixable, Record
<1>13. CASE Crash
  BY <1>1, <1>3, <1>4, <1>13 DEF Crash, MergeRow, RowsKept, Owned, OwnedThen, NowTypes, Rows, Watched
<1> QED  BY <1>4, <1>5, <1>6, <1>7, <1>8, <1>9, <1>10, <1>12, <1>13, RowsMove

\* A step goes on with a pull request of its unit: it found or made it, or read it in the rows.
LEMMA JobsStay ==
  ASSUME PullRequestAssumption, PullInv, Next
  PROVE  JobsKept'
<1>1. RowsKept /\ JobsKept /\ NowTypes /\ JobTypes /\ HeadTypes /\ PrTypes
  BY DEF PullInv, PullTypes
<1>2. /\ \A n \in Numbers, u \in Units : Owned(n, u) => OwnedThen(n, u)
      /\ \A u \in Units : tip[u] \in Nat /\ tip'[u] \in Nat /\ tip[u] <= tip'[u] /\ clean[u] \subseteq clean'[u]
  BY PullsStay, HeadsGrow
<1> DEFINE Kept(v, j) == /\ j.at \in {"opened", "view", "checks", "merge", "reread"} => OwnedThen(j.n, v)
                         /\ j.h <= tip'[v]
                         /\ j.rebased > 0 => j.rebased \in clean'[v]
<1>3. \A v \in Units : Kept(v, job[v])
  BY <1>1, <1>2 DEF JobsKept, Owned, OwnedThen, JobTypes, Jobs
<1>4. ASSUME NEW u \in Units, NEW j, SetJob(u, j), Kept(u, j) PROVE JobsKept'
  BY <1>1, <1>3, <1>4 DEF SetJob, JobsKept, Owned, OwnedThen, JobTypes
<1>5. \A v \in Units : Kept(v, Idle)  BY <1>2 DEF Idle
<1>6. CASE UNCHANGED job  BY <1>3, <1>6 DEF JobsKept, Owned, OwnedThen
<1>7. ASSUME NEW u \in Units, NEW again \in BOOLEAN, OpenPr(u, again) PROVE JobsKept'
  <2>1. Kept(u, [Idle EXCEPT !.at = "push"])  BY <1>2 DEF Idle
  <2> QED  BY <1>4, <1>6, <1>7, <2>1 DEF OpenPr
<1>8. ASSUME NEW u \in Units, OpenPush(u) PROVE JobsKept'
  <2>1. Kept(u, [job[u] EXCEPT !.at = "find", !.h = tip'[u]])  BY <1>1, <1>2, <1>3 DEF JobTypes, Jobs
  <2> QED  BY <1>4, <1>8, <2>1 DEF OpenPush
<1>9. ASSUME NEW u \in Units, OpenFind(u) PROVE JobsKept'
  <2>1. PICK n \in Numbers : SetJob(u, [job[u] EXCEPT !.at = "opened", !.n = n]) /\ OwnedThen(n, u)
    <3>1. CASE UNCHANGED pr /\ \E n \in OpenOf(u) : SetJob(u, [job[u] EXCEPT !.at = "opened", !.n = n])
      BY <3>1 DEF OpenOf, Owned, OwnedThen
    <3>2. CASE \E n \in Numbers : /\ pr' = [pr EXCEPT ![n].st = "OPEN", ![n].unit = u]
                                  /\ SetJob(u, [job[u] EXCEPT !.at = "opened", !.n = n])
      BY <1>1, <3>2 DEF Owned, OwnedThen, PrTypes, Pulls
    <3> QED  BY <1>9, <3>1, <3>2 DEF OpenFind
  <2>2. Kept(u, [job[u] EXCEPT !.at = "opened", !.n = n])  BY <1>1, <1>3, <2>1 DEF JobTypes, Jobs
  <2> QED  BY <1>4, <2>1, <2>2
<1>10. ASSUME NEW u \in Units, OpenRecord(u) \/ JobFails(u) \/ ShipReread(u) PROVE JobsKept'
  <2>1. CASE SetJob(u, Idle)  BY <1>4, <1>5, <2>1
  <2> QED  BY <1>10, <2>1 DEF OpenRecord, JobFails, ShipReread, Merged, Ends
<1>11. ASSUME NEW u \in Units, Ship(u) PROVE JobsKept'
  <2>1. PICK n \in Numbers, b \in clean[u] \cup {0} :
          Owned(n, u) /\ SetJob(u, [Idle EXCEPT !.at = "view", !.n = n, !.rebased = b])
    BY <1>1, <1>11 DEF Ship, RowsKept, OpenOf, Owned, OwnedThen
  <2>2. Kept(u, [Idle EXCEPT !.at = "view", !.n = n, !.rebased = b])  BY <1>2, <2>1 DEF Idle
  <2> QED  BY <1>4, <2>1, <2>2
<1>12. ASSUME NEW u \in Units, ShipView(u) PROVE JobsKept'
  <2>1. CASE SetJob(u, Idle)  BY <1>4, <1>5, <2>1
  <2>2. CASE SetJob(u, [job[u] EXCEPT !.at = "checks", !.h = tip[u]])
    <3>1. OwnedThen(job[u].n, u)  BY <1>1, <1>2, <1>12 DEF ShipView, JobsKept, Owned, OwnedThen
    <3>2. Kept(u, [job[u] EXCEPT !.at = "checks", !.h = tip[u]])  BY <1>1, <1>2, <1>3, <3>1 DEF JobTypes, Jobs
    <3> QED  BY <1>4, <2>2, <3>2
  <2> QED  BY <1>12, <2>1, <2>2 DEF ShipView, Merged, Ends
<1>13. ASSUME NEW u \in Units, ShipRequest(u) PROVE JobsKept'
  <2>1. CASE SetJob(u, Idle)  BY <1>4, <1>5, <2>1
  <2>2. CASE SetJob(u, [job[u] EXCEPT !.at = "merge", !.rebased = 0])
    <3>1. OwnedThen(job[u].n, u)  BY <1>1, <1>2, <1>13 DEF ShipRequest, JobsKept, Owned, OwnedThen
    <3>2. Kept(u, [job[u] EXCEPT !.at = "merge", !.rebased = 0])  BY <1>1, <1>3, <3>1 DEF JobTypes, Jobs
    <3> QED  BY <1>4, <2>2, <3>2
  <2> QED  BY <1>13, <2>1, <2>2 DEF ShipRequest, Ends
<1>14. ASSUME NEW u \in Units, ShipMerge(u) PROVE JobsKept'
  <2>1. OwnedThen(job[u].n, u)  BY <1>1, <1>2, <1>14 DEF ShipMerge, JobsKept, Owned, OwnedThen
  <2>2. Kept(u, [job[u] EXCEPT !.at = "reread", !.h = 0])  BY <1>1, <1>2, <1>3, <2>1 DEF JobTypes, Jobs
  <2> QED  BY <1>4, <1>14, <2>2 DEF ShipMerge
<1>15. CASE Crash  BY <1>5, <1>15 DEF Crash, NothingRuns, JobsKept, Owned, OwnedThen
<1> QED  BY <1>6, <1>7, <1>8, <1>9, <1>10, <1>11, <1>12, <1>13, <1>14, <1>15, JobsMove

\* The walk goes on with what the rows said when it began.
LEMMA WalkStays ==
  ASSUME PullRequestAssumption, PullInv, Next
  PROVE  WalkKept'
<1>1. RowsKept /\ WalkKept /\ NowTypes /\ WalkTypes /\ HeadTypes  BY DEF PullInv, PullTypes
<1>2. /\ \A n \in Numbers, u \in Units : Owned(n, u) => OwnedThen(n, u)
      /\ \A u \in Units : tip[u] \in Nat /\ tip'[u] \in Nat /\ tip[u] <= tip'[u]
  BY PullsStay, HeadsGrow
<1>3. /\ reader.todo \subseteq Units /\ \A u \in Units : reader.seen[u] \in Nat /\ reader.seen[u] <= tip'[u]
      /\ reader.at # "idle" => \A u \in reader.todo : OwnedThen(reader.snap[u].n, u)
  BY <1>1, <1>2 DEF WalkKept, WalkTypes, Walks, Owned, OwnedThen
<1>4. CASE UNCHANGED reader  BY <1>3, <1>4 DEF WalkKept, Owned, OwnedThen
<1>5. ASSUME Walk(NoWalk) PROVE WalkKept'
  BY <1>2, <1>5 DEF Walk, NoWalk, WalkKept
<1>6. CASE WalkBegins
  <2> DEFINE todo == {u \in Units : now[u].state \in Watched}
             snap == [u \in Units |-> IF u \notin todo THEN Unread ELSE [n |-> now[u].n, h |-> now[u].h, ci |-> now[u].ci]]
  <2>1. reader' = [NoWalk EXCEPT !.at = "list", !.todo = todo, !.snap = snap] /\ todo \subseteq Units
    BY <1>6 DEF WalkBegins, Walk
  <2>2. \A u \in todo : snap[u].n = now[u].n  OBVIOUS
  <2>3. \A u \in todo : OwnedThen(snap[u].n, u)  BY <1>1, <1>2, <2>2 DEF RowsKept, Owned
  <2> HIDE DEF todo, snap
  <2>4. reader'.todo = todo /\ reader'.snap = snap /\ reader'.seen = [u \in Units |-> 0]
    BY <2>1 DEF NoWalk
  <2> QED  BY <1>2, <2>3, <2>4 DEF WalkKept, Owned, OwnedThen
<1>7. CASE WalkList
  <2>1. /\ reader.at = "list" /\ reader'.todo = reader.todo /\ reader'.snap = reader.snap
        /\ \A u \in Units : reader'.seen[u] \in {0, tip[u]}
    BY <1>1, <1>7 DEF WalkList, Walk, WalkTypes, Walks
  <2>2. \A u \in Units : reader'.seen[u] <= tip'[u]  BY <1>2, <2>1
  <2> QED  BY <1>3, <2>1, <2>2 DEF WalkKept, Owned, OwnedThen
<1>8. ASSUME NEW u \in Units, Takes(u), NEW m, reader' = [Taken(u) EXCEPT !.merged = m] \/ reader' = Taken(u)
      PROVE  WalkKept'
  <2>1. /\ reader.at = "next" /\ reader'.todo = reader.todo \ {u} /\ reader'.snap = reader.snap
        /\ reader'.seen = [reader.seen EXCEPT ![u] = 0]
    BY <1>1, <1>8 DEF Takes, Taken, WalkTypes, Walks
  <2>2. \A v \in Units : reader'.seen[v] <= tip'[v]  BY <1>1, <1>2, <1>3, <2>1 DEF WalkTypes, Walks
  <2> QED  BY <1>3, <2>1, <2>2 DEF WalkKept, Owned, OwnedThen
<1>9. ASSUME NEW u \in Units, WalkSkip(u) \/ WalkChecks(u) \/ WalkView(u) PROVE WalkKept'
  BY <1>8, <1>9 DEF WalkSkip, WalkChecks, WalkView, Walk
<1>10. CASE WalkFails  BY <1>5, <1>8, <1>10 DEF WalkFails, Walk
<1>11. CASE WalkNotes \/ TurnOff  BY <1>5, <1>11 DEF WalkNotes, TurnOff
<1>12. CASE Crash  BY <1>5, <1>12 DEF Crash, NothingRuns, Walk
<1> QED  BY <1>4, <1>6, <1>7, <1>9, <1>10, <1>11, <1>12, WalkMoves

\* A read is of a head the branch had, and of red runs it had: those that end later only add to them.
LEMMA ReadsStay ==
  ASSUME PullRequestAssumption, PullInv, Next
  PROVE  ReadsKept'
<1>1. /\ RowsKept /\ WalkKept /\ ReadsKept /\ Checks /\ HeadsBounded
      /\ NowTypes /\ ReadTypes /\ WalkTypes /\ HeadTypes /\ CheckTypes /\ MaxHead \in Nat
  BY DEF PullInv, PullTypes, PullRequestAssumption
<1>2. /\ \A n \in Numbers, u \in Units : Owned(n, u) => OwnedThen(n, u)
      /\ \A u \in Units : /\ tip[u] \in Nat /\ tip'[u] \in Nat /\ tip[u] <= tip'[u]
                          /\ check[u].done \in Nat /\ check'[u].done \in Nat
                          /\ tip'[u] = tip[u] => check[u].done <= check'[u].done
  BY PullsStay, HeadsGrow
<1> DEFINE Kept(x) ==
      x.at # "idle" =>
        /\ x.unit \in Units /\ OwnedThen(x.n, x.unit)
        /\ x.h \in Heads /\ x.h <= x.read /\ x.read <= tip'[x.unit]
        /\ x.bucket = "red" => x.done > 0
        /\ x.read = tip'[x.unit] => x.done <= check'[x.unit].done
        /\ x.at = "record" => x.bucket = "red" /\ x.said # "none"
<1>3. \A r \in Readers : Kept(ci[r])
  <2> SUFFICES ASSUME NEW r \in Readers, ci[r].at # "idle" PROVE Kept(ci[r])  OBVIOUS
  <2>1. /\ ci[r].unit \in Units /\ Owned(ci[r].n, ci[r].unit) /\ ci[r].h \in Heads
        /\ ci[r].h <= ci[r].read /\ ci[r].read <= tip[ci[r].unit] /\ ci[r].read \in Nat /\ ci[r].done \in Nat
        /\ ci[r].bucket = "red" => ci[r].done > 0
        /\ ci[r].read = tip[ci[r].unit] => ci[r].done <= check[ci[r].unit].done
        /\ ci[r].at = "record" => ci[r].bucket = "red" /\ ci[r].said # "none"
    BY <1>1 DEF ReadsKept, ReadTypes, Reads
  <2>2. OwnedThen(ci[r].n, ci[r].unit)  BY <1>2, <2>1 DEF Owned
  <2>3. ci[r].read <= tip'[ci[r].unit]  BY <1>2, <2>1
  <2>4. ci[r].read = tip'[ci[r].unit] => ci[r].done <= check'[ci[r].unit].done  BY <1>2, <2>1
  <2> QED  BY <2>1, <2>2, <2>3, <2>4
<1>4. CASE UNCHANGED ci  BY <1>3, <1>4 DEF ReadsKept, Owned, OwnedThen
<1>5. ASSUME NEW r \in Readers, NEW x, SetRead(r, x), Kept(x) PROVE ReadsKept'
  BY <1>1, <1>3, <1>5 DEF SetRead, ReadsKept, Owned, OwnedThen, ReadTypes
<1>6. Kept(NoRead)  BY DEF NoRead
<1>7. ASSUME NEW u \in Units, NEW n \in Nat, NEW h \in Nat, Owned(n, u), h \in Heads, h <= tip[u], UNCHANGED <<tip, check>>
      PROVE  Kept(Checked(u, n, h))
  <2>1. Checked(u, n, h) = [at |-> "judge", unit |-> u, n |-> n, h |-> h, read |-> tip[u],
                           bucket |-> check[u].bucket, done |-> check[u].done, said |-> "none"]
    BY <1>1, CheckedIs
  <2>2. OwnedThen(n, u) /\ (check[u].bucket = "red" => check[u].done > 0)  BY <1>1, <1>2, <1>7 DEF Owned, Checks
  <2> QED  BY <1>2, <1>7, <2>1, <2>2
<1>8. ASSUME NEW u \in Units, Ask(u) PROVE ReadsKept'
  <2>1. PICK h \in 1..tip[u] : SetRead(u, Checked(u, now[u].n, h))  BY <1>8 DEF Ask
  <2>2. Owned(now[u].n, u) /\ now[u].n \in Nat /\ h \in Heads /\ h \in Nat /\ h <= tip[u] /\ UNCHANGED <<tip, check>>
    BY <1>1, <1>2, <1>8, <2>1 DEF Ask, github, RowsKept, NowTypes, Rows, Heads, HeadsBounded
  <2>3. Kept(Checked(u, now[u].n, h))  BY <1>7, <2>2
  <2> QED  BY <1>5, <2>1, <2>3 DEF Readers
<1>9. ASSUME NEW u \in Units, WalkChecks(u) PROVE ReadsKept'
  <2>1. Owned(reader.snap[u].n, u) /\ reader.snap[u].n \in Nat
    BY <1>1, <1>9 DEF WalkChecks, Takes, WalkKept, WalkTypes, Walks
  <2>2. reader.seen[u] \in Heads /\ reader.seen[u] \in Nat /\ reader.seen[u] <= tip[u] /\ UNCHANGED <<tip, check>>
    BY <1>1, <1>2, <1>9 DEF WalkChecks, github, WalkKept, WalkTypes, Walks, Heads, HeadsBounded
  <2>3. Kept(Checked(u, reader.snap[u].n, reader.seen[u]))  BY <1>7, <2>1, <2>2
  <2> QED  BY <1>5, <1>9, <2>3 DEF WalkChecks, Readers
<1>10. ASSUME NEW r \in Readers, Judge(r) \/ JudgeUnfixable(r) \/ Record(r) PROVE ReadsKept'
  <2>1. SetRead(r, NoRead)  BY <1>10 DEF Judge, JudgeUnfixable, Record
  <2> QED  BY <1>5, <1>6, <2>1
<1>11. ASSUME NEW r \in Readers, AskRerun(r) PROVE ReadsKept'
  <2>1. PICK s \in {"asked", "refused"} : SetRead(r, [ci[r] EXCEPT !.at = "record", !.said = s])
    BY <1>11 DEF AskRerun
  <2>2. ci[r] \in Reads /\ ci[r].at = "judge" /\ ci[r].bucket = "red"
    BY <1>1, <1>11 DEF AskRerun, MayRerun, ReadTypes
  <2> DEFINE x == [ci[r] EXCEPT !.at = "record", !.said = s]
  <2>3. /\ x.at = "record" /\ x.said = s /\ x.unit = ci[r].unit /\ x.n = ci[r].n /\ x.h = ci[r].h
        /\ x.read = ci[r].read /\ x.bucket = ci[r].bucket /\ x.done = ci[r].done
    BY <2>2 DEF Reads
  <2> HIDE DEF x
  <2>4. Kept(x)  BY <1>3, <2>2, <2>3
  <2> QED  BY <1>5, <2>1, <2>4 DEF x
<1>12. CASE Crash  BY <1>6, <1>12 DEF Crash, NothingRuns, ReadsKept, Owned, OwnedThen
<1>13. CASE TurnOff  BY <1>5, <1>6, <1>13 DEF TurnOff, Readers
<1> QED  BY <1>4, <1>8, <1>9, <1>10, <1>11, <1>12, <1>13, ReadsMove

\* The checks of a head end red before a rerun of them is due.
LEMMA ChecksStay ==
  ASSUME PullRequestAssumption, PullInv, Next
  PROVE  Checks'
<1>1. Checks /\ CheckTypes /\ ReadsKept  BY DEF PullInv, PullTypes
<1>2. CASE UNCHANGED check  BY <1>1, <1>2 DEF Checks
<1>3. ASSUME NEW u \in Units, NEW rebase \in BOOLEAN, Push(u, rebase) PROVE Checks'
  BY <1>1, <1>3 DEF Push, NoRuns, Checks, CheckTypes
<1>4. ASSUME NEW u \in Units, ChecksEnd(u) PROVE Checks'
  BY <1>1, <1>4 DEF ChecksEnd, Checks, CheckTypes, Runs
<1>5. ASSUME NEW u \in Units, RerunBegins(u) PROVE Checks'
  BY <1>1, <1>5 DEF RerunBegins, Checks, CheckTypes, Runs
<1>6. ASSUME NEW r \in Readers, AskRerun(r) PROVE Checks'
  <2>1. CASE check' = [check EXCEPT ![ci[r].unit].due = TRUE] /\ check[ci[r].unit].bucket = "red"
    BY <1>1, <2>1 DEF Checks, CheckTypes, Runs
  <2> QED  BY <1>2, <1>6, <2>1 DEF AskRerun
<1> QED  BY <1>2, <1>3, <1>4, <1>5, <1>6, ChecksMove

-----------------------------------------------------------------------------
(* What is decided or recorded of a head stays so while it is the last.    *)

\* A merge that was decided rests on checks that stay green and a review that stays the last, until the
\* next push, which the pinned head refuses.
LEMMA DecidedStays ==
  ASSUME PullRequestAssumption, PullInv, Next
  PROVE  Decided'
<1>1. /\ JobsKept /\ Decided /\ Checks /\ ReadsKept
      /\ JobTypes /\ HeadTypes /\ CheckTypes
  BY DEF PullInv, PullTypes
<1>2. \A u \in Units : /\ tip[u] \in Nat /\ tip'[u] \in Nat /\ tip[u] <= tip'[u] /\ clean[u] \subseteq clean'[u]
                       /\ round[u] \in Nat /\ job[u].h \in Nat /\ job[u].rebased \in Nat
  BY <1>1, HeadsGrow DEF HeadTypes, JobTypes, Jobs
<1> SUFFICES ASSUME NEW u \in Units, job'[u].at = "merge", job'[u].h = tip'[u]
             PROVE  /\ check'[u].bucket = "green" /\ round'[u] > 0
                    /\ round'[u] = tip'[u] \/ (round'[u] = tip'[u] - 1 /\ tip'[u] \in clean'[u])
  BY DEF Decided
<1>3. \/ job'[u] = job[u]
      \/ ShipRequest(u) /\ ShipReady(job[u], check[u].bucket, round[u]) /\ job'[u].h = job[u].h
  <2>1. CASE UNCHANGED job  BY <2>1
  <2>2. ASSUME NEW v \in Units, NEW j, SetJob(v, j), j.at # "merge" PROVE job'[u] = job[u]
    BY <1>1, <2>2 DEF SetJob, JobTypes
  <2>3. Idle.at # "merge"  BY DEF Idle
  <2>4. \A v \in Units : job[v] \in Jobs  BY <1>1 DEF JobTypes
  <2>5. ASSUME NEW v \in Units, NEW again \in BOOLEAN, OpenPr(v, again) PROVE job'[u] = job[u]
    <3>1. [Idle EXCEPT !.at = "push"].at # "merge"  BY DEF Idle
    <3> QED  BY <2>1, <2>2, <2>5, <3>1 DEF OpenPr
  <2>6. ASSUME NEW v \in Units, OpenPush(v) PROVE job'[u] = job[u]
    <3>1. [job[v] EXCEPT !.at = "find", !.h = tip'[v]].at # "merge"  BY <2>4 DEF Jobs
    <3> QED  BY <2>2, <2>6, <3>1 DEF OpenPush
  <2>7. ASSUME NEW v \in Units, OpenFind(v) PROVE job'[u] = job[u]
    <3>1. PICK n \in Numbers : SetJob(v, [job[v] EXCEPT !.at = "opened", !.n = n])  BY <2>7 DEF OpenFind, OpenOf
    <3>2. [job[v] EXCEPT !.at = "opened", !.n = n].at # "merge"  BY <2>4 DEF Jobs
    <3> QED  BY <2>2, <3>1, <3>2
  <2>8. ASSUME NEW v \in Units, OpenRecord(v) \/ JobFails(v) \/ ShipReread(v) PROVE job'[u] = job[u]
    BY <2>2, <2>3, <2>8 DEF OpenRecord, JobFails, ShipReread, Merged, Ends
  <2>9. ASSUME NEW v \in Units, Ship(v) PROVE job'[u] = job[u]
    <3>1. PICK n \in (IF now[v].n > 0 THEN {now[v].n} ELSE OpenOf(v)) :
            SetJob(v, [Idle EXCEPT !.at = "view", !.n = n,
                        !.rebased = IF tip[v] \in clean[v] /\ round[v] = tip[v] - 1 THEN tip[v] ELSE 0])
      BY <2>9 DEF Ship
    <3>2. [Idle EXCEPT !.at = "view", !.n = n,
             !.rebased = IF tip[v] \in clean[v] /\ round[v] = tip[v] - 1 THEN tip[v] ELSE 0].at # "merge"
      BY DEF Idle
    <3> QED  BY <2>2, <3>1, <3>2
  <2>10. ASSUME NEW v \in Units, ShipView(v) PROVE job'[u] = job[u]
    <3>1. [job[v] EXCEPT !.at = "checks", !.h = tip[v]].at # "merge"  BY <2>4 DEF Jobs
    <3> QED  BY <2>2, <2>3, <2>10, <3>1 DEF ShipView, Merged, Ends
  <2>11. ASSUME NEW v \in Units, ShipMerge(v) PROVE job'[u] = job[u]
    <3>1. [job[v] EXCEPT !.at = "reread", !.h = 0].at # "merge"  BY <2>4 DEF Jobs
    <3> QED  BY <2>2, <2>11, <3>1 DEF ShipMerge
  <2>12. ASSUME NEW v \in Units, ShipRequest(v)
         PROVE  \/ job'[u] = job[u]
                \/ ShipRequest(u) /\ ShipReady(job[u], check[u].bucket, round[u]) /\ job'[u].h = job[u].h
    <3>1. CASE Ends(v)  BY <2>2, <2>3, <3>1 DEF Ends
    <3>2. CASE SetJob(v, [job[v] EXCEPT !.at = "merge", !.rebased = 0]) /\ ShipReady(job[v], check[v].bucket, round[v])
      <4>1. v # u => job'[u] = job[u]  BY <1>1, <3>2 DEF SetJob, JobTypes
      <4>2. v = u => job'[u].h = job[u].h  BY <1>1, <2>4, <3>2 DEF SetJob, JobTypes, Jobs
      <4> QED  BY <2>12, <3>2, <4>1, <4>2
    <3> QED  BY <2>12, <3>1, <3>2 DEF ShipRequest
  <2>13. ~Crash  BY DEF Crash, NothingRuns, Idle
  <2> QED  BY <2>1, <2>5, <2>6, <2>7, <2>8, <2>9, <2>10, <2>11, <2>12, <2>13, JobsMove
<1>4. CASE job'[u] = job[u]
  <2>1. tip'[u] = tip[u]  BY <1>1, <1>2, <1>4 DEF JobsKept
  <2>2. /\ check[u].bucket = "green" /\ round[u] > 0
        /\ round[u] = tip[u] \/ (round[u] = tip[u] - 1 /\ tip[u] \in clean[u])
    BY <1>1, <1>4, <2>1 DEF Decided
  <2>3. round'[u] = round[u]
    <3>1. ASSUME NEW v \in Units, Review(v) PROVE round'[u] = round[u]
      BY <1>1, <1>4, <3>1 DEF Review, HeadTypes
    <3> QED  BY <3>1, RoundMoves
  <2>4. check'[u].bucket = "green"
    <3>1. CASE UNCHANGED check  BY <2>2, <3>1
    <3>2. ASSUME NEW v \in Units, NEW rebase \in BOOLEAN, Push(v, rebase) PROVE check'[u].bucket = "green"
      BY <1>1, <1>2, <2>1, <2>2, <3>2 DEF Push, HeadTypes, CheckTypes
    <3>3. ASSUME NEW v \in Units, ChecksEnd(v) PROVE check'[u].bucket = "green"
      BY <1>1, <2>2, <3>3 DEF ChecksEnd, CheckTypes, Runs
    <3>4. ASSUME NEW v \in Units, RerunBegins(v) PROVE check'[u].bucket = "green"
      BY <1>1, <2>2, <3>4 DEF RerunBegins, CheckTypes, Runs, Checks
    <3>5. ASSUME NEW r \in Readers, AskRerun(r) PROVE check'[u].bucket = "green"
      <4>1. CASE check' = [check EXCEPT ![ci[r].unit].due = TRUE]  BY <1>1, <2>2, <4>1 DEF CheckTypes, Runs
      <4> QED  BY <3>1, <3>5, <4>1 DEF AskRerun
    <3> QED  BY <3>1, <3>2, <3>3, <3>4, <3>5, ChecksMove
  <2> QED  BY <1>2, <2>1, <2>2, <2>3, <2>4
<1>5. CASE ShipRequest(u) /\ ShipReady(job[u], check[u].bucket, round[u]) /\ job'[u].h = job[u].h
  <2>1. UNCHANGED <<tip, check, clean, round>>  BY <1>5 DEF ShipRequest, github
  <2>2. check[u].bucket = "green" /\ round[u] > 0
        /\ (job[u].h = round[u] \/ (job[u].h = job[u].rebased /\ round[u] = job[u].rebased - 1))
    BY <1>5 DEF ShipReady
  <2>3. job[u].rebased > 0 => job[u].rebased \in clean[u]  BY <1>1 DEF JobsKept
  <2>4. job[u].h = tip[u]  BY <1>5, <2>1
  <2>5. round[u] = tip[u] \/ (round[u] = tip[u] - 1 /\ tip[u] \in clean[u])  BY <1>2, <2>2, <2>3, <2>4
  <2> QED  BY <2>1, <2>2, <2>5
<1> QED  BY <1>3, <1>4, <1>5

\* `rerun_at` reads the first row that names one: what it says of a head never changes.
LEMMA RerunRowIs ==
  ASSUME RerunTypes, NEW u \in Units, NEW h \in Heads, NEW said, NEW done, RerunRow(u, h, said, done)
  PROVE  /\ \A v \in Units, k \in Heads : rerun[v][k].said # "none" => rerun'[v][k] = rerun[v][k]
         /\ \A v \in Units, k \in Heads : rerun'[v][k] = rerun[v][k] \/ (v = u /\ k = h)
         /\ rerun[u][h].said = "none" /\ said # "none" => rerun'[u][h] = [said |-> said, done |-> done]
         /\ said = "none" => UNCHANGED rerun
  BY DEF RerunRow, RerunTypes

\* A rerun's row is of a head that was pushed, and counts red runs it had.
LEMMA AskedStays ==
  ASSUME PullRequestAssumption, PullInv, Next
  PROVE  Asked'
<1>1. ReadsKept /\ Asked /\ HeadTypes /\ RerunTypes /\ ReadTypes  BY DEF PullInv, PullTypes
<1>2. \A u \in Units : /\ tip[u] \in Nat /\ tip'[u] \in Nat /\ tip[u] <= tip'[u]
                       /\ check[u].done \in Nat /\ check'[u].done \in Nat
                       /\ tip'[u] = tip[u] => check[u].done <= check'[u].done
  BY HeadsGrow
<1>3. \A u \in Units, h \in Heads : rerun[u][h].said # "none" =>
        h <= tip'[u] /\ rerun[u][h].done > 0 /\ (h = tip'[u] => rerun[u][h].done <= check'[u].done)
  <2> SUFFICES ASSUME NEW u \in Units, NEW h \in Heads, rerun[u][h].said # "none"
               PROVE  h <= tip'[u] /\ rerun[u][h].done > 0 /\ (h = tip'[u] => rerun[u][h].done <= check'[u].done)
    OBVIOUS
  <2>1. h \in Nat /\ rerun[u][h].done \in Nat  BY <1>1 DEF Heads, RerunTypes, Reruns
  <2>2. h <= tip[u] /\ rerun[u][h].done > 0 /\ (h = tip[u] => rerun[u][h].done <= check[u].done)  BY <1>1 DEF Asked
  <2> QED  BY <1>2, <2>1, <2>2
<1>4. CASE UNCHANGED rerun  BY <1>3, <1>4 DEF Asked
<1>5. ASSUME NEW r \in Readers, NEW said, RerunRow(ci[r].unit, ci[r].h, said, ci[r].done),
             ci[r].at # "idle", ci[r].bucket = "red", UNCHANGED <<tip, check>>
      PROVE  Asked'
  <2> DEFINE u == ci[r].unit
             h == ci[r].h
             done == ci[r].done
  <2>1. /\ u \in Units /\ h \in Heads /\ h \in Nat /\ done \in Nat /\ ci[r].read \in Nat
        /\ h <= ci[r].read /\ ci[r].read <= tip[u] /\ done > 0
        /\ ci[r].read = tip[u] => done <= check[u].done
    BY <1>1, <1>5 DEF ReadsKept, ReadTypes, Reads
  <2>2. h <= tip'[u] /\ (h = tip'[u] => done <= check'[u].done)  BY <1>2, <1>5, <2>1
  <2> HIDE DEF u, h, done
  <2>3. RerunRow(u, h, said, done)  BY <1>5 DEF u, h, done
  <2>4. CASE rerun[u][h].said = "none" /\ said # "none"
    <3>1. rerun'[u][h] = [said |-> said, done |-> done]  BY <1>1, <2>1, <2>3, <2>4, RerunRowIs
    <3>2. \A v \in Units, k \in Heads : rerun'[v][k] = rerun[v][k] \/ (v = u /\ k = h)
      BY <1>1, <2>3 DEF RerunRow, RerunTypes
    <3> QED  BY <1>3, <2>1, <2>2, <3>1, <3>2 DEF Asked
  <2>5. CASE ~(rerun[u][h].said = "none" /\ said # "none")
    <3>1. \A v \in Units, k \in Heads : rerun'[v][k] = rerun[v][k]  BY <2>5, <2>3 DEF RerunRow
    <3> QED  BY <1>3, <3>1 DEF Asked
  <2> QED  BY <2>4, <2>5
<1>6. ASSUME NEW r \in Readers, JudgeUnfixable(r) PROVE Asked'
  BY <1>5, <1>6 DEF JudgeUnfixable, MayRerun, github
<1>7. ASSUME NEW r \in Readers, Record(r) PROVE Asked'
  <2>1. ci[r].bucket = "red"  BY <1>1, <1>7 DEF Record, ReadsKept
  <2> QED  BY <1>5, <1>7, <2>1 DEF Record, github
<1> QED  BY <1>4, <1>6, <1>7, RerunsMove

\* The claim a read makes before it asks for a rerun is its own until the row is written.
LEMMA RecordingStays ==
  ASSUME PullRequestAssumption, PullInv, Next
  PROVE  Recording'
<1>1. ReadsKept /\ Recording /\ RerunTypes /\ ReadTypes  BY DEF PullInv, PullTypes
<1>2. Single' => Single \/ \A r \in Readers : ci[r].at = "idle"
  <2>1. Single' => Single \/ CreatedNumbers = {}  BY PullsStay
  <2>2. CreatedNumbers = {} => \A r \in Readers : ci[r].at = "idle"
    BY <1>1 DEF ReadsKept, Owned, CreatedNumbers
  <2> QED  BY <2>1, <2>2
<1>3. ASSUME Single PROVE \A r, q \in Readers : /\ ci[r].at # "idle" /\ ci[q].at # "idle" => ci[r].n = ci[q].n
                                                /\ ci[r].at # "idle" => ci[r].unit \in Units /\ ci[r].h \in Heads
  <2>1. \A r \in Readers : ci[r].at # "idle" => ci[r].n = 1 /\ ci[r].unit \in Units /\ ci[r].h \in Heads
    BY <1>1, <1>3 DEF ReadsKept, Owned, Single, CreatedNumbers
  <2> QED  BY <2>1
<1> DEFINE At(r) == ci[r].at = "record"
           Pair(r) == <<ci[r].n, ci[r].h>>
           Free(r) == rerun[ci[r].unit][ci[r].h].said = "none"
<1>4. /\ \A r \in Readers : At(r) => Pair(r) \in rerunning
      /\ \A r, q \in Readers : At(r) /\ At(q) /\ Pair(r) = Pair(q) => r = q
      /\ Single => \A r \in Readers : At(r) => Free(r)
  BY <1>1 DEF Recording
<1>5. ASSUME NEW s \in Readers, NEW x, SetRead(s, x), x.at # "record", UNCHANGED rerun,
             \A r \in Readers : r # s /\ At(r) => Pair(r) \in rerunning'
      PROVE  Recording'
  <2>1. \A r \in Readers : ci'[r].at = "record" => r # s /\ ci'[r] = ci[r]  BY <1>1, <1>5 DEF SetRead, ReadTypes
  <2>2. \A r \in Readers : ci'[r].at = "record" => <<ci'[r].n, ci'[r].h>> \in rerunning'  BY <1>5, <2>1
  <2>3. \A r, q \in Readers :
          ci'[r].at = "record" /\ ci'[q].at = "record" /\ ci'[r].n = ci'[q].n /\ ci'[r].h = ci'[q].h => r = q
    BY <1>4, <2>1
  <2>4. Single' => \A r \in Readers : ci'[r].at = "record" => rerun'[ci'[r].unit][ci'[r].h].said = "none"
    BY <1>2, <1>4, <1>5, <2>1
  <2> QED  BY <2>2, <2>3, <2>4 DEF Recording
<1>6. CASE UNCHANGED <<ci, rerun, rerunning>>  BY <1>1, <1>2, <1>6 DEF Recording
<1>7. NoRead.at # "record" /\ \A u \in Units : \A n, h : Checked(u, n, h).at # "record"  BY DEF NoRead, Checked
<1>8. ASSUME NEW u \in Units, Ask(u) PROVE Recording'
  <2>1. PICK h \in 1..tip[u] : SetRead(u, Checked(u, now[u].n, h))  BY <1>8 DEF Ask
  <2> QED  BY <1>4, <1>5, <1>7, <1>8, <2>1 DEF Ask, rows, Readers
<1>9. ASSUME NEW u \in Units, WalkChecks(u) PROVE Recording'
  BY <1>4, <1>5, <1>7, <1>9 DEF WalkChecks, rows, Readers
<1>10. ASSUME NEW r \in Readers, Judge(r) PROVE Recording'
  BY <1>4, <1>5, <1>7, <1>10 DEF Judge
<1>11. ASSUME NEW s \in Readers, JudgeUnfixable(s) \/ Record(s) PROVE Recording'
  <2>1. /\ ci[s].at # "idle" /\ SetRead(s, NoRead) /\ UNCHANGED pr
        /\ \E said : RerunRow(ci[s].unit, ci[s].h, said, ci[s].done)
    BY <1>11 DEF JudgeUnfixable, Record, github
  <2>2. \A r \in Readers : ci'[r].at = "record" => r # s /\ ci'[r] = ci[r]
    BY <1>1, <1>7, <2>1 DEF SetRead, ReadTypes
  <2>3. \A r \in Readers : r # s /\ At(r) => Pair(r) # Pair(s)
    <3>1. CASE JudgeUnfixable(s)  BY <1>4, <3>1 DEF JudgeUnfixable, MayRerun
    <3>2. CASE Record(s)  BY <1>4, <3>2 DEF Record
    <3> QED  BY <1>11, <3>1, <3>2
  <2>4. \A r \in Readers : ci'[r].at = "record" => <<ci'[r].n, ci'[r].h>> \in rerunning'
    <3>1. CASE UNCHANGED rerunning  BY <1>4, <2>2, <3>1
    <3>2. CASE rerunning' = rerunning \ {Pair(s)}  BY <1>4, <2>2, <2>3, <3>2
    <3> QED  BY <1>11, <3>1, <3>2 DEF JudgeUnfixable, Record
  <2>5. \A r, q \in Readers :
          ci'[r].at = "record" /\ ci'[q].at = "record" /\ ci'[r].n = ci'[q].n /\ ci'[r].h = ci'[q].h => r = q
    BY <1>4, <2>2
  <2>6. ASSUME Single', NEW r \in Readers, ci'[r].at = "record" PROVE rerun'[ci'[r].unit][ci'[r].h].said = "none"
    <3>1. Single  BY <1>2, <2>1, <2>6
    <3>2. r # s /\ ci'[r] = ci[r] /\ Free(r)  BY <1>4, <2>2, <2>6, <3>1
    <3>3. ci[r].unit \in Units /\ ci[r].h \in Heads /\ ci[s].unit \in Units /\ ci[s].h \in Heads /\ ci[r].n = ci[s].n
      BY <1>3, <2>1, <2>6, <3>1, <3>2
    <3>4. ci[r].h # ci[s].h  BY <2>3, <2>6, <3>2, <3>3
    <3>5. rerun'[ci[r].unit][ci[r].h] = rerun[ci[r].unit][ci[r].h]
      BY <1>1, <2>1, <3>3, <3>4 DEF RerunRow, RerunTypes
    <3> QED  BY <3>2, <3>5
  <2> QED  BY <2>4, <2>5, <2>6 DEF Recording
<1>12. ASSUME NEW s \in Readers, AskRerun(s) PROVE Recording'
  <2>1. PICK said \in {"asked", "refused"} : SetRead(s, [ci[s] EXCEPT !.at = "record", !.said = said])
    BY <1>12 DEF AskRerun
  <2>2. /\ ci[s].at = "judge" /\ Pair(s) \notin rerunning /\ Free(s) /\ ci[s] \in Reads
        /\ rerunning' = rerunning \cup {Pair(s)} /\ UNCHANGED <<pr, rerun>>
    BY <1>1, <1>12 DEF AskRerun, MayRerun, rows, ReadTypes
  <2>3. \A r \in Readers : ci'[r].n = ci[r].n /\ ci'[r].h = ci[r].h /\ ci'[r].unit = ci[r].unit
                           /\ (ci'[r].at = "record" => r = s \/ At(r))
    BY <1>1, <2>1, <2>2 DEF SetRead, ReadTypes, Reads
  <2>4. \A r \in Readers : ci'[r].at = "record" => <<ci'[r].n, ci'[r].h>> \in rerunning'  BY <1>4, <2>2, <2>3
  <2>5. \A r, q \in Readers :
          ci'[r].at = "record" /\ ci'[q].at = "record" /\ ci'[r].n = ci'[q].n /\ ci'[r].h = ci'[q].h => r = q
    BY <1>4, <2>2, <2>3
  <2>6. Single' => \A r \in Readers : ci'[r].at = "record" => rerun'[ci'[r].unit][ci'[r].h].said = "none"
    <3>1. Single' => Single  BY <1>2, <2>2
    <3> QED  BY <1>4, <2>2, <2>3, <3>1
  <2> QED  BY <2>4, <2>5, <2>6 DEF Recording
<1>13. CASE Crash
  <2>1. \A r \in Readers : ci'[r].at # "record"  BY <1>7, <1>13 DEF Crash, NothingRuns
  <2> QED  BY <2>1 DEF Recording
<1>14. CASE TurnOff
  <2>1. SetRead("reader", NoRead) /\ UNCHANGED rerun /\ "reader" \in Readers  BY <1>14 DEF TurnOff, rows, Readers
  <2>2. \A r \in Readers : r # "reader" /\ At(r) => Pair(r) \in rerunning'
    <3>1. CASE UNCHANGED rerunning  BY <1>4, <3>1
    <3>2. CASE At("reader") /\ rerunning' = rerunning \ {Pair("reader")}  BY <1>4, <2>1, <3>2
    <3> QED  BY <1>14, <3>1, <3>2 DEF TurnOff
  <2> QED  BY <1>5, <1>7, <2>1, <2>2
<1>15. CASE UNCHANGED ci
  <2>1. UNCHANGED rerunning \/ Crash \/ TurnOff
    <3>1. ASSUME NEW r \in Readers, AskRerun(r) \/ Record(r) PROVE FALSE
      <4>1. ci[r].at \in {"judge", "record"} /\ ci'[r].at # ci[r].at
        <5>1. ci[r] \in Reads /\ ci \in [Readers -> Reads]  BY <1>1 DEF ReadTypes
        <5>2. CASE AskRerun(r)
          <6>1. PICK said \in {"asked", "refused"} : SetRead(r, [ci[r] EXCEPT !.at = "record", !.said = said])
            BY <5>2 DEF AskRerun
          <6>2. [ci[r] EXCEPT !.at = "record", !.said = said].at = "record"  BY <5>1 DEF Reads
          <6> QED  BY <5>1, <5>2, <6>1, <6>2 DEF AskRerun, SetRead
        <5>3. CASE Record(r)  BY <5>1, <5>3 DEF Record, SetRead, NoRead
        <5> QED  BY <3>1, <5>2, <5>3
      <4> QED  BY <1>15, <4>1
    <3> QED  BY <3>1, RerunningMoves
  <2>2. UNCHANGED rerun
    <3>1. ASSUME NEW r \in Readers, JudgeUnfixable(r) \/ Record(r) PROVE FALSE
      <4>1. ci[r].at \in {"judge", "record"} /\ ci'[r].at # ci[r].at
        BY <1>1, <1>7, <3>1 DEF JudgeUnfixable, Record, SetRead, ReadTypes, Reads, NoRead
      <4> QED  BY <1>15, <4>1
    <3> QED  BY <3>1, RerunsMove
  <2> QED  BY <1>6, <1>13, <1>14, <1>15, <2>1, <2>2
<1> QED  BY <1>8, <1>9, <1>10, <1>11, <1>12, <1>13, <1>14, <1>15, ReadsMove

\* A row says `red` of the last head after a rerun that ran red too, or that was refused.
LEMMA RedStays ==
  ASSUME PullRequestAssumption, PullInv, Next
  PROVE  RedAtTip'
<1>1. /\ RowsKept /\ ReadsKept /\ Asked /\ Recording /\ RedAtTip
      /\ NowTypes /\ JobTypes /\ RerunTypes /\ ReadTypes
  BY DEF PullInv, PullTypes
<1>2. \A u \in Units : /\ tip[u] \in Nat /\ tip'[u] \in Nat /\ tip[u] <= tip'[u] /\ now[u].h \in Nat
                       /\ check[u].done \in Nat /\ check'[u].done \in Nat
                       /\ tip'[u] = tip[u] => check[u].done <= check'[u].done
  BY <1>1, HeadsGrow DEF NowTypes, Rows
<1> SUFFICES ASSUME Single', NEW u \in Units, now'[u].state = "open", now'[u].ci = "red", now'[u].h = tip'[u]
             PROVE  check'[u].done >= 2 \/ rerun'[u][tip'[u]].said = "refused"
  BY DEF RedAtTip
<1>3. Single \/ CreatedNumbers = {}  BY PullsStay
<1>4. \A h \in Heads : rerun[u][h].said = "refused" => rerun'[u][h].said = "refused"
  <2>1. ASSUME NEW r \in Readers, NEW said, ci[r].at # "idle", RerunRow(ci[r].unit, ci[r].h, said, ci[r].done)
        PROVE  \A h \in Heads : rerun[u][h].said = "refused" => rerun'[u][h].said = "refused"
    <3>1. ci[r].unit \in Units /\ ci[r].h \in Heads  BY <1>1, <2>1 DEF ReadsKept
    <3> QED  BY <1>1, <2>1, <3>1 DEF RerunRow, RerunTypes, Reruns
  <2>2. ASSUME NEW r \in Readers, JudgeUnfixable(r) \/ Record(r)
        PROVE  \A h \in Heads : rerun[u][h].said = "refused" => rerun'[u][h].said = "refused"
    BY <2>1, <2>2 DEF JudgeUnfixable, Record
  <2> QED  BY <2>2, RerunsMove
<1>5. CASE now'[u] = now[u]
  <2>1. tip'[u] = tip[u] /\ tip[u] \in Heads  BY <1>1, <1>2, <1>5 DEF RowsKept
  <2>2. CreatedNumbers # {}  BY <1>1, <1>5 DEF RowsKept, Watched, Owned, CreatedNumbers
  <2>3. check[u].done >= 2 \/ rerun[u][tip[u]].said = "refused"  BY <1>1, <1>3, <1>5, <2>1, <2>2 DEF RedAtTip
  <2> QED  BY <1>2, <1>4, <2>1, <2>3
<1>6. ASSUME NEW r \in Readers, NEW c, CiRow(ci[r].unit, ci[r].h, c), ci[r].at # "idle", UNCHANGED <<pr, tip>>,
             ci[r].unit = u
      PROVE  /\ c = "red" /\ ci[r].h = tip[u] /\ ci[r].h \in Heads /\ ci[r].read = ci[r].h
             /\ ci[r].done \in Nat /\ ci[r].done <= check[u].done /\ Single
             /\ ci[r].bucket = "red" => ci[r].done > 0
  <2>1. now'[u].ci = c /\ now'[u].h = ci[r].h  BY <1>1, <1>6 DEF CiRow, NowTypes, Rows
  <2>2. /\ ci[r].h \in Heads /\ ci[r].h <= ci[r].read /\ ci[r].read <= tip[u] /\ ci[r].read \in Nat /\ ci[r].h \in Nat
        /\ ci[r].read = tip[u] => ci[r].done <= check[u].done
        /\ ci[r].bucket = "red" => ci[r].done > 0
        /\ ci[r].done \in Nat
    BY <1>1, <1>6 DEF ReadsKept, ReadTypes, Reads
  <2>3. Single  BY <1>6 DEF Single, CreatedNumbers
  <2> QED  BY <1>2, <1>6, <2>1, <2>2, <2>3
<1>7. ASSUME NEW r \in Readers, NEW c, CiRow(ci[r].unit, ci[r].h, c), ci[r].unit # u PROVE now'[u] = now[u]
  BY <1>1, <1>7 DEF CiRow, NowTypes
<1>8. ASSUME NEW r \in Readers, Judge(r)
      PROVE  check'[u].done >= 2 \/ rerun'[u][tip'[u]].said = "refused"
  <2>1. CASE UNCHANGED now  BY <1>5, <2>1
  <2>2. CASE CiRow(ci[r].unit, ci[r].h, CiNow(r)) /\ ci[r].unit = u
    <3>1. UNCHANGED <<pr, tip, check, rerun>> /\ ci[r].at # "idle"  BY <1>8 DEF Judge, github
    <3>2. /\ CiNow(r) = "red" /\ ci[r].h = tip[u] /\ ci[r].h \in Heads
          /\ ci[r].done \in Nat /\ ci[r].done <= check[u].done
          /\ ci[r].bucket = "red" => ci[r].done > 0
      BY <1>6, <2>2, <3>1
    <3>3. /\ ci[r].bucket = "red" /\ rerun[u][tip[u]].said # "none"
          /\ ci[r].done # rerun[u][tip[u]].done \/ rerun[u][tip[u]].said = "refused"
      BY <2>2, <3>2 DEF CiNow
    <3>4. rerun[u][tip[u]].done \in Nat /\ rerun[u][tip[u]].done > 0 /\ rerun[u][tip[u]].done <= check[u].done
      BY <1>1, <3>2, <3>3 DEF Asked, RerunTypes, Reruns
    <3> QED  BY <1>2, <3>1, <3>2, <3>3, <3>4
  <2> QED  BY <1>5, <1>7, <1>8, <2>1, <2>2 DEF Judge
<1>9. ASSUME NEW r \in Readers, JudgeUnfixable(r)
      PROVE  check'[u].done >= 2 \/ rerun'[u][tip'[u]].said = "refused"
  <2>1. CASE ci[r].unit = u
    <3>1. UNCHANGED <<pr, tip, check>> /\ ci[r].at # "idle"  BY <1>9 DEF JudgeUnfixable, github
    <3>2. ci[r].h = tip[u] /\ ci[r].h \in Heads  BY <1>6, <1>9, <2>1, <3>1 DEF JudgeUnfixable
    <3>3. rerun[u][ci[r].h].said = "none" /\ RerunRow(u, ci[r].h, "refused", ci[r].done)
      BY <1>9, <2>1 DEF JudgeUnfixable, MayRerun
    <3>4. rerun'[u][ci[r].h].said = "refused"  BY <1>1, <3>2, <3>3 DEF RerunRow, RerunTypes
    <3> QED  BY <3>1, <3>2, <3>4
  <2> QED  BY <1>5, <1>7, <1>9, <2>1 DEF JudgeUnfixable
<1>10. ASSUME NEW r \in Readers, Record(r)
       PROVE  check'[u].done >= 2 \/ rerun'[u][tip'[u]].said = "refused"
  <2>1. CASE ci[r].unit = u
    <3> DEFINE c == IF ci[r].said = "asked" THEN "pending" ELSE "red"
    <3>1. UNCHANGED <<pr, tip, check>> /\ ci[r].at = "record"  BY <1>10 DEF Record, github
    <3>2. c = "red" /\ ci[r].h = tip[u] /\ ci[r].h \in Heads /\ Single  BY <1>6, <1>10, <2>1, <3>1 DEF Record
    <3>3. ci[r].said = "refused"  BY <1>1, <3>1, <3>2 DEF ReadsKept, ReadTypes, Reads
    <3>4. rerun[u][ci[r].h].said = "none" /\ RerunRow(u, ci[r].h, "refused", ci[r].done)
      BY <1>1, <1>10, <2>1, <3>1, <3>2, <3>3 DEF Record, Recording
    <3>5. rerun'[u][ci[r].h].said = "refused"  BY <1>1, <3>2, <3>4 DEF RerunRow, RerunTypes
    <3> QED  BY <3>1, <3>2, <3>5
  <2> QED  BY <1>5, <1>7, <1>10, <2>1 DEF Record
<1>11. CASE UNCHANGED now  BY <1>5, <1>11
<1>13. ASSUME NEW v \in Units, MergeRow(v) PROVE now'[u] = now[u]
  BY <1>1, <1>13 DEF MergeRow, NowTypes, Rows
<1>14. ASSUME NEW v \in Units, NEW again \in BOOLEAN, OpenPr(v, again) PROVE now'[u] = now[u]
  BY <1>1, <1>14 DEF OpenPr, Opened, NowTypes
<1>15. ASSUME NEW v \in Units, OpenRecord(v) PROVE now'[u] = now[u]
  BY <1>1, <1>15 DEF OpenRecord, Opened, NowTypes
<1>16. ASSUME NEW v \in Units, ShipRequest(v) PROVE now'[u] = now[u]
  BY <1>1, <1>16 DEF ShipRequest, NowTypes, Rows
<1>17. ASSUME NEW v \in Units, ShipView(v) \/ ShipReread(v) \/ ReconView(v) PROVE now'[u] = now[u]
  BY <1>13, <1>17 DEF ShipView, ShipReread, ReconView, Merged
<1>18. ASSUME NEW v \in Units, WalkView(v) PROVE now'[u] = now[u]
  <2>1. CASE now' = [now EXCEPT ![v].state = "closed"]  BY <1>1, <2>1 DEF NowTypes, Rows
  <2> QED  BY <1>13, <1>18, <2>1 DEF WalkView
<1>19. CASE Crash
  <2>1. now'[u] = now[u]  BY <1>13, <1>19 DEF Crash
  <2> QED  BY <1>5, <2>1
<1> QED  BY <1>5, <1>8, <1>9, <1>10, <1>11, <1>14, <1>15, <1>16, <1>17, <1>18, <1>19, RowsMove

-----------------------------------------------------------------------------
(* The theorems of the pull request machine.                               *)

\* The invariant holds in every state.
THEOREM PullsKeepTheirWord == Spec => []PullInv
<1>1. Init => PullInv  BY PullBegins, PullRequestAssumption
<1>2. PullInv /\ [Next]_vars => PullInv'
  <2> SUFFICES ASSUME PullInv, [Next]_vars PROVE PullInv'  OBVIOUS
  <2>1. CASE Next
    <3>1. PullTypes'
      BY <2>1, PullRequestAssumption, PrTyped, HeadTyped, CheckTyped, NowTyped, RerunTyped, JobTyped, ReadTyped,
        WalkTyped
      DEF PullTypes
    <3>2. Numbered'  BY <2>1, PullRequestAssumption, PullsStay
    <3>3. HeadsBounded'
      <4>1. \A u \in Units : tip'[u] <= MaxHead  BY <2>1, PullRequestAssumption, HeadsGrow
      <4> QED  BY <4>1 DEF HeadsBounded
    <3>4. Checks' /\ RowsKept' /\ JobsKept' /\ ReadsKept' /\ WalkKept'
      BY <2>1, PullRequestAssumption, ChecksStay, RowsStay, JobsStay, ReadsStay, WalkStays
    <3>5. Decided' /\ Asked' /\ Recording' /\ RedAtTip'
      BY <2>1, PullRequestAssumption, DecidedStays, AskedStays, RecordingStays, RedStays
    <3> QED  BY <3>1, <3>2, <3>3, <3>4, <3>5 DEF PullInv
  <2>2. CASE UNCHANGED vars
    <3> USE <2>2 DEF vars, github, rows, memory
    <3>1. PullTypes' /\ Numbered' /\ HeadsBounded'
      BY DEF PullInv, PullTypes, PrTypes, HeadTypes, CheckTypes, NowTypes, RerunTypes, JobTypes, ReadTypes,
        WalkTypes, Numbered, CreatedNumbers, HeadsBounded
    <3>2. Checks' /\ RowsKept' /\ JobsKept' /\ ReadsKept' /\ WalkKept'
      BY DEF PullInv, Checks, RowsKept, JobsKept, ReadsKept, WalkKept, Owned, CreatedNumbers, Single
    <3>3. Decided' /\ Asked' /\ Recording' /\ RedAtTip'
      BY DEF PullInv, Decided, Asked, Recording, RedAtTip, Owned, CreatedNumbers, Single
    <3> QED  BY <3>1, <3>2, <3>3 DEF PullInv
  <2> QED  BY <2>1, <2>2
<1> QED  BY <1>1, <1>2, PTL DEF Spec

\* What a merge of the app does to the pull requests: it was decided, and is still what was decided.
LEMMA MergeIsReady ==
  ASSUME PullInv, Next, NEW n \in Numbers, pr[n].by # "app", pr'[n].by = "app"
  PROVE  LET u == pr[n].unit
         IN /\ check[u].bucket = "green"
            /\ round[u] > 0
            /\ round[u] = tip[u] \/ (round[u] = tip[u] - 1 /\ tip[u] \in clean[u])
<1>1. PrTypes /\ JobsKept /\ Decided  BY DEF PullInv, PullTypes
<1>2. PICK u \in Units : job[u].at = "merge" /\ job[u].n = n /\ pr[n].unit = u /\ job[u].h = tip[u]
  <2>1. ~UNCHANGED pr  OBVIOUS
  <2>2. ASSUME NEW m \in Numbers, MergeOutside(m) \/ CloseOutside(m) \/ ReopenOutside(m) PROVE FALSE
    BY <1>1, <2>2 DEF MergeOutside, CloseOutside, ReopenOutside, MergedBy, PrTypes, Pulls
  <2>3. ASSUME NEW u \in Units, OpenFind(u) PROVE FALSE
    <3>1. PICK m \in Numbers : pr' = [pr EXCEPT ![m].st = "OPEN", ![m].unit = u]  BY <2>1, <2>3 DEF OpenFind
    <3>2. pr'[n].by = pr[n].by  BY <1>1, <3>1 DEF PrTypes, Pulls
    <3> QED  BY <3>2
  <2>4. ASSUME NEW u \in Units, ShipMerge(u)
        PROVE  job[u].at = "merge" /\ job[u].n = n /\ pr[n].unit = u /\ job[u].h = tip[u]
    <3>1. Owned(job[u].n, u) /\ MergePinned(job[u].n, job[u].h) /\ pr' = MergedBy(job[u].n, "app")
      BY <1>1, <2>1, <2>4 DEF ShipMerge, JobsKept
    <3>2. job[u].n = n  BY <1>1, <3>1 DEF MergedBy, Owned, PrTypes, Pulls
    <3> QED  BY <2>4, <3>1, <3>2 DEF ShipMerge, MergePinned, Owned
  <2> QED  BY <2>1, <2>2, <2>3, <2>4, PullsMove
<1> QED  BY <1>1, <1>2 DEF Decided

\* What the app merges is a head whose required checks are green at that moment and that the last review
\* round passed, or a clean rebase of it, for any number of units and whatever happens between the calls of
\* `ship`.
THEOREM MergesAreReady == Spec => MergedWasReady
<1>1. PullInv /\ [Next]_vars =>
        [\A n \in Numbers :
           (pr[n].by # "app" /\ pr'[n].by = "app") =>
             LET u == pr[n].unit
             IN /\ check[u].bucket = "green"
                /\ round[u] > 0
                /\ round[u] = tip[u] \/ (round[u] = tip[u] - 1 /\ tip[u] \in clean[u])]_vars
  BY MergeIsReady
<1> QED  BY <1>1, PullsKeepTheirWord, PTL DEF Spec, MergedWasReady

\* The invariant knows what a `red` in the rows stands for.
LEMMA RedFollows == PullRequestAssumption /\ PullInv => RedIsReal
<1> SUFFICES ASSUME PullRequestAssumption, PullInv, Cardinality(CreatedNumbers) = 1 PROVE RedIsReal
  BY DEF RedIsReal
<1>1. PICK k \in 0..MaxPr : CreatedNumbers = 1..k  BY DEF PullInv, Numbered
<1>2. k = 1  BY <1>1, NextIsNew
<1>3. Single  BY <1>1, <1>2 DEF Single
<1> QED  BY <1>3 DEF PullInv, RedAtTip, RedIsReal

\* `red` at the head of a branch is a second red run or a rerun that could not be made, whoever read the
\* checks, asked for the rerun or was cut short while asking.
THEOREM RedIsTwice == Spec => []RedIsReal
  BY RedFollows, PullsKeepTheirWord, PullRequestAssumption, PTL

\* The pull requests of MCWork are those of PullRequest.
LEMMA WorkHasPulls == WorkSpec => Spec
<1>1. WorkInit => Init  BY DEF WorkInit
<1>2. [WorkNext]_workVars => [Next]_vars  BY DEF WorkNext, workVars
<1> QED  BY <1>1, <1>2, PTL DEF WorkSpec, Spec

\* So what the app merges beside runs and releases was ready too,
THEOREM MergesAreReadyInWork == WorkSpec => MergedWasReady
  BY WorkHasPulls, MergesAreReady

\* and a `red` there is as real.
THEOREM RedIsTwiceInWork == WorkSpec => []RedIsReal
  BY WorkHasPulls, RedIsTwice

-----------------------------------------------------------------------------
(* The run of an agent.                                                     *)

\* The fields of a run that the proof is about.
Parts == {"kind", "at", "stop", "sealed", "chan", "terminal", "outcome", "withheld", "unopened"}

\* What the app writes is this run's, what `impl` wrote is there.
IsThere(kind, what) == what = "run" \/ (kind = "impl" /\ what # "none")

\* Until its reply is read a run is not done.  One that waits for its object is, with its artifact there;
\* nobody stopped it or one that waits for its opening, which only the app's texts are asked for; what is
\* left to do after an agent's end is of no stage.
RunInv ==
  /\ Parts \subseteq DOMAIN run /\ rev \in Nat \ {0}
  /\ run.at \in {"main", "shut", "tree", "progress", "opening"} => run.outcome = "failed"
  /\ run.at \in {"opening", "submitting"} => ~run.stop
  /\ run.at = "opening" => run.kind \in {"prose", "review"}
  /\ run.at = "submitting" => run.outcome = "done" /\ IsThere(run.kind, disk)
  /\ run.at = "finishing" => run.kind = "agent"

\* Where the end of `_conclude` leaves a run: sealed, or asking for its object; of the same kind, as stopped
\* as it was, and done only with an object for the files as they are.
LEMMA SubmittingIs ==
  ASSUME NEW s, Parts \subseteq DOMAIN s, NEW y \in S!Submitting(s)
  PROVE  /\ Parts \subseteq DOMAIN y /\ y.kind = s.kind /\ y.stop = s.stop
         /\ y.at \in {"submitting", "closing"}
         /\ y.at = "submitting" => s.outcome = "done" /\ y.outcome = "done"
         /\ y.at = "closing" /\ y.outcome = "done" => s.outcome = "done" /\ s.chan = rev /\ y.chan = rev
<1>1. ASSUME NEW t, Parts \subseteq DOMAIN t, y = S!Sealing(t)
      PROVE  /\ Parts \subseteq DOMAIN y /\ y.kind = t.kind /\ y.stop = t.stop /\ y.chan = t.chan /\ y.at = "closing"
             /\ y.outcome = "done" => t.outcome = "done"
  BY <1>1 DEF S!Sealing, Parts
<1>2. CASE y = S!Sealing(s) /\ s.outcome # "done"  BY <1>1, <1>2
<1>3. CASE s.outcome = "done" /\ s.chan = rev
  <2>1. y = S!Sealing(s) \/ y = S!Sealing([s EXCEPT !.outcome = "failed"])  BY <1>3 DEF S!Submitting, S!Rounds
  <2>2. /\ Parts \subseteq DOMAIN [s EXCEPT !.outcome = "failed"]
        /\ [s EXCEPT !.outcome = "failed"].kind = s.kind /\ [s EXCEPT !.outcome = "failed"].stop = s.stop
        /\ [s EXCEPT !.outcome = "failed"].outcome = "failed"
    BY DEF Parts
  <2> QED  BY <1>1, <1>3, <2>1, <2>2
<1>4. CASE s.outcome = "done" /\ s.chan # rev
  <2>1. \/ y = S!Sealing([[s EXCEPT !.chan = 0] EXCEPT !.outcome = "failed"])
        \/ y = [[s EXCEPT !.chan = 0] EXCEPT !.at = "submitting"]
    BY <1>4 DEF S!Submitting
  <2> DEFINE t == [[s EXCEPT !.chan = 0] EXCEPT !.outcome = "failed"]
  <2>2. Parts \subseteq DOMAIN t /\ t.kind = s.kind /\ t.stop = s.stop /\ t.outcome = "failed"
    BY DEF Parts
  <2>3. CASE y = S!Sealing(t)
    <3> HIDE DEF t
    <3> QED  BY <1>1, <2>2, <2>3
  <2>4. CASE y = [[s EXCEPT !.chan = 0] EXCEPT !.at = "submitting"]  BY <1>4, <2>4 DEF Parts
  <2> QED  BY <2>1, <2>3, <2>4
<1> QED  BY <1>2, <1>3, <1>4 DEF S!Submitting

\* Where `_conclude` leaves a run at its next wait: the same, or not done and asked for what it lacks.
LEMMA ConcludesIs ==
  ASSUME NEW r, Parts \subseteq DOMAIN r, NEW x \in S!Concludes(r)
  PROVE  /\ Parts \subseteq DOMAIN x /\ x.kind = r.kind /\ x.stop = r.stop
         /\ x.at \in {"progress", "opening", "submitting", "closing"}
         /\ x.at \in {"progress", "opening"} => x.outcome = "failed"
         /\ x.at = "opening" => ~x.stop /\ x.kind \in {"prose", "review"}
         /\ x.at = "submitting" => r.outcome = "done" /\ x.outcome = "done"
         /\ x.at = "closing" /\ x.outcome = "done" => r.outcome = "done" /\ r.chan = rev /\ x.chan = rev
<1>1. CASE x = [r EXCEPT !.at = "progress"] /\ r.outcome = "failed"  BY <1>1 DEF Parts
<1>2. CASE x \in S!Submitting(r)  BY <1>2, SubmittingIs
<1>3. CASE x \in S!Repairing(r) /\ r.kind \in {"prose", "review"} /\ r.outcome = "failed"
  <2>1. CASE x \in S!Submitting([r EXCEPT !.sealed = TRUE])
    <3> DEFINE s == [r EXCEPT !.sealed = TRUE]
    <3>1. Parts \subseteq DOMAIN s /\ s.kind = r.kind /\ s.stop = r.stop /\ s.outcome = r.outcome /\ s.chan = r.chan
      BY DEF Parts
    <3> HIDE DEF s
    <3> QED  BY <1>3, <2>1, <3>1, SubmittingIs DEF s
  <2>2. CASE ~r.stop /\ x = [r EXCEPT !.at = "opening", !.sealed = TRUE]  BY <1>3, <2>2 DEF Parts
  <2> QED  BY <1>2, <1>3, <2>1, <2>2 DEF S!Repairing
<1> QED  BY <1>1, <1>2, <1>3 DEF S!Concludes

\* What a step may do: a stage that ends its work done is done soundly,
Concluding ==
  (run.at # "closing" /\ run'.at = "closing" /\ run'.outcome = "done" /\ run'.kind # "agent") =>
    /\ run'.chan = rev' /\ ~run'.stop
    /\ disk' = "run" \/ (run'.kind = "impl" /\ disk' # "none")

\* and what the app writes, it may write.
Writing ==
  (disk' # disk /\ disk' = "run" /\ run'.kind # "impl") => ~run'.stop /\ (run'.kind = "spike" => ~around.touched)

\* The unit's files are those `submit` saw, or the run has no object yet.
Hashed(r) == rev' = rev \/ (r.chan = 0 /\ rev' \in Nat \ {0})

\* A run that goes to `_conclude` done, with its artifact there and no Stop, stays in the invariant.
LEMMA Lands ==
  ASSUME RunInv, NEW r, Parts \subseteq DOMAIN r, Hashed(r), run' \in S!Concludes(r) \/ run' \in S!Submitting(r),
         r.outcome = "done" => ~r.stop /\ IsThere(r.kind, disk'),
         disk' = disk \/ r.kind = "impl" \/ (~r.stop /\ (r.kind = "spike" => ~around.touched))
  PROVE  RunInv' /\ Concluding /\ Writing
<1>1. /\ Parts \subseteq DOMAIN run' /\ run'.kind = r.kind /\ run'.stop = r.stop
      /\ run'.at \in {"progress", "opening", "submitting", "closing"}
      /\ run'.at \in {"progress", "opening"} => run'.outcome = "failed"
      /\ run'.at = "opening" => ~run'.stop /\ run'.kind \in {"prose", "review"}
      /\ run'.at = "submitting" => r.outcome = "done" /\ run'.outcome = "done"
      /\ run'.at = "closing" /\ run'.outcome = "done" => r.outcome = "done" /\ r.chan = rev /\ run'.chan = rev
  BY ConcludesIs, SubmittingIs
<1>2. rev' \in Nat \ {0} /\ (r.chan = rev => rev' = rev)  BY DEF Hashed, RunInv
<1>3. RunInv'  BY <1>1, <1>2 DEF RunInv, IsThere
<1>4. Concluding  BY <1>1, <1>2 DEF Concluding, IsThere
<1>5. Writing  BY <1>1 DEF Writing
<1> QED  BY <1>3, <1>4, <1>5

\* What the app writes of a reply.
LEMMA WritesLands ==
  ASSUME RunInv, NEW r, Parts \subseteq DOMAIN r, Hashed(r), r.outcome = "failed",
         r.kind = "spike" => ~around.touched, S!Writes(r)
  PROVE  RunInv' /\ Concluding /\ Writing
<1> DEFINE sealed == [r EXCEPT !.sealed = TRUE]
           done == [sealed EXCEPT !.outcome = "done"]
           withheld == [r EXCEPT !.withheld = TRUE]
           unopened == [sealed EXCEPT !.unopened = TRUE]
<1>1. /\ Parts \subseteq DOMAIN sealed /\ Parts \subseteq DOMAIN done
      /\ Parts \subseteq DOMAIN withheld /\ Parts \subseteq DOMAIN unopened
      /\ \A x \in {sealed, done, withheld, unopened} : x.kind = r.kind /\ x.stop = r.stop /\ x.chan = r.chan
      /\ sealed.outcome = "failed" /\ withheld.outcome = "failed" /\ unopened.outcome = "failed"
  BY DEF Parts
<1>2. \A x \in {sealed, done, withheld, unopened} : Hashed(x)  BY <1>1 DEF Hashed
<1>3. \/ run' \in S!Concludes(withheld) /\ disk' = disk
      \/ ~r.stop /\ r.kind = "impl" /\ disk' = disk /\ disk # "none" /\ run' \in S!Concludes(done)
      \/ ~r.stop /\ disk' = disk /\ run' \in S!Concludes(sealed)
      \/ ~r.stop /\ disk' = disk /\ run' \in S!Concludes(unopened)
      \/ ~r.stop /\ disk' = "run" /\ run' \in S!Concludes(done)
  BY DEF S!Writes, S!Wrote
<1> HIDE DEF sealed, done, withheld, unopened
<1>4. CASE run' \in S!Concludes(withheld) /\ disk' = disk  BY <1>1, <1>2, <1>4, Lands
<1>5. CASE ~r.stop /\ r.kind = "impl" /\ disk' = disk /\ disk # "none" /\ run' \in S!Concludes(done)
  BY <1>1, <1>2, <1>5, Lands DEF IsThere
<1>6. CASE disk' = disk /\ run' \in S!Concludes(sealed)  BY <1>1, <1>2, <1>6, Lands
<1>7. CASE disk' = disk /\ run' \in S!Concludes(unopened)  BY <1>1, <1>2, <1>7, Lands
<1>8. CASE ~r.stop /\ disk' = "run" /\ run' \in S!Concludes(done)  BY <1>1, <1>2, <1>8, Lands DEF IsThere
<1> QED  BY <1>3, <1>4, <1>5, <1>6, <1>7, <1>8

\* A reply that is read: cut short, for the tree to be read, or written.
LEMMA ReplyLands ==
  ASSUME RunInv, NEW r, Parts \subseteq DOMAIN r, Hashed(r), r.outcome = "failed", S!ReplyRead(r)
  PROVE  RunInv' /\ Concluding /\ Writing
<1>1. CASE S!CutShort(r.terminal) # "none"
  <2> DEFINE cut == [r EXCEPT !.outcome = S!CutShort(r.terminal)]
  <2>1. S!CutShort(r.terminal) # "done"  BY DEF S!CutShort
  <2>2. Parts \subseteq DOMAIN cut /\ cut.chan = r.chan /\ cut.outcome # "done"  BY <2>1 DEF Parts
  <2>3. run' \in S!Concludes(cut) /\ disk' = disk  BY <1>1 DEF S!ReplyRead
  <2>4. Hashed(cut)  BY <2>2 DEF Hashed
  <2> HIDE DEF cut
  <2> QED  BY <2>2, <2>3, <2>4, Lands
<1>2. CASE run' = [r EXCEPT !.at = "tree"] /\ disk' = disk
  BY <1>2 DEF RunInv, Hashed, Concluding, Writing, Parts
<1>3. CASE r.kind # "spike" /\ S!Writes(r)  BY <1>3, WritesLands
<1> QED  BY <1>1, <1>2, <1>3 DEF S!ReplyRead

\* A session that is taken up begins a run, unless its ceiling is used up.
LEMMA TakenUpLands ==
  ASSUME RunInv, NEW road, NEW most, S!TakesUp(road, most)
  PROVE  RunInv' /\ Concluding /\ Writing
<1> DEFINE r == S!GoesOn(road, most)
<1>1. /\ Parts \subseteq DOMAIN r /\ r.kind = kept.kind /\ r.at = "main" /\ ~r.stop /\ r.chan = 0
      /\ r.outcome = "failed"
  BY DEF S!GoesOn, S!NoRun, Parts
<1>2. rev' \in Nat \ {0}  BY DEF S!TakesUp, S!Begins
<1> DEFINE read == [r EXCEPT !.terminal = "done", !.cost = kept.cost]
<1>3. /\ Parts \subseteq DOMAIN read /\ read.kind = kept.kind /\ ~read.stop /\ read.chan = 0
      /\ read.outcome = "failed"
  BY <1>1 DEF Parts
<1>4. \/ S!ReplyRead(read)
      \/ disk' = disk /\ (run' = r \/ \E t \in {"usd", "turns"} : S!UsedUp(r, t))
  BY DEF S!TakesUp
<1> HIDE DEF r, read
<1>5. CASE S!ReplyRead(read)
  <2>1. Hashed(read)  BY <1>2, <1>3 DEF Hashed
  <2> QED  BY <1>3, <1>5, <2>1, ReplyLands
<1>6. CASE disk' = disk /\ run' = r  BY <1>1, <1>2, <1>6 DEF RunInv, Concluding, Writing
<1>7. ASSUME NEW t \in {"usd", "turns"}, S!UsedUp(r, t), disk' = disk PROVE RunInv' /\ Concluding /\ Writing
  <2>1. CASE r.kind = "agent" /\ run' = [S!Judged(r, "paused-budget") EXCEPT !.terminal = t]
    BY <1>1, <1>2, <1>7, <2>1 DEF S!Judged, RunInv, Concluding, Writing, Parts
  <2> DEFINE used == [r EXCEPT !.terminal = t, !.outcome = "paused-budget"]
  <2>2. CASE run' \in S!Concludes(used)
    <3>1. Parts \subseteq DOMAIN used /\ used.chan = 0 /\ used.outcome # "done"  BY <1>1 DEF Parts
    <3>2. Hashed(used)  BY <1>2, <3>1 DEF Hashed
    <3> HIDE DEF used
    <3> QED  BY <1>7, <2>2, <3>1, <3>2, Lands
  <2> QED  BY <1>7, <2>1, <2>2 DEF S!UsedUp
<1> QED  BY <1>4, <1>5, <1>6, <1>7

\* A run that goes leaves nothing of its own.
LEMMA GoneLands == RunInv /\ S!Gone /\ UNCHANGED rev => RunInv' /\ Concluding /\ Writing
  BY DEF S!Gone, S!NoRun, RunInv, Concluding, Writing, Parts

\* Every step keeps the invariant, ends its stage done only soundly and writes only what it may.
LEMMA RunSteps ==
  ASSUME RunInv, S!Next
  PROVE  RunInv' /\ Concluding /\ Writing
<1> USE DEF Concluding, Writing
<1>1. ASSUME NEW k \in S!Kinds, S!Start(k) PROVE RunInv' /\ Concluding /\ Writing
  BY <1>1 DEF S!Start, S!Begins, S!NoRun, RunInv, Parts
<1>2. CASE S!Resume  BY <1>2, TakenUpLands DEF S!Resume
<1>3. ASSUME NEW most \in 1..MaxUsd + 1, S!Raise(most) PROVE RunInv' /\ Concluding /\ Writing
  BY <1>3, TakenUpLands DEF S!Raise
<1>4. CASE UNCHANGED <<run, disk, rev, around>>  BY <1>4 DEF RunInv
<1>5. ASSUME NEW what \in {"title", "call"}, S!Says(what) PROVE RunInv' /\ Concluding /\ Writing
  BY <1>5 DEF S!Says, S!Talks, RunInv, Parts
<1>6. ASSUME NEW ok \in BOOLEAN, S!Submits(ok) PROVE RunInv' /\ Concluding /\ Writing
  BY <1>6 DEF S!Submits, S!Talks, RunInv, Parts
<1>7. CASE S!WritesFile  BY <1>7 DEF S!WritesFile, S!Wrote, RunInv, Parts
<1>8. ASSUME NEW what \in {"touched", "noted"}, S!Touches(what) PROVE RunInv' /\ Concluding /\ Writing
  BY <1>8 DEF S!Touches, RunInv
<1>9. CASE S!Answered  BY <1>9 DEF S!Answered, RunInv
<1>10. CASE S!Replies  BY <1>10 DEF S!Replies, RunInv, Parts
<1>11. ASSUME Parts \subseteq DOMAIN run, UNCHANGED rev PROVE Hashed(run)  BY <1>11 DEF Hashed
<1>12. CASE S!Replied
  <2>1. CASE run.kind # "agent"  BY <1>11, <1>12, <2>1, ReplyLands DEF S!Replied, RunInv
  <2>2. CASE run.kind = "agent"  BY <1>12, <2>2 DEF S!Replied, S!Judged, RunInv, Parts
  <2> QED  BY <2>1, <2>2
<1>13. ASSUME NEW o, o # "done", run' \in S!Concludes([run EXCEPT !.outcome = o]), UNCHANGED <<disk, rev>>
       PROVE  RunInv' /\ Concluding /\ Writing
  <2> DEFINE r == [run EXCEPT !.outcome = o]
  <2>1. Parts \subseteq DOMAIN r /\ r.outcome # "done" /\ Hashed(r)  BY <1>13 DEF RunInv, Parts, Hashed
  <2>2. run' \in S!Concludes(r)  BY <1>13
  <2> HIDE DEF r
  <2> QED  BY <1>13, <2>1, <2>2, Lands
<1>14. CASE S!Breaks
  <2>1. CASE run.kind # "agent"
    <3>1. PICK o \in {"paused-budget", "failed"} : run' \in S!Concludes([run EXCEPT !.outcome = o])
      BY <1>14, <2>1 DEF S!Breaks
    <3> QED  BY <1>13, <1>14, <3>1 DEF S!Breaks
  <2>2. CASE run.kind = "agent"  BY <1>14, <2>2 DEF S!Breaks, S!Judged, RunInv, Parts
  <2> QED  BY <2>1, <2>2
<1>15. ASSUME run.outcome = "failed", run' \in S!Concludes([run EXCEPT !.withheld = TRUE]), UNCHANGED <<disk, rev>>
       PROVE  RunInv' /\ Concluding /\ Writing
  <2> DEFINE r == [run EXCEPT !.withheld = TRUE]
  <2>1. Parts \subseteq DOMAIN r /\ r.outcome # "done" /\ Hashed(r)  BY <1>15 DEF RunInv, Parts, Hashed
  <2>2. run' \in S!Concludes(r)  BY <1>15
  <2> HIDE DEF r
  <2> QED  BY <1>15, <2>1, <2>2, Lands
<1>16. CASE S!TreeRead
  <2>1. run.outcome = "failed" /\ Parts \subseteq DOMAIN run /\ UNCHANGED rev  BY <1>16 DEF S!TreeRead, RunInv
  <2>2. CASE around.touched  BY <1>15, <1>16, <2>1, <2>2 DEF S!TreeRead
  <2>3. CASE ~around.touched  BY <1>11, <1>16, <2>1, <2>3, WritesLands DEF S!TreeRead
  <2> QED  BY <2>2, <2>3
<1>17. CASE S!ProgressRead
  <2> DEFINE r == [run EXCEPT !.withheld = TRUE, !.sealed = ~run.stop /\ ~around.touched]
  <2>1. Parts \subseteq DOMAIN r /\ r.outcome = "failed" /\ r.stop = run.stop /\ Hashed(r)
    BY <1>17 DEF S!ProgressRead, RunInv, Parts, Hashed
  <2>2. run' \in S!Concludes(r) /\ (disk' = disk \/ (~run.stop /\ ~around.touched))  BY <1>17 DEF S!ProgressRead
  <2> HIDE DEF r
  <2> QED  BY <2>1, <2>2, Lands
<1>18. CASE S!StopAsks
  <2>1. /\ run.outcome = "failed" /\ Parts \subseteq DOMAIN run /\ UNCHANGED <<disk, rev>>
        /\ run.at # "opening" /\ run.at # "submitting"
    BY <1>18 DEF S!StopAsks, RunInv
  <2> DEFINE s == [run EXCEPT !.stop = TRUE]
             withheld == [s EXCEPT !.withheld = TRUE]
             stopped == [s EXCEPT !.outcome = "stopped"]
  <2>2. /\ Parts \subseteq DOMAIN withheld /\ withheld.outcome # "done" /\ Hashed(withheld)
        /\ Parts \subseteq DOMAIN stopped /\ stopped.outcome # "done" /\ Hashed(stopped)
    BY <2>1 DEF Parts, Hashed
  <2>3. CASE run.at = "shut" /\ run' = s  BY <2>1, <2>3 DEF RunInv, Parts
  <2>4. (run' = s /\ run.at = "shut") \/ run' \in S!Concludes(withheld) \/ run' \in S!Concludes(stopped)
    BY <1>18 DEF S!StopAsks
  <2> HIDE DEF s, withheld, stopped
  <2>5. CASE run' \in S!Concludes(withheld)  BY <2>1, <2>2, <2>5, Lands
  <2>6. CASE run' \in S!Concludes(stopped)  BY <2>1, <2>2, <2>6, Lands
  <2> QED  BY <2>3, <2>4, <2>5, <2>6
<1>19. CASE S!StopLands
  <2>1. CASE run.at = "tree"  BY <1>13, <1>19, <2>1 DEF S!StopLands
  <2>2. CASE run.at = "progress"  BY <1>15, <1>19, <2>2 DEF S!StopLands, RunInv
  <2>3. CASE S!Lost  BY <1>19, <2>3, GoneLands DEF S!StopLands, S!Lost
  <2> QED  BY <1>19, <2>1, <2>2, <2>3 DEF S!StopLands
<1>20. CASE S!End \/ S!Suspend \/ S!Cancelled \/ S!GoesDown
  BY <1>20, GoneLands DEF S!End, S!Suspend, S!Cancelled, S!GoesDown, S!Ends, S!Lost
<1>21. CASE S!HandsBack  BY <1>21 DEF S!HandsBack, RunInv, Parts
<1>22. CASE S!Finished \/ S!Closed  BY <1>22 DEF S!Finished, S!Closed, RunInv, Parts
<1>23. CASE S!TurnBreaks
  BY <1>23 DEF S!TurnBreaks, S!Sealing, RunInv, Parts
<1>24. CASE S!Repaired
  <2>1. /\ run.outcome = "failed" /\ run.kind \in {"prose", "review"} /\ ~run.stop
        /\ Parts \subseteq DOMAIN run /\ UNCHANGED rev
    BY <1>24 DEF S!Repaired, RunInv
  <2>2. PICK c : LET r == [run EXCEPT !.cost = c] IN
          \/ run' \in S!Submitting(r) /\ disk' = disk
          \/ run' \in S!Submitting([r EXCEPT !.outcome = "done"]) /\ disk' = "run"
    BY <1>24 DEF S!Repaired, S!Wrote
  <2> DEFINE r == [run EXCEPT !.cost = c]
             done == [r EXCEPT !.outcome = "done"]
  <2>3. /\ Parts \subseteq DOMAIN r /\ r.outcome = "failed" /\ Hashed(r)
        /\ Parts \subseteq DOMAIN done /\ done.kind = run.kind /\ ~done.stop /\ Hashed(done)
    BY <2>1 DEF Parts, Hashed
  <2>4. \/ run' \in S!Submitting(r) /\ disk' = disk
        \/ run' \in S!Submitting(done) /\ disk' = "run"
    BY <2>2
  <2> HIDE DEF r, done
  <2>5. CASE run' \in S!Submitting(r) /\ disk' = disk  BY <2>3, <2>5, Lands
  <2>6. CASE run' \in S!Submitting(done) /\ disk' = "run"  BY <2>1, <2>3, <2>6, Lands DEF IsThere
  <2> QED  BY <2>4, <2>5, <2>6
<1>25. CASE S!Resubmitted
  <2>1. /\ run.outcome = "done" /\ IsThere(run.kind, disk) /\ ~run.stop /\ Parts \subseteq DOMAIN run
        /\ UNCHANGED <<disk, rev>>
    BY <1>25 DEF S!Resubmitted, RunInv
  <2>2. PICK c : LET r == [run EXCEPT !.cost = c] IN
          \/ r.chan = rev /\ run' \in S!Rounds(r)
          \/ run' = S!Sealing([r EXCEPT !.outcome = "failed", !.chan = 0])
    BY <1>25 DEF S!Resubmitted
  <2> DEFINE r == [run EXCEPT !.cost = c]
             failed == [r EXCEPT !.outcome = "failed", !.chan = 0]
  <2>3. /\ Parts \subseteq DOMAIN r /\ r.kind = run.kind /\ r.outcome = "done" /\ ~r.stop /\ Hashed(r)
        /\ Parts \subseteq DOMAIN failed /\ failed.outcome = "failed" /\ Hashed(failed)
    BY <2>1 DEF Parts, Hashed
  <2>4. (r.chan = rev /\ run' \in S!Rounds(r)) \/ run' = S!Sealing(failed)  BY <2>2
  <2> HIDE DEF r, failed
  <2>5. CASE r.chan = rev /\ run' \in S!Rounds(r)
    <3>1. run' \in S!Submitting(r)  BY <2>3, <2>5 DEF S!Submitting
    <3> QED  BY <2>1, <2>3, <3>1, Lands
  <2>6. CASE run' = S!Sealing(failed)
    <3>1. run' \in S!Submitting(failed)  BY <2>3, <2>6 DEF S!Submitting
    <3> QED  BY <2>1, <2>3, <3>1, Lands
  <2> QED  BY <2>4, <2>5, <2>6
<1> QED  BY <1>1, <1>2, <1>3, <1>4, <1>5, <1>6, <1>7, <1>8, <1>9, <1>10, <1>12, <1>14, <1>16, <1>17, <1>18, <1>19,
            <1>20, <1>21, <1>22, <1>23, <1>24, <1>25 DEF S!Next, S!Refuse, S!Spends

\* Nothing runs at first.
LEMMA RunsBegin == S!Init => RunInv
<1> SUFFICES ASSUME S!Init PROVE RunInv  OBVIOUS
<1>1. Parts \subseteq DOMAIN run /\ run.at = "idle"  BY DEF S!Init, S!NoRun, Parts
<1>2. rev \in Nat \ {0}  BY DEF S!Init
<1> QED  BY <1>1, <1>2 DEF RunInv

\* The runs of MCWork are those of Runs.
LEMMA WorkHasRuns == WorkSpec => S!Spec
<1>1. WorkInit => S!Init  BY DEF WorkInit
<1>2. [WorkNext]_workVars => [S!Next]_S!vars  BY DEF WorkNext, workVars, sVars, S!vars
<1> QED  BY <1>1, <1>2, PTL DEF WorkSpec, S!Spec

\* The invariant holds of every run.
THEOREM RunsKeepTheirWord == WorkSpec => []RunInv
<1>1. RunInv /\ UNCHANGED S!vars => RunInv'  BY DEF RunInv, S!vars
<1>2. RunInv /\ [S!Next]_S!vars => RunInv'  BY <1>1, RunSteps
<1> QED  BY <1>2, RunsBegin, WorkHasRuns, PTL DEF S!Spec

\* A stage ends `done` only with its artifact there, an object for the unit's files as they are and no Stop
\* before the seal, over any number of runs, pieces, dollars and changes of those files, and whichever of the
\* reply, the repair of its opening or the turn for its object came last.
THEOREM StagesEndSoundly == WorkSpec => DoneIsSound
<1>1. RunInv /\ [S!Next]_S!vars =>
        [(run.at # "closing" /\ run'.at = "closing" /\ run'.outcome = "done" /\ run'.kind # "agent") =>
           /\ run'.chan = rev' /\ ~run'.stop
           /\ disk' = "run" \/ (run'.kind = "impl" /\ disk' # "none")]_S!vars
  BY RunSteps DEF Concluding
<1> QED  BY <1>1, RunsKeepTheirWord, WorkHasRuns, PTL DEF S!Spec, DoneIsSound, S!DoneIsSound

\* After a Stop before the seal, or of a spike that touched the tree it was only to read, no road writes the
\* artifact.
THEOREM StoppedIsWithheld == WorkSpec => Withheld
<1>1. RunInv /\ [S!Next]_S!vars =>
        [(disk' # disk /\ disk' = "run" /\ run'.kind # "impl") =>
           ~run'.stop /\ (run'.kind = "spike" => ~around.touched)]_S!vars
  BY RunSteps DEF Writing
<1> QED  BY <1>1, RunsKeepTheirWord, WorkHasRuns, PTL DEF S!Spec, Withheld, S!Withheld

-----------------------------------------------------------------------------
(* The cutting of a release.                                                *)

Commits == [version : Nat, pull : Nat]
Mades == [version : Nat, after : Nat, app : BOOLEAN, green : BOOLEAN]
Requests == [version : R!Versions, st : {"OPEN", "CLOSED", "MERGED"}]
Presses == [at : {"idle", "fetch", "list", "decide", "cut", "push", "create", "merge", "merged", "find", "tag"},
            phase : {"none", "prepare", "publish"}, version : Int, pull : Nat, head : Nat, sha : Nat]

MainTypes == mains \in Seq(Commits)
MadeTypes == made \in Seq(Mades)
RequestTypes == pulls \in Seq(Requests)
BranchTypes == remote \in [R!Versions -> 0..Len(made)]
RecordTypes == recorded \in [R!Versions -> 0..Len(made)]
KnownTypes == known \in [main : 1..Len(mains), tags : SUBSET Int]
PressTypes == press \in Presses
TagTypes == tagged \in [R!Versions -> Nat]

\* An open pull request has its branch, which no other open one has.
OneOpen ==
  /\ \A i \in DOMAIN pulls : pulls[i].st = "OPEN" => remote[pulls[i].version] # 0
  /\ \A i, j \in DOMAIN pulls :
       pulls[i].st = "OPEN" /\ pulls[j].st = "OPEN" /\ pulls[i].version = pulls[j].version => i = j

\* What is merged is in `main`.
MergedIn == \A i \in DOMAIN pulls : pulls[i].st = "MERGED" => \E c \in DOMAIN mains : mains[c].pull = i

\* The `opened` record names a head the app made.
OwnHeads == \A v \in R!Versions : recorded[v] # 0 => made[recorded[v]].app

\* What a press knows that stays true to its end: its pull request is of its version; the head it is to
\* merge is the recorded one, and green if the branch is still there; the commit it is to tag merged a pull
\* request of its version.
PressKnows ==
  /\ press.at # "idle" => press.version \in R!Versions
  /\ press.pull <= Len(pulls) /\ press.head <= Len(made)
  /\ press.at \in {"push", "create"} => press.head # 0 /\ made[press.head].app
  /\ press.at \in {"merge", "merged"} => press.pull # 0 /\ pulls[press.pull].version = press.version
  /\ press.at = "merge" => /\ press.head # 0 /\ press.head = recorded[press.version]
                           /\ remote[press.version] = press.head => made[press.head].green
  /\ press.at = "merged" => pulls[press.pull].st = "MERGED"
  /\ press.at = "tag" => /\ press.sha \in DOMAIN mains /\ mains[press.sha].pull \in DOMAIN pulls
                         /\ pulls[mains[press.sha].pull].version = press.version

ReleaseTypes ==
  /\ MainTypes /\ MadeTypes /\ RequestTypes /\ BranchTypes
  /\ RecordTypes /\ KnownTypes /\ PressTypes /\ TagTypes
ReleaseInv == ReleaseTypes /\ OneOpen /\ MergedIn /\ OwnHeads /\ PressKnows

\* A set of positions that is not empty has a last one,
LEMMA HasLast ==
  ASSUME NEW n \in Nat, NEW X, X \subseteq 1..n, X # {}
  PROVE  \E i \in X : \A j \in X : j <= i
<1> DEFINE T == {i \in 0..n : n - i \in X}
<1>1. T \subseteq Nat /\ T # {}
  <2>1. PICK s \in 1..n : s \in X  OBVIOUS
  <2>2. n - s \in 0..n /\ n - (n - s) = s  OBVIOUS
  <2>3. n - s \in T  BY <2>1, <2>2
  <2>4. T \subseteq Nat  OBVIOUS
  <2> HIDE DEF T
  <2> QED  BY <2>3, <2>4
<1>2. PICK x \in T : \A y \in T : ~(<<y, x>> \in OpToRel(<, Nat))
  BY <1>1, NatLessThanWellFounded, WFMin, Zenon
<1>3. \A y \in T : ~(y < x)  BY <1>1, <1>2, Zenon DEF OpToRel
<1>4. n - x \in X /\ n - x \in 1..n  OBVIOUS
<1>5. \A z \in X : n - x >= z
  <2> TAKE z \in X
  <2>1. z \in 1..n  OBVIOUS
  <2>2. n - z \in 0..n /\ n - (n - z) = z  BY <2>1
  <2>3. n - z \in T  BY <2>2
  <2>4. x \in 0..n  OBVIOUS
  <2>5. ~(n - z < x)  BY <1>3, <2>3
  <2> QED  BY <2>1, <2>4, <2>5
<1> QED  BY <1>4, <1>5

\* and `Max` gives one of it.
LEMMA MaxIsOfIt ==
  ASSUME NEW n \in Nat, NEW X, X \subseteq 1..n, X # {}
  PROVE  R!Max(X) \in X
<1>1. PICK i \in X : \A j \in X : j <= i  BY HasLast
<1>2. \A j \in X : i >= j  BY <1>1
<1> QED  BY <1>2 DEF R!Max

\* What a step may do to GitHub, beside tags.
Committed(v) ==
  mains' = Append(mains, [version |-> v, pull |-> 0]) /\ UNCHANGED <<made, remote, pulls>>
ClosedOne(i) ==
  /\ pulls' = [pulls EXCEPT ![i].st = "CLOSED"] /\ UNCHANGED <<mains, made>>
  /\ remote' = remote \/ remote' = [remote EXCEPT ![pulls[i].version] = 0]
Passed(h) == made' = [made EXCEPT ![h].green = TRUE] /\ UNCHANGED <<mains, remote, pulls>>
PushedOn(v) ==
  /\ remote[v] # 0 /\ made' = Append(made, [made[remote[v]] EXCEPT !.app = FALSE, !.green = FALSE])
  /\ remote' = [remote EXCEPT ![v] = Len(made')] /\ UNCHANGED <<mains, pulls>>
NoneOpen(v) == ~\E i \in DOMAIN pulls : pulls[i].st = "OPEN" /\ pulls[i].version = v
OpenedOne(v) ==
  /\ remote[v] # 0 /\ NoneOpen(v)
  /\ pulls' = Append(pulls, [version |-> v, st |-> "OPEN"]) /\ UNCHANGED <<mains, made, remote>>
Deleted(v) == NoneOpen(v) /\ remote' = [remote EXCEPT ![v] = 0] /\ UNCHANGED <<mains, made, pulls>>
CutOne(x) == made' = Append(made, x) /\ UNCHANGED <<mains, remote, pulls>>
PushedFirst(v) ==
  /\ press.at = "push" /\ remote[v] = 0 /\ remote' = [remote EXCEPT ![v] = press.head]
  /\ UNCHANGED <<mains, made, pulls>>

\* The steps that change GitHub, whoever takes them.
LEMMA GitHubMoves ==
  ASSUME ReleaseInv, R!Next
  PROVE  \/ UNCHANGED <<mains, made, remote, pulls>>
         \/ \E v \in R!Versions : Committed(v) \/ PushedOn(v) \/ OpenedOne(v) \/ Deleted(v)
         \/ \E i \in DOMAIN pulls : pulls[i].st = "OPEN" /\ (R!Merges(i) \/ ClosedOne(i))
         \/ \E h \in DOMAIN made : Passed(h)
         \/ \E x \in Mades : CutOne(x)
         \/ \E v \in R!Versions : PushedFirst(v)
<1>1. /\ MainTypes /\ RequestTypes /\ PressTypes /\ KnownTypes /\ OneOpen /\ PressKnows /\ BranchTypes
  BY DEF ReleaseInv, ReleaseTypes
<1>2. \A i \in DOMAIN pulls : pulls[i].version \in R!Versions
  <2>1. \A i \in DOMAIN pulls : pulls[i] \in Requests  BY <1>1 DEF RequestTypes
  <2> QED  BY <2>1 DEF Requests
<1>3. CASE R!Cut
  <2>1. press.version \in Nat /\ mains[known.main].version \in Nat
    <3>1. press.version \in R!Versions  BY <1>1, <1>3 DEF R!Cut, PressKnows
    <3>2. known.main \in 1..Len(mains)  BY <1>1 DEF KnownTypes
    <3>3. mains[known.main] \in Commits  BY <1>1, <3>2 DEF MainTypes
    <3> QED  BY <3>1, <3>3 DEF R!Versions, Commits
  <2> DEFINE x == [version |-> press.version, after |-> mains[known.main].version, app |-> TRUE, green |-> FALSE]
  <2>2. x \in Mades  BY <2>1 DEF Mades
  <2>3. UNCHANGED made \/ made' = Append(made, x)  BY <1>3 DEF R!Cut
  <2> HIDE DEF x
  <2> QED  BY <1>3, <2>2, <2>3 DEF R!Cut, CutOne
<1>4. CASE R!PushBranch
  <2>1. press.version \in R!Versions  BY <1>1, <1>4 DEF R!PushBranch, PressKnows
  <2> QED  BY <1>4, <2>1 DEF R!PushBranch, PushedFirst
<1>5. CASE R!CreatePull
  <2>1. press.version \in R!Versions  BY <1>1, <1>5 DEF R!CreatePull, PressKnows
  <2> QED  BY <1>5, <2>1 DEF R!CreatePull, OpenedOne, NoneOpen, R!OpenPulls, R!Opened
<1>6. CASE R!MergePull
  <2>1. press.pull \in DOMAIN pulls  BY <1>1, <1>6 DEF R!MergePull, PressKnows, PressTypes, Presses, RequestTypes
  <2> QED  BY <1>6, <2>1 DEF R!MergePull, R!Merges, R!github
<1>7. CASE R!Elsewhere
  <2>1. ASSUME NEW i \in R!OpenPulls,
               \/ pulls' = [pulls EXCEPT ![i].st = "CLOSED"] /\ UNCHANGED <<mains, tagged, made>>
                  /\ remote' \in {remote, [remote EXCEPT ![pulls[i].version] = 0]}
        PROVE  i \in DOMAIN pulls /\ pulls[i].st = "OPEN" /\ ClosedOne(i)
    BY <2>1 DEF R!OpenPulls, ClosedOne
  <2>2. ASSUME NEW i \in R!OpenPulls, R!Merges(i) PROVE i \in DOMAIN pulls /\ pulls[i].st = "OPEN"
    BY <2>2 DEF R!OpenPulls
  <2>3. ASSUME NEW i \in R!OpenPulls
      PROVE  pulls[i].version \in R!Versions /\ remote[pulls[i].version] \in DOMAIN made /\ remote[pulls[i].version] # 0
    BY <1>1, <1>2, <2>3 DEF R!OpenPulls, OneOpen, BranchTypes, ReleaseInv, ReleaseTypes, MadeTypes
  <2>4. ASSUME NEW v \in R!Versions, ~\E i \in R!OpenPulls : pulls[i].version = v PROVE NoneOpen(v)
    BY <2>4 DEF R!OpenPulls, NoneOpen
  <2>5. CASE \E v \in R!Versions : mains' = R!Commit(v, 0) /\ UNCHANGED <<tagged, made, remote, pulls>>
    BY <2>5 DEF R!Commit, Committed
  <2>6. CASE \E i \in R!OpenPulls : LET head == remote[pulls[i].version] IN
               /\ UNCHANGED <<mains, tagged, pulls>>
               /\ made' = [made EXCEPT ![head].green = TRUE] /\ UNCHANGED remote
    BY <2>3, <2>6 DEF Passed
  <2>7. CASE \E i \in R!OpenPulls : LET head == remote[pulls[i].version] IN
               /\ UNCHANGED <<mains, tagged, pulls>>
               /\ made' = Append(made, [made[head] EXCEPT !.app = FALSE, !.green = FALSE])
               /\ remote' = [remote EXCEPT ![pulls[i].version] = Len(made')]
    BY <2>3, <2>7 DEF PushedOn
  <2>8. CASE \E v \in R!Versions : /\ remote[v] # 0 /\ ~\E i \in R!OpenPulls : pulls[i].version = v
                                   /\ \/ pulls' = R!Opened(v) /\ UNCHANGED remote
                                      \/ remote' = [remote EXCEPT ![v] = 0] /\ UNCHANGED pulls
                                   /\ UNCHANGED <<mains, tagged, made>>
    BY <2>4, <2>8 DEF R!Opened, OpenedOne, Deleted
  <2>9. CASE UNCHANGED <<mains, made, remote, pulls>>  BY <2>9
  <2> QED  BY <1>7, <2>1, <2>2, <2>5, <2>6, <2>7, <2>8, <2>9 DEF R!Elsewhere
<1>8. CASE UNCHANGED R!github  BY <1>8 DEF R!github
<1>9. CASE R!PushTag  BY <1>9 DEF R!PushTag
<1> QED  BY <1>3, <1>4, <1>5, <1>6, <1>7, <1>8, <1>9
         DEF R!Next, R!Press, R!Fetch, R!List, R!Decide, R!FindCommit, R!IsCut, R!ElsewhereHere

\* What is on GitHub is never taken back: `main` and the heads that were made, but for their checks, and the
\* pull requests, of which a merged one stays merged.
Grows ==
  /\ Len(mains) <= Len(mains') /\ \A c \in 1..Len(mains) : mains'[c] = mains[c]
  /\ Len(made) <= Len(made')
  /\ \A h \in 1..Len(made) : made'[h].app = made[h].app /\ (made[h].green => made'[h].green)
  /\ Len(pulls) <= Len(pulls')
  /\ \A i \in 1..Len(pulls) : pulls'[i].version = pulls[i].version /\ (pulls[i].st = "MERGED" => pulls'[i].st = "MERGED")

\* A branch that moves goes, or to a head that is new, but for the push of a press.
BranchesMove ==
  \A v \in R!Versions : remote'[v] \in {remote[v], 0} \/ remote'[v] > Len(made) \/ press.at = "push"

\* What GitHub holds keeps its types and its rules.
LEMMA GitHubStays ==
  ASSUME ReleaseInv, R!Next
  PROVE  /\ MainTypes' /\ MadeTypes' /\ RequestTypes' /\ BranchTypes' /\ OneOpen' /\ MergedIn'
         /\ Grows /\ BranchesMove
<1> DEFINE Goal == /\ MainTypes' /\ MadeTypes' /\ RequestTypes' /\ BranchTypes' /\ OneOpen' /\ MergedIn'
                   /\ Grows /\ BranchesMove
<1>1. MainTypes /\ MadeTypes /\ RequestTypes /\ BranchTypes /\ OneOpen /\ MergedIn
  BY DEF ReleaseInv, ReleaseTypes
<1>2. /\ DOMAIN mains = 1..Len(mains) /\ Len(mains) \in Nat /\ \A c \in 1..Len(mains) : mains[c] \in Commits
      /\ DOMAIN made = 1..Len(made) /\ Len(made) \in Nat /\ \A h \in 1..Len(made) : made[h] \in Mades
      /\ DOMAIN pulls = 1..Len(pulls) /\ Len(pulls) \in Nat /\ \A i \in 1..Len(pulls) : pulls[i] \in Requests
      /\ \A v \in R!Versions : remote[v] \in 0..Len(made)
  BY <1>1 DEF MainTypes, MadeTypes, RequestTypes, BranchTypes
<1>3. \A i \in 1..Len(pulls) : pulls[i].version \in R!Versions  BY <1>2 DEF Requests
<1>4. CASE UNCHANGED <<mains, made, remote, pulls>>
  <2>1. MainTypes' /\ MadeTypes' /\ RequestTypes' /\ BranchTypes'
    BY <1>1, <1>4 DEF MainTypes, MadeTypes, RequestTypes, BranchTypes
  <2>2. OneOpen' /\ MergedIn'  BY <1>1, <1>4 DEF OneOpen, MergedIn
  <2>3. Grows /\ BranchesMove  BY <1>2, <1>4 DEF Grows, BranchesMove
  <2> QED  BY <2>1, <2>2, <2>3
<1>5. ASSUME NEW v \in R!Versions, Committed(v) PROVE Goal
  <2>1. [version |-> v, pull |-> 0] \in Commits  BY DEF Commits, R!Versions
  <2>2. mains' \in Seq(Commits) /\ Len(mains') = Len(mains) + 1 /\ \A c \in 1..Len(mains) : mains'[c] = mains[c]
    BY <1>1, <1>5, <2>1 DEF Committed, MainTypes
  <2>3. MainTypes' /\ MadeTypes' /\ RequestTypes' /\ BranchTypes'
    BY <1>1, <1>5, <2>2 DEF Committed, MainTypes, MadeTypes, RequestTypes, BranchTypes
  <2>4. OneOpen'  BY <1>1, <1>5 DEF Committed, OneOpen
  <2>5. MergedIn'
    <3>1. DOMAIN mains \subseteq DOMAIN mains'  BY <1>2, <2>2
    <3> QED  BY <1>1, <1>2, <1>5, <2>2, <3>1 DEF Committed, MergedIn
  <2>6. Grows /\ BranchesMove  BY <1>2, <1>5, <2>2 DEF Committed, Grows, BranchesMove
  <2> QED  BY <2>3, <2>4, <2>5, <2>6
<1>6. ASSUME NEW v \in R!Versions, PushedOn(v) PROVE Goal
  <2>1. remote[v] \in 1..Len(made) /\ made[remote[v]] \in Mades  BY <1>2, <1>6 DEF PushedOn
  <2>2. [made[remote[v]] EXCEPT !.app = FALSE, !.green = FALSE] \in Mades  BY <2>1 DEF Mades
  <2>3. made' \in Seq(Mades) /\ Len(made') = Len(made) + 1 /\ \A h \in 1..Len(made) : made'[h] = made[h]
    BY <1>1, <1>6, <2>2 DEF PushedOn, MadeTypes
  <2>4. BranchTypes'  BY <1>1, <1>2, <1>6, <2>3 DEF PushedOn, BranchTypes
  <2>5. MainTypes' /\ MadeTypes' /\ RequestTypes'
    BY <1>1, <1>6, <2>3 DEF PushedOn, MainTypes, MadeTypes, RequestTypes
  <2>6. remote' = [remote EXCEPT ![v] = Len(made) + 1]  BY <1>6, <2>3 DEF PushedOn
  <2>7. OneOpen'  BY <1>1, <1>2, <1>3, <1>6, <2>6 DEF PushedOn, OneOpen, BranchTypes
  <2>8. MergedIn' /\ Grows  BY <1>1, <1>2, <1>6, <2>3 DEF PushedOn, MergedIn, Grows
  <2>9. BranchesMove  BY <1>1, <1>2, <2>6 DEF BranchesMove, BranchTypes
  <2> QED  BY <2>4, <2>5, <2>7, <2>8, <2>9
<1>7. ASSUME NEW v \in R!Versions, OpenedOne(v) PROVE Goal
  <2> DEFINE x == [version |-> v, st |-> "OPEN"]
  <2>1. x \in Requests  BY DEF Requests
  <2> HIDE DEF x
  <2>2. /\ pulls' \in Seq(Requests) /\ Len(pulls') = Len(pulls) + 1 /\ pulls'[Len(pulls) + 1] = x
        /\ \A i \in 1..Len(pulls) : pulls'[i] = pulls[i]
        /\ DOMAIN pulls' = 1..Len(pulls) + 1
    BY <1>1, <1>7, <2>1 DEF OpenedOne, RequestTypes, x
  <2>3. MainTypes' /\ MadeTypes' /\ RequestTypes' /\ BranchTypes'
    BY <1>1, <1>7, <2>2 DEF OpenedOne, MainTypes, MadeTypes, RequestTypes, BranchTypes
  <2>4. x.version = v /\ x.st = "OPEN"  BY DEF x
  <2>5. OneOpen'
    <3>1. \A i \in DOMAIN pulls' : i \in DOMAIN pulls \/ i = Len(pulls) + 1  BY <1>2, <2>2
    <3>2. remote' = remote /\ remote[v] # 0 /\ NoneOpen(v)  BY <1>7 DEF OpenedOne
    <3>3. \A i \in DOMAIN pulls : pulls'[i] = pulls[i]  BY <1>2, <2>2
    <3> QED  BY <1>1, <2>2, <2>4, <3>1, <3>2, <3>3 DEF OneOpen, NoneOpen
  <2>6. MergedIn'  BY <1>1, <1>2, <1>7, <2>2, <2>4 DEF OpenedOne, MergedIn
  <2>7. Grows /\ BranchesMove  BY <1>2, <1>7, <2>2 DEF OpenedOne, Grows, BranchesMove
  <2> QED  BY <2>3, <2>5, <2>6, <2>7
<1>8. ASSUME NEW v \in R!Versions, Deleted(v) PROVE Goal
  <2>1. MainTypes' /\ MadeTypes' /\ RequestTypes' /\ BranchTypes'
    BY <1>1, <1>2, <1>8 DEF Deleted, MainTypes, MadeTypes, RequestTypes, BranchTypes
  <2>2. OneOpen' /\ MergedIn'  BY <1>1, <1>2, <1>3, <1>8 DEF Deleted, OneOpen, MergedIn, NoneOpen, BranchTypes
  <2>3. Grows /\ BranchesMove  BY <1>1, <1>2, <1>8 DEF Deleted, Grows, BranchesMove, BranchTypes
  <2> QED  BY <2>1, <2>2, <2>3
<1>9. ASSUME NEW i \in DOMAIN pulls, pulls[i].st = "OPEN", R!Merges(i) PROVE Goal
  <2> DEFINE v == pulls[i].version
             x == [version |-> made[remote[v]].version, pull |-> i]
  <2>1. v \in R!Versions /\ remote[v] \in 1..Len(made) /\ made[remote[v]] \in Mades
    BY <1>1, <1>2, <1>3, <1>9 DEF OneOpen
  <2>2. x \in Commits  BY <1>2, <2>1 DEF Commits, Mades
  <2>3. mains' = Append(mains, x) /\ pulls' = [pulls EXCEPT ![i].st = "MERGED"] /\ remote' = [remote EXCEPT ![v] = 0]
        /\ made' = made
    BY <1>9 DEF R!Merges, R!Commit
  <2>4. x.pull = i  OBVIOUS
  <2> HIDE DEF v, x
  <2>5. /\ mains' \in Seq(Commits) /\ Len(mains') = Len(mains) + 1 /\ \A c \in 1..Len(mains) : mains'[c] = mains[c]
        /\ mains'[Len(mains) + 1] = x /\ DOMAIN mains' = 1..Len(mains) + 1
    BY <1>1, <2>2, <2>3 DEF MainTypes
  <2>6. [pulls[i] EXCEPT !.st = "MERGED"] \in Requests  BY <1>2 DEF Requests
  <2>7. /\ pulls' \in Seq(Requests) /\ Len(pulls') = Len(pulls) /\ DOMAIN pulls' = DOMAIN pulls
        /\ \A j \in DOMAIN pulls : pulls'[j] = IF j = i THEN [pulls[i] EXCEPT !.st = "MERGED"] ELSE pulls[j]
    BY <1>1, <1>2, <2>3, <2>6 DEF RequestTypes
  <2>8. \A j \in DOMAIN pulls : /\ pulls'[j].version = pulls[j].version
                                /\ pulls'[j].st = IF j = i THEN "MERGED" ELSE pulls[j].st
    BY <1>2, <2>7 DEF Requests
  <2>9. MainTypes' /\ MadeTypes' /\ RequestTypes' /\ BranchTypes'
    <3>1. made' = made /\ remote' = [remote EXCEPT ![v] = 0]  BY <2>3
    <3>2. BranchTypes /\ 0 \in 0..Len(made)  BY <1>1, <1>2
    <3>3. BranchTypes'  BY <3>1, <3>2 DEF BranchTypes
    <3> QED  BY <1>1, <2>3, <2>5, <2>7, <3>3 DEF MainTypes, MadeTypes, RequestTypes
  <2>10. OneOpen'
    <3>1. \A j \in DOMAIN pulls : j # i /\ pulls[j].st = "OPEN" => pulls[j].version # v  BY <1>1, <1>9 DEF OneOpen, v
    <3> QED  BY <1>1, <1>2, <1>3, <2>3, <2>7, <2>8, <3>1 DEF OneOpen, BranchTypes
  <2>11. MergedIn'
    <3>1. \A c \in DOMAIN mains : c \in DOMAIN mains' /\ mains'[c] = mains[c]  BY <1>2, <2>5
    <3>2. Len(mains) + 1 \in DOMAIN mains' /\ mains'[Len(mains) + 1].pull = i  BY <1>2, <2>4, <2>5
    <3> QED  BY <1>1, <2>7, <2>8, <3>1, <3>2 DEF MergedIn
  <2>12. Grows  BY <1>2, <2>3, <2>5, <2>7, <2>8 DEF Grows
  <2>13. BranchesMove  BY <1>1, <1>2, <2>3 DEF BranchesMove, BranchTypes
  <2> QED  BY <2>9, <2>10, <2>11, <2>12, <2>13
<1>10. ASSUME NEW i \in DOMAIN pulls, pulls[i].st = "OPEN", ClosedOne(i) PROVE Goal
  <2>1. [pulls[i] EXCEPT !.st = "CLOSED"] \in Requests  BY <1>2 DEF Requests
  <2>2. /\ pulls' \in Seq(Requests) /\ Len(pulls') = Len(pulls) /\ DOMAIN pulls' = DOMAIN pulls
        /\ \A j \in DOMAIN pulls : pulls'[j] = IF j = i THEN [pulls[i] EXCEPT !.st = "CLOSED"] ELSE pulls[j]
    BY <1>1, <1>2, <1>10, <2>1 DEF RequestTypes, ClosedOne
  <2>3. \A j \in DOMAIN pulls : /\ pulls'[j].version = pulls[j].version
                                /\ pulls'[j].st = IF j = i THEN "CLOSED" ELSE pulls[j].st
    BY <1>2, <2>2 DEF Requests
  <2>4. MainTypes' /\ MadeTypes' /\ RequestTypes' /\ BranchTypes'
    <3>1. BranchTypes'  BY <1>1, <1>2, <1>10 DEF ClosedOne, BranchTypes
    <3> QED  BY <1>1, <1>10, <2>2, <3>1 DEF ClosedOne, MainTypes, MadeTypes, RequestTypes
  <2>5. OneOpen'
    <3>1. \A j \in DOMAIN pulls : j # i /\ pulls[j].st = "OPEN" => pulls[j].version # pulls[i].version
      BY <1>1, <1>10 DEF OneOpen
    <3> QED  BY <1>1, <1>2, <1>3, <1>10, <2>2, <2>3, <3>1 DEF OneOpen, BranchTypes, ClosedOne
  <2>6. MergedIn'  BY <1>1, <1>10, <2>2, <2>3 DEF MergedIn, ClosedOne
  <2>7. Grows  BY <1>2, <1>10, <2>2, <2>3 DEF Grows, ClosedOne
  <2>8. BranchesMove  BY <1>1, <1>2, <1>10 DEF BranchesMove, BranchTypes, ClosedOne
  <2> QED  BY <2>4, <2>5, <2>6, <2>7, <2>8
<1>11. ASSUME NEW h \in DOMAIN made, Passed(h) PROVE Goal
  <2>1. [made[h] EXCEPT !.green = TRUE] \in Mades  BY <1>2 DEF Mades
  <2>2. /\ made' \in Seq(Mades) /\ Len(made') = Len(made)
        /\ \A k \in DOMAIN made : made'[k] = IF k = h THEN [made[h] EXCEPT !.green = TRUE] ELSE made[k]
    BY <1>1, <1>2, <1>11, <2>1 DEF MadeTypes, Passed
  <2>3. \A k \in DOMAIN made : made'[k].app = made[k].app /\ (made[k].green => made'[k].green)
    <3>1. [made[h] EXCEPT !.green = TRUE].app = made[h].app /\ [made[h] EXCEPT !.green = TRUE].green
      BY <1>2 DEF Mades
    <3> QED  BY <2>2, <3>1
  <2>4. MainTypes' /\ MadeTypes' /\ RequestTypes' /\ BranchTypes'
    BY <1>1, <1>11, <2>2 DEF Passed, MainTypes, MadeTypes, RequestTypes, BranchTypes
  <2>5. OneOpen' /\ MergedIn'  BY <1>1, <1>11 DEF Passed, OneOpen, MergedIn
  <2>6. Grows  BY <1>2, <1>11, <2>2, <2>3 DEF Grows, Passed
  <2>7. BranchesMove  BY <1>2, <1>11 DEF BranchesMove, Passed
  <2> QED  BY <2>4, <2>5, <2>6, <2>7
<1>12. ASSUME NEW x \in Mades, CutOne(x) PROVE Goal
  <2>1. made' \in Seq(Mades) /\ Len(made') = Len(made) + 1 /\ \A k \in 1..Len(made) : made'[k] = made[k]
    BY <1>1, <1>12 DEF MadeTypes, CutOne
  <2>2. BranchTypes'  BY <1>1, <1>2, <1>12, <2>1 DEF CutOne, BranchTypes
  <2>3. MainTypes' /\ MadeTypes' /\ RequestTypes'
    BY <1>1, <1>12, <2>1 DEF CutOne, MainTypes, MadeTypes, RequestTypes
  <2>4. OneOpen' /\ MergedIn'  BY <1>1, <1>12 DEF CutOne, OneOpen, MergedIn
  <2>5. Grows /\ BranchesMove  BY <1>2, <1>12, <2>1 DEF CutOne, Grows, BranchesMove
  <2> QED  BY <2>2, <2>3, <2>4, <2>5
<1>13. ASSUME NEW v \in R!Versions, PushedFirst(v) PROVE Goal
  <2>1. press.head \in 1..Len(made)
    BY <1>13, <1>2 DEF PushedFirst, ReleaseInv, ReleaseTypes, PressTypes, Presses, PressKnows
  <2>2. BranchTypes'  BY <1>1, <1>13, <2>1 DEF PushedFirst, BranchTypes
  <2>3. MainTypes' /\ MadeTypes' /\ RequestTypes'
    BY <1>1, <1>13 DEF PushedFirst, MainTypes, MadeTypes, RequestTypes
  <2>4. OneOpen' /\ MergedIn'
    BY <1>1, <1>2, <1>3, <1>13, <2>1 DEF PushedFirst, OneOpen, MergedIn, BranchTypes
  <2>5. Grows /\ BranchesMove  BY <1>2, <1>13 DEF PushedFirst, Grows, BranchesMove
  <2> QED  BY <2>2, <2>3, <2>4, <2>5
<1> QED  BY <1>4, <1>5, <1>6, <1>7, <1>8, <1>9, <1>10, <1>11, <1>12, <1>13, GitHubMoves

\* What is here keeps its types, and the `opened` record names a head the app made.
LEMMA RecordsStay ==
  ASSUME ReleaseInv, R!Next
  PROVE  RecordTypes' /\ OwnHeads' /\ KnownTypes'
<1>1. /\ MainTypes' /\ MadeTypes' /\ RequestTypes' /\ Grows /\ RecordTypes /\ OwnHeads /\ KnownTypes /\ PressKnows
      /\ PressTypes /\ MadeTypes /\ MainTypes
  BY GitHubStays DEF ReleaseInv, ReleaseTypes
<1>2. Len(made) \in Nat /\ Len(made') \in Nat /\ Len(mains) \in Nat /\ Len(mains') \in Nat
  BY <1>1 DEF MadeTypes, MainTypes
<1>3. Len(made) <= Len(made') /\ Len(mains) <= Len(mains') /\ \A h \in 1..Len(made) : made'[h].app = made[h].app
  BY <1>1 DEF Grows
<1>4. RecordTypes' /\ OwnHeads'
  <2>1. CASE recorded' = recorded
    <3>1. RecordTypes'  BY <1>1, <1>2, <1>3, <2>1 DEF RecordTypes
    <3>2. OwnHeads'  BY <1>1, <1>2, <1>3, <2>1 DEF RecordTypes, OwnHeads
    <3> QED  BY <3>1, <3>2
  <2>2. CASE R!CreatePull /\ recorded' = [recorded EXCEPT ![press.version] = press.head]
    <3>1. press.head \in 1..Len(made) /\ made[press.head].app
      BY <1>1, <1>2, <2>2 DEF R!CreatePull, PressKnows, PressTypes, Presses
    <3>2. press.head \in 0..Len(made') /\ recorded \in [R!Versions -> 0..Len(made')]
      BY <1>1, <1>2, <1>3, <3>1 DEF RecordTypes
    <3>3. RecordTypes'
      <4>1. recorded' = [recorded EXCEPT ![press.version] = press.head]  BY <2>2
      <4> QED  BY <3>2, <4>1 DEF RecordTypes
    <3>4. OwnHeads'  BY <1>1, <1>2, <1>3, <2>2, <3>1 DEF RecordTypes, OwnHeads
    <3> QED  BY <3>3, <3>4
  <2>3. CASE R!CreatePull  BY <2>1, <2>2, <2>3 DEF R!CreatePull, R!Fails
  <2>4. CASE ~R!CreatePull
    BY <2>1, <2>4 DEF R!Next, R!Press, R!Fetch, R!List, R!Decide, R!Cut, R!PushBranch, R!MergePull, R!FindCommit,
      R!PushTag,
      R!IsCut, R!Elsewhere, R!ElsewhereHere, R!here, R!Fails, R!Ends
  <2> QED  BY <2>3, <2>4
<1>5. KnownTypes'
  <2>1. CASE known' = known  BY <1>1, <1>2, <1>3, <2>1 DEF KnownTypes
  <2>2. mains # <<>> /\ Len(mains) \in 1..Len(mains)  BY <1>1, <1>2 DEF KnownTypes
  <2>3. CASE known' = [known EXCEPT !.main = Len(mains)]  BY <1>1, <1>2, <1>3, <2>2, <2>3 DEF KnownTypes
  <2>4. ASSUME NEW t \in SUBSET Int, known' = [main |-> Len(mains), tags |-> t] PROVE KnownTypes'
    BY <1>2, <1>3, <2>2, <2>4 DEF KnownTypes
  <2>5. R!Tags \in SUBSET Int /\ {v \in R!Versions : tagged'[v] # 0} \in SUBSET Int  BY DEF R!Tags, R!Versions
  <2> QED
    BY <2>1, <2>3, <2>4, <2>5 DEF R!Next, R!Press, R!Fetch, R!List, R!Decide, R!Cut, R!PushBranch, R!CreatePull,
      R!MergePull,
      R!FindCommit, R!PushTag, R!IsCut, R!Elsewhere, R!ElsewhereHere, R!here, R!Fails, R!Ends
<1> QED  BY <1>4, <1>5

\* A press is what it was, one call further, or over.
LEMMA PressStays ==
  ASSUME ReleaseInv, R!Next
  PROVE  PressTypes' /\ PressKnows'
<1>1. /\ Grows /\ BranchesMove /\ PressTypes /\ PressKnows /\ RequestTypes /\ MadeTypes /\ MainTypes /\ BranchTypes
      /\ MergedIn /\ RecordTypes
  BY GitHubStays DEF ReleaseInv, ReleaseTypes
<1>2. /\ DOMAIN mains = 1..Len(mains) /\ Len(mains) \in Nat /\ DOMAIN mains' = 1..Len(mains') /\ Len(mains') \in Nat
      /\ DOMAIN pulls = 1..Len(pulls) /\ Len(pulls) \in Nat /\ DOMAIN pulls' = 1..Len(pulls') /\ Len(pulls') \in Nat
      /\ DOMAIN made = 1..Len(made) /\ Len(made) \in Nat /\ Len(made') \in Nat
  <2>1. MainTypes' /\ MadeTypes' /\ RequestTypes'  BY GitHubStays
  <2> QED  BY <1>1, <2>1 DEF MainTypes, MadeTypes, RequestTypes
<1>3. /\ press \in Presses /\ press.pull \in Nat /\ press.head \in Nat /\ press.sha \in Nat
      /\ \A v \in R!Versions : remote[v] \in 0..Len(made)
  BY <1>1 DEF PressTypes, Presses, BranchTypes
<1>4. CASE press' = R!NoPress
  <2>1. PressTypes'  BY <1>4 DEF PressTypes, Presses, R!NoPress
  <2> QED  BY <1>2, <1>4, <2>1 DEF PressKnows, R!NoPress
<1>5. CASE press' = press /\ recorded' = recorded
  <2>1. PressTypes'  BY <1>1, <1>5 DEF PressTypes
  <2>2. press.at \in {"push", "create"} => press.head # 0 /\ made'[press.head].app
    BY <1>1, <1>2, <1>3 DEF PressKnows, Grows
  <2>3. press.at \in {"merge", "merged"} => press.pull # 0 /\ pulls'[press.pull].version = press.version
    BY <1>1, <1>2, <1>3 DEF PressKnows, Grows
  <2>4. press.at = "merge" => /\ press.head # 0 /\ press.head = recorded[press.version]
                              /\ remote'[press.version] = press.head => made'[press.head].green
    <3> SUFFICES ASSUME press.at = "merge"
                 PROVE  /\ press.head # 0 /\ press.head = recorded[press.version]
                        /\ remote'[press.version] = press.head => made'[press.head].green
      OBVIOUS
    <3>1. press.version \in R!Versions /\ press.head \in 1..Len(made)  BY <1>1, <1>2, <1>3 DEF PressKnows
    <3>2. remote'[press.version] \in {remote[press.version], 0} \/ remote'[press.version] > Len(made)
      BY <1>1, <3>1 DEF BranchesMove
    <3>3. remote'[press.version] = press.head => remote[press.version] = press.head  BY <1>2, <3>1, <3>2
    <3>4. remote[press.version] = press.head => made[press.head].green  BY <1>1 DEF PressKnows
    <3>5. made[press.head].green => made'[press.head].green  BY <1>1, <3>1 DEF Grows
    <3> QED  BY <1>1, <3>3, <3>4, <3>5 DEF PressKnows
  <2>5. press.at = "merged" => pulls'[press.pull].st = "MERGED"  BY <1>1, <1>2, <1>3 DEF PressKnows, Grows
  <2>6. press.at = "tag" => /\ press.sha \in DOMAIN mains' /\ mains'[press.sha].pull \in DOMAIN pulls'
                            /\ pulls'[mains'[press.sha].pull].version = press.version
    BY <1>1, <1>2, <1>3 DEF PressKnows, Grows
  <2>7. press.pull <= Len(pulls') /\ press.head <= Len(made')  BY <1>1, <1>2, <1>3 DEF PressKnows, Grows
  <2> QED  BY <1>1, <1>5, <2>1, <2>2, <2>3, <2>4, <2>5, <2>6, <2>7 DEF PressKnows
<1>6. ASSUME NEW phase \in {"prepare", "publish"}, NEW v \in R!Versions, R!Press(phase, v)
      PROVE  PressTypes' /\ PressKnows'
  <2>1. /\ press'.at = "fetch" /\ press'.pull = 0 /\ press'.head = 0 /\ press'.version = v
        /\ press' = [at |-> "fetch", phase |-> phase, version |-> v, pull |-> 0, head |-> 0, sha |-> 0]
    BY <1>6 DEF R!Press, R!NoPress
  <2>2. PressTypes'  BY <2>1 DEF PressTypes, Presses, R!Versions
  <2> QED  BY <1>2, <2>1, <2>2 DEF PressKnows
<1>7. CASE R!Fetch
  <2>1. CASE press' = [press EXCEPT !.at = "list"]
    <3>1. PressTypes'  BY <1>1, <2>1 DEF PressTypes, Presses
    <3>2. press'.at = "list" /\ press'.version = press.version /\ press'.pull = press.pull /\ press'.head = press.head
      BY <1>3, <2>1 DEF Presses
    <3>3. press.version \in R!Versions  BY <1>1, <1>7 DEF R!Fetch, PressKnows
    <3>4. press.pull <= Len(pulls) /\ press.head <= Len(made) /\ UNCHANGED <<pulls, made>>
      BY <1>1, <1>7 DEF PressKnows, R!Fetch, R!github
    <3> QED  BY <3>1, <3>2, <3>3, <3>4 DEF PressKnows
  <2> QED  BY <1>4, <1>7, <2>1 DEF R!Fetch, R!Ends
<1>8. CASE R!List
  <2>1. press.version \in R!Versions /\ UNCHANGED <<pulls, made>>  BY <1>1, <1>8 DEF R!List, PressKnows, R!github
  <2>2. ASSUME NEW i \in 0..Len(pulls), NEW h \in 0..Len(made),
               press' = [press EXCEPT !.at = "decide", !.pull = i, !.head = h]
        PROVE  PressTypes' /\ PressKnows'
    <3>1. PressTypes'
      <4>1. i \in Nat /\ h \in Nat  BY <1>2
      <4> QED  BY <1>1, <2>2, <4>1 DEF PressTypes, Presses
    <3>2. press'.at = "decide" /\ press'.version = press.version /\ press'.pull = i /\ press'.head = h
      BY <1>3, <2>2 DEF Presses
    <3> QED  BY <1>2, <2>1, <3>1, <3>2 DEF PressKnows
  <2> DEFINE i == IF R!OpenPulls = {} THEN 0 ELSE R!Max(R!OpenPulls)
             h == IF i = 0 THEN 0 ELSE remote[pulls[i].version]
  <2>3. i \in 0..Len(pulls)
    <3>1. R!OpenPulls \subseteq 1..Len(pulls)  BY <1>2 DEF R!OpenPulls
    <3>2. R!OpenPulls # {} => R!Max(R!OpenPulls) \in 1..Len(pulls)  BY <1>2, <3>1, MaxIsOfIt
    <3> QED  BY <1>2, <3>2
  <2>4. h \in 0..Len(made)
    <3>1. i # 0 => pulls[i] \in Requests  BY <1>1, <1>2, <2>3 DEF RequestTypes
    <3> QED  BY <1>2, <1>3, <3>1 DEF Requests
  <2>5. press' = R!NoPress \/ press' = [press EXCEPT !.at = "decide", !.pull = i, !.head = h]
    BY <1>8 DEF R!List, R!Ends
  <2> HIDE DEF i, h
  <2> QED  BY <1>4, <2>2, <2>3, <2>4, <2>5
<1>9. CASE R!Decide
  <2>1. /\ press.version \in R!Versions /\ UNCHANGED <<mains, pulls, made, remote, recorded>>
        /\ press.pull <= Len(pulls) /\ press.head <= Len(made)
    BY <1>1, <1>9 DEF R!Decide, PressKnows, R!github, R!here
  <2>2. ASSUME NEW a \in {"cut", "find"}, press' = [press EXCEPT !.at = a] PROVE PressTypes' /\ PressKnows'
    <3>1. PressTypes'  BY <1>1, <2>2 DEF PressTypes, Presses
    <3>2. press'.at = a /\ press'.version = press.version /\ press'.pull = press.pull /\ press'.head = press.head
      BY <1>3, <2>2 DEF Presses
    <3> QED  BY <2>1, <3>1, <3>2 DEF PressKnows
  <2>3. ASSUME press' = [press EXCEPT !.at = "merge"], R!MayMerge(press.version),
               R!Classify(press.pull).state = "pr-open", press.version = R!Classify(press.pull).version
        PROVE  PressTypes' /\ PressKnows'
    <3>1. PressTypes'  BY <1>1, <2>3 DEF PressTypes, Presses
    <3>2. press'.at = "merge" /\ press'.version = press.version /\ press'.pull = press.pull /\ press'.head = press.head
      BY <1>3, <2>3 DEF Presses
    <3>3. press.pull # 0 /\ pulls[press.pull].version = press.version  BY <2>3 DEF R!Classify
    <3>4. /\ press.head = recorded[press.version] /\ press.head # 0
          /\ remote[press.version] = press.head => made[press.head].green
      BY <2>3, <3>3 DEF R!MayMerge
    <3> QED  BY <2>1, <3>1, <3>2, <3>3, <3>4 DEF PressKnows
  <2> QED  BY <1>4, <1>9, <2>2, <2>3 DEF R!Decide, R!Ends
<1>10. CASE R!Cut
  <2>1. CASE /\ made' = Append(made, [version |-> press.version, after |-> mains[known.main].version,
                                      app |-> TRUE, green |-> FALSE])
             /\ press' = [press EXCEPT !.at = "push", !.head = Len(made')]
    <3>1. PressTypes'  BY <1>1, <1>2, <2>1 DEF PressTypes, Presses
    <3>2. Len(made') = Len(made) + 1 /\ made'[Len(made')].app  BY <1>1, <1>2, <2>1 DEF MadeTypes
    <3>3. press'.at = "push" /\ press'.version = press.version /\ press'.pull = press.pull /\ press'.head = Len(made')
      BY <1>3, <2>1 DEF Presses
    <3>4. press.version \in R!Versions /\ press.pull <= Len(pulls) /\ UNCHANGED pulls
      BY <1>1, <1>10 DEF R!Cut, PressKnows
    <3> QED  BY <1>2, <3>1, <3>2, <3>3, <3>4 DEF PressKnows
  <2> QED  BY <1>4, <1>10, <2>1 DEF R!Cut, R!Ends
<1>11. CASE R!PushBranch
  <2>1. CASE press' = [press EXCEPT !.at = "create"]
    <3>1. PressTypes'  BY <1>1, <2>1 DEF PressTypes, Presses
    <3>2. press'.at = "create" /\ press'.version = press.version /\ press'.pull = press.pull /\ press'.head = press.head
      BY <1>3, <2>1 DEF Presses
    <3>3. /\ press.version \in R!Versions /\ press.pull <= Len(pulls) /\ press.head <= Len(made)
          /\ press.head # 0 /\ made[press.head].app /\ UNCHANGED <<made, pulls>>
      BY <1>1, <1>11 DEF R!PushBranch, PressKnows
    <3> QED  BY <3>1, <3>2, <3>3 DEF PressKnows
  <2> QED  BY <1>4, <1>11, <2>1 DEF R!PushBranch, R!Fails, R!Ends
<1>12. CASE R!MergePull
  <2>1. CASE R!Merges(press.pull) /\ press' = [press EXCEPT !.at = "merged"]
    <3>1. PressTypes'  BY <1>1, <2>1 DEF PressTypes, Presses
    <3>2. press'.at = "merged" /\ press'.version = press.version /\ press'.pull = press.pull /\ press'.head = press.head
      BY <1>3, <2>1 DEF Presses
    <3>3. /\ press.version \in R!Versions /\ press.pull \in 1..Len(pulls) /\ press.head <= Len(made)
          /\ pulls[press.pull].version = press.version
      BY <1>1, <1>2, <1>3, <1>12 DEF R!MergePull, PressKnows
    <3>4. pulls'[press.pull].st = "MERGED"
      <4>1. pulls' = [pulls EXCEPT ![press.pull].st = "MERGED"]  BY <2>1 DEF R!Merges
      <4>2. pulls[press.pull] \in Requests  BY <1>1, <3>3 DEF RequestTypes
      <4>3. [pulls[press.pull] EXCEPT !.st = "MERGED"].st = "MERGED"  BY <4>2 DEF Requests
      <4> QED  BY <1>2, <3>3, <4>1, <4>3
    <3>5. pulls'[press.pull].version = press.version /\ press.pull <= Len(pulls') /\ press.head <= Len(made')
      BY <1>1, <1>2, <1>3, <3>3 DEF Grows
    <3> QED  BY <3>1, <3>2, <3>3, <3>4, <3>5 DEF PressKnows
  <2>2. CASE press' = R!NoPress  BY <1>4, <2>2
  <2> QED  BY <1>12, <2>1, <2>2 DEF R!MergePull, R!Ends
<1>13. CASE R!FindCommit
  <2> DEFINE found == {i \in DOMAIN pulls : pulls[i].version = press.version /\ pulls[i].st = "MERGED"}
             i == IF press.at = "merged" THEN press.pull ELSE R!Max(found)
  <2>1. CASE press.at = "merged" \/ found # {}
    <3>1. i \in 1..Len(pulls) /\ pulls[i].version = press.version /\ pulls[i].st = "MERGED"
      <4>1. CASE press.at = "merged"  BY <1>1, <1>2, <1>3, <4>1 DEF PressKnows
      <4>2. CASE press.at # "merged"
        <5>1. found \subseteq 1..Len(pulls) /\ found # {}  BY <1>2, <2>1, <4>2
        <5>2. R!Max(found) \in found  BY <1>2, <5>1, MaxIsOfIt
        <5> QED  BY <1>2, <4>2, <5>2
      <4> QED  BY <4>1, <4>2
    <3> HIDE DEF i, found
    <3>2. R!MergeCommit(i) \in DOMAIN mains /\ mains[R!MergeCommit(i)].pull = i
      BY <1>1, <1>2, <3>1 DEF MergedIn, R!MergeCommit
    <3>3. CASE press' = [press EXCEPT !.at = "tag", !.sha = R!MergeCommit(i)]
      <4>1. R!MergeCommit(i) \in Nat  BY <1>2, <3>2
      <4>2. PressTypes'  BY <1>1, <3>3, <4>1 DEF PressTypes, Presses
      <4>3. /\ press'.at = "tag" /\ press'.version = press.version /\ press'.pull = press.pull /\ press'.head = press.head
            /\ press'.sha = R!MergeCommit(i)
        BY <1>3, <3>3 DEF Presses
      <4>4. /\ press.version \in R!Versions /\ press.pull <= Len(pulls) /\ press.head <= Len(made)
            /\ UNCHANGED <<mains, made, pulls>>
        BY <1>1, <1>13 DEF R!FindCommit, PressKnows, R!github
      <4> QED  BY <1>2, <3>1, <3>2, <4>2, <4>3, <4>4 DEF PressKnows
    <3> QED  BY <1>4, <1>13, <3>3 DEF R!FindCommit, R!Ends, i, found
  <2> QED  BY <1>4, <1>13, <2>1 DEF R!FindCommit, R!Ends
<1>14. CASE R!CreatePull \/ R!PushTag \/ R!IsCut
  BY <1>4, <1>14 DEF R!CreatePull, R!PushTag, R!IsCut, R!Fails, R!Ends
<1>15. CASE R!Elsewhere \/ R!ElsewhereHere
  BY <1>5, <1>15 DEF R!Elsewhere, R!ElsewhereHere, R!here
<1> QED  BY <1>6, <1>7, <1>8, <1>9, <1>10, <1>11, <1>12, <1>13, <1>14, <1>15 DEF R!Next

\* A tag names a commit.
LEMMA TagsStay ==
  ASSUME ReleaseInv, R!Next
  PROVE  TagTypes'
<1>1. TagTypes /\ PressTypes /\ MainTypes  BY DEF ReleaseInv, ReleaseTypes
<1>2. CASE UNCHANGED tagged  BY <1>1, <1>2 DEF TagTypes
<1>3. ASSUME NEW v \in R!Versions, NEW c \in Nat, tagged' = [tagged EXCEPT ![v] = c] PROVE TagTypes'
  BY <1>1, <1>3 DEF TagTypes
<1>4. CASE R!PushTag
  <2>1. CASE tagged' = [tagged EXCEPT ![press.version] = press.sha]
    <3>1. press.version \in R!Versions
      BY <1>4 DEF R!PushTag, ReleaseInv, PressKnows
    <3>2. press.sha \in Nat  BY <1>1 DEF PressTypes, Presses
    <3> QED  BY <1>3, <2>1, <3>1, <3>2
  <2> QED  BY <1>2, <1>4, <2>1 DEF R!PushTag, R!Target
<1>5. CASE R!Elsewhere
  <2>1. DOMAIN mains \subseteq Nat  BY <1>1 DEF MainTypes
  <2> QED  BY <1>2, <1>3, <1>5, <2>1 DEF R!Elsewhere, R!Merges
<1> QED
  BY <1>2, <1>4, <1>5 DEF R!Next, R!Press, R!Fetch, R!List, R!Decide, R!Cut, R!PushBranch, R!CreatePull, R!MergePull,
    R!Merges, R!FindCommit, R!IsCut, R!ElsewhereHere, R!github

\* A release begins with the first version and no press.
LEMMA ReleasesBegin == R!Init => ReleaseInv
<1> SUFFICES ASSUME R!Init PROVE ReleaseInv  OBVIOUS
<1>1. /\ mains = <<[version |-> 1, pull |-> 0]>> /\ made = <<>> /\ pulls = <<>>
      /\ remote = [v \in R!Versions |-> 0] /\ recorded = [v \in R!Versions |-> 0]
      /\ known = [main |-> 1, tags |-> {1}] /\ press = R!NoPress
      /\ tagged = [v \in R!Versions |-> IF v = 1 THEN 1 ELSE 0]
  BY DEF R!Init
<1>2. MainTypes  BY <1>1 DEF MainTypes, Commits
<1>3. MadeTypes /\ RequestTypes /\ Len(made) = 0 /\ Len(pulls) = 0 /\ DOMAIN pulls = {}
  BY <1>1 DEF MadeTypes, RequestTypes
<1>4. BranchTypes /\ RecordTypes /\ OwnHeads  BY <1>1, <1>3 DEF BranchTypes, RecordTypes, OwnHeads
<1>5. KnownTypes  BY <1>1 DEF KnownTypes
<1>6. PressTypes  BY <1>1 DEF PressTypes, Presses, R!NoPress
<1>7. PressKnows  BY <1>1, <1>3 DEF PressKnows, R!NoPress
<1>9. TagTypes  BY <1>1 DEF TagTypes
<1>8. OneOpen /\ MergedIn  BY <1>3 DEF OneOpen, MergedIn
<1> QED  BY <1>2, <1>3, <1>4, <1>5, <1>6, <1>7, <1>8, <1>9 DEF ReleaseInv, ReleaseTypes

\* The releases of MCWork are those of Releases.
LEMMA WorkHasReleases == WorkSpec => R!Spec
<1>1. WorkInit => R!Init  BY DEF WorkInit
<1>2. [WorkNext]_workVars => [R!Next]_R!vars  BY DEF WorkNext, workVars, rVars, R!vars
<1> QED  BY <1>1, <1>2, PTL DEF WorkSpec, R!Spec

\* The invariant holds of every release.
THEOREM ReleasesKeepTheirWord == WorkSpec => []ReleaseInv
<1>1. ReleaseInv /\ UNCHANGED R!vars => ReleaseInv'
  BY DEF ReleaseInv, ReleaseTypes, MainTypes, MadeTypes, RequestTypes, BranchTypes, RecordTypes, KnownTypes,
    PressTypes,
    TagTypes, OneOpen, MergedIn, OwnHeads, PressKnows, R!vars
<1>2. ReleaseInv /\ R!Next => ReleaseInv'
  BY GitHubStays, RecordsStay, PressStays, TagsStay DEF ReleaseInv, ReleaseTypes
<1> QED  BY <1>1, <1>2, ReleasesBegin, WorkHasReleases, PTL DEF R!Spec

\* A press merges the head it made itself, whose checks passed, and tags the commit that merged a pull request
\* of the version: `MergedIsItsPush` and `TagIsItsMerge` of every step.
LEMMA PressesAreSound ==
  ASSUME ReleaseInv, R!Next
  PROVE  R!MergedIsItsPush /\ R!TagIsItsMerge
<1>1. /\ MainTypes /\ MadeTypes /\ RequestTypes /\ RecordTypes /\ PressTypes /\ TagTypes /\ OwnHeads /\ PressKnows /\ Grows
  BY GitHubStays DEF ReleaseInv, ReleaseTypes
<1>2. R!MergedIsItsPush
  <2> SUFFICES ASSUME mains' # mains, press' # press
               PROVE  LET head == remote[press.version] IN
                      made[head].app /\ made[head].green /\ recorded[press.version] = head
    BY DEF R!MergedIsItsPush
  <2>1. R!MergePull /\ remote[press.version] = press.head
    <3>1. CASE R!MergePull  BY <3>1 DEF R!MergePull, R!github
    <3> QED
      BY <3>1 DEF R!Next, R!Press, R!Fetch, R!List, R!Decide, R!Cut, R!PushBranch, R!CreatePull, R!FindCommit,
        R!PushTag,
        R!IsCut, R!Elsewhere, R!ElsewhereHere, R!github
  <2>2. press.version \in R!Versions /\ press.head # 0 /\ press.head = recorded[press.version] /\ made[press.head].green
    BY <1>1, <2>1 DEF R!MergePull, PressKnows
  <2> QED  BY <1>1, <2>1, <2>2 DEF OwnHeads
<1>3. R!TagIsItsMerge
  <2> SUFFICES ASSUME NEW v \in R!Versions, tagged'[v] # tagged[v], press' # press
               PROVE  LET commit == mains[tagged'[v]] IN
                      commit.version = v /\ commit.pull # 0 /\ pulls[commit.pull].version = v
    BY DEF R!TagIsItsMerge
  <2>1. CASE R!PushTag
    <3>1. /\ mains[press.sha].version = press.version /\ tagged' = [tagged EXCEPT ![press.version] = press.sha]
          /\ press.at = "tag"
      BY <2>1 DEF R!PushTag, R!Target
    <3>2. v = press.version /\ tagged'[v] = press.sha  BY <1>1, <3>1 DEF TagTypes
    <3>3. mains[press.sha].pull \in DOMAIN pulls /\ pulls[mains[press.sha].pull].version = press.version
      BY <1>1, <3>1 DEF PressKnows
    <3>4. mains[press.sha].pull # 0  BY <1>1, <3>3 DEF RequestTypes
    <3> QED  BY <3>1, <3>2, <3>3, <3>4
  <2> QED
    BY <2>1 DEF R!Next, R!Press, R!Fetch, R!List, R!Decide, R!Cut, R!PushBranch, R!CreatePull, R!MergePull, R!Merges,
      R!FindCommit, R!IsCut, R!Elsewhere, R!ElsewhereHere, R!github
<1> QED  BY <1>2, <1>3

\* What is released is what the app made and the checks passed, whatever others merge, push, tag, close or
\* delete between two calls of a press, and wherever one is cut.
THEOREM ReleasesAreMade == WorkSpec => ReleasedIsMade
<1>1. ReleaseInv /\ [R!Next]_R!vars => [R!MergedIsItsPush /\ R!TagIsItsMerge]_R!vars  BY PressesAreSound
<1> QED  BY <1>1, ReleasesKeepTheirWord, WorkHasReleases, PTL DEF R!Spec, ReleasedIsMade, R!ReleasedIsMade

-----------------------------------------------------------------------------
(* The types of WorkTypeOK, and its bounds.                                *)

\* What a release names is there: commits and pull requests by position, versions of the bound, and nothing
\* here that GitHub does not have.
ReleaseBounds ==
  /\ \A c \in DOMAIN mains : mains[c].version \in R!Versions /\ mains[c].pull \in 0..Len(pulls)
  /\ \A h \in DOMAIN made : made[h].version \in R!Versions
  /\ known.tags \subseteq R!Tags /\ left \subseteq R!Versions
  /\ \A v \in R!Versions : tagged[v] \in 0..Len(mains)
  /\ press.sha \in 0..Len(mains)

\* Commits of `main` and of release branches carry a version.
LEMMA VersionsBound ==
  ASSUME ReleaseInv, ReleaseBounds, R!Next
  PROVE  /\ \A c \in DOMAIN mains' : mains'[c].version \in R!Versions /\ mains'[c].pull \in 0..Len(pulls')
         /\ \A h \in DOMAIN made' : made'[h].version \in R!Versions
<1> DEFINE Goal == /\ \A c \in DOMAIN mains' : mains'[c].version \in R!Versions /\ mains'[c].pull \in 0..Len(pulls')
                   /\ \A h \in DOMAIN made' : made'[h].version \in R!Versions
<1>1. /\ MainTypes /\ MadeTypes /\ RequestTypes /\ BranchTypes /\ OneOpen /\ Grows /\ RequestTypes'
      /\ \A c \in DOMAIN mains : mains[c].version \in R!Versions /\ mains[c].pull \in 0..Len(pulls)
      /\ \A h \in DOMAIN made : made[h].version \in R!Versions
  BY GitHubStays DEF ReleaseInv, ReleaseTypes, ReleaseBounds
<1>2. /\ DOMAIN mains = 1..Len(mains) /\ Len(mains) \in Nat /\ DOMAIN made = 1..Len(made) /\ Len(made) \in Nat
      /\ DOMAIN pulls = 1..Len(pulls) /\ Len(pulls) \in Nat /\ Len(pulls') \in Nat /\ Len(pulls) <= Len(pulls')
      /\ \A h \in 1..Len(made) : made[h] \in Mades
  BY <1>1 DEF MainTypes, MadeTypes, RequestTypes, Grows
<1>3. \A c \in DOMAIN mains : mains[c].pull \in 0..Len(pulls')  BY <1>1, <1>2
<1>4. CASE UNCHANGED <<mains, made>>  BY <1>1, <1>3, <1>4
<1>5. ASSUME NEW x, mains' = Append(mains, x), x.version \in R!Versions, x.pull \in 0..Len(pulls'), made' = made
      PROVE  Goal
  <2>1. \A c \in DOMAIN mains' : mains'[c] = IF c = Len(mains) + 1 THEN x ELSE mains[c]  BY <1>1, <1>2, <1>5
  <2>2. DOMAIN mains' = 1..Len(mains) + 1  BY <1>1, <1>2, <1>5
  <2> QED  BY <1>1, <1>2, <1>3, <1>5, <2>1, <2>2
<1>6. ASSUME NEW x, made' = Append(made, x), x.version \in R!Versions, mains' = mains PROVE Goal
  <2>1. \A h \in DOMAIN made' : made'[h] = IF h = Len(made) + 1 THEN x ELSE made[h]  BY <1>1, <1>2, <1>6
  <2>2. DOMAIN made' = 1..Len(made) + 1  BY <1>1, <1>2, <1>6
  <2> QED  BY <1>1, <1>2, <1>3, <1>6, <2>1, <2>2
<1>7. CASE R!Cut
  <2> DEFINE x == [version |-> press.version, after |-> mains[known.main].version, app |-> TRUE, green |-> FALSE]
  <2>1. x.version \in R!Versions  BY <1>7 DEF R!Cut, ReleaseInv, PressKnows
  <2>2. (UNCHANGED made \/ made' = Append(made, x)) /\ UNCHANGED mains  BY <1>7 DEF R!Cut
  <2> HIDE DEF x
  <2> QED  BY <1>4, <1>6, <2>1, <2>2
<1>8. ASSUME NEW i \in DOMAIN pulls, pulls[i].st = "OPEN", R!Merges(i) PROVE Goal
  <2> DEFINE v == pulls[i].version
             x == [version |-> made[remote[v]].version, pull |-> i]
  <2>1. pulls[i] \in Requests  BY <1>1, <1>2 DEF RequestTypes
  <2>2. v \in R!Versions /\ remote[v] \in 1..Len(made)  BY <1>1, <1>2, <1>8, <2>1 DEF OneOpen, BranchTypes, Requests
  <2>3. x.version \in R!Versions /\ x.pull = i  BY <1>1, <1>2, <2>2
  <2>4. mains' = Append(mains, x) /\ made' = made  BY <1>8 DEF R!Merges, R!Commit
  <2>5. i \in 0..Len(pulls')  BY <1>2
  <2> HIDE DEF v, x
  <2> QED  BY <1>5, <2>3, <2>4, <2>5
<1>9. CASE R!MergePull
  <2>1. R!Merges(press.pull) => press.pull \in DOMAIN pulls /\ pulls[press.pull].st = "OPEN"
    <3>1. press.pull \in Nat /\ press.pull <= Len(pulls) /\ press.pull # 0
      BY <1>9 DEF R!MergePull, ReleaseInv, ReleaseTypes, PressTypes, Presses, PressKnows
    <3>2. press.pull \in DOMAIN pulls  BY <1>2, <3>1
    <3> QED  BY <3>2 DEF R!Merges
  <2> QED  BY <1>4, <1>8, <1>9, <2>1 DEF R!MergePull, R!github
<1>10. CASE R!Elsewhere
  <2>1. ASSUME NEW v \in R!Versions, mains' = R!Commit(v, 0), made' = made PROVE Goal
    <3> DEFINE x == [version |-> v, pull |-> 0]
    <3>1. mains' = Append(mains, x) /\ x.version \in R!Versions /\ x.pull \in 0..Len(pulls')
      BY <1>2, <2>1 DEF R!Commit
    <3> HIDE DEF x
    <3> QED  BY <1>5, <2>1, <3>1
  <2>2. ASSUME NEW i \in R!OpenPulls PROVE i \in DOMAIN pulls /\ pulls[i].st = "OPEN" /\ remote[pulls[i].version] \in 1..Len(made)
    <3>1. pulls[i] \in Requests  BY <1>1, <2>2 DEF RequestTypes, R!OpenPulls
    <3> QED  BY <1>1, <1>2, <2>2, <3>1 DEF OneOpen, BranchTypes, Requests, R!OpenPulls
  <2>3. ASSUME NEW i \in R!OpenPulls, made' = [made EXCEPT ![remote[pulls[i].version]].green = TRUE], mains' = mains
        PROVE  Goal
    <3> DEFINE h == remote[pulls[i].version]
    <3>1. h \in 1..Len(made) /\ made' = [made EXCEPT ![h] = [made[h] EXCEPT !.green = TRUE]]  BY <2>2, <2>3
    <3>2. made[h] \in Mades  BY <1>2, <3>1
    <3>3. [made[h] EXCEPT !.green = TRUE].version = made[h].version  BY <3>2 DEF Mades
    <3> HIDE DEF h
    <3>4. DOMAIN made' = DOMAIN made /\ \A k \in DOMAIN made : made'[k].version = made[k].version
      BY <1>2, <3>1, <3>3
    <3> QED  BY <1>1, <1>3, <2>3, <3>4
  <2>4. ASSUME NEW i \in R!OpenPulls, mains' = mains,
               made' = Append(made, [made[remote[pulls[i].version]] EXCEPT !.app = FALSE, !.green = FALSE])
        PROVE  Goal
    <3> DEFINE h == remote[pulls[i].version]
               x == [made[h] EXCEPT !.app = FALSE, !.green = FALSE]
    <3>1. h \in 1..Len(made) /\ made' = Append(made, x)  BY <2>2, <2>4
    <3>2. made[h] \in Mades  BY <1>2, <3>1
    <3>3. x.version = made[h].version  BY <3>2 DEF Mades
    <3> HIDE DEF h, x
    <3> QED  BY <1>1, <1>2, <1>6, <2>4, <3>1, <3>3
  <2> QED  BY <1>4, <1>8, <1>10, <2>1, <2>2, <2>3, <2>4 DEF R!Elsewhere
<1>11. CASE UNCHANGED R!github  BY <1>4, <1>11 DEF R!github
<1>12. CASE R!PushBranch \/ R!CreatePull \/ R!PushTag
  BY <1>4, <1>12 DEF R!PushBranch, R!CreatePull, R!PushTag
<1> QED  BY <1>7, <1>9, <1>10, <1>11, <1>12
         DEF R!Next, R!Press, R!Fetch, R!List, R!Decide, R!FindCommit, R!IsCut, R!ElsewhereHere

\* What is here is of what is on GitHub.
LEMMA HereBounds ==
  ASSUME ReleaseInv, ReleaseBounds, R!Next
  PROVE  /\ known'.tags \subseteq R!Tags' /\ left' \subseteq R!Versions
         /\ \A v \in R!Versions : tagged'[v] \in 0..Len(mains')
         /\ press'.sha \in 0..Len(mains')
<1>1. /\ MainTypes /\ KnownTypes /\ PressTypes /\ TagTypes /\ MainTypes' /\ TagTypes' /\ PressTypes' /\ PressKnows'
      /\ KnownTypes' /\ PressKnows
      /\ known.tags \subseteq R!Tags /\ left \subseteq R!Versions
      /\ \A v \in R!Versions : tagged[v] \in 0..Len(mains)
      /\ press.sha \in 0..Len(mains)
  BY GitHubStays, PressStays, TagsStay, RecordsStay DEF ReleaseInv, ReleaseTypes, ReleaseBounds
<1>2. Len(mains) \in Nat /\ Len(mains') \in Nat /\ Len(mains) <= Len(mains') /\ DOMAIN mains = 1..Len(mains)
      /\ DOMAIN mains' = 1..Len(mains')
  BY <1>1, GitHubStays DEF MainTypes, Grows
<1>3. left' \subseteq R!Versions
  <2>1. \/ left' = left \/ (press.at # "idle" /\ left' \in {left \ {press.version}, left \union {press.version}})
        \/ \E v \in left : left' = left \ {v}
    BY DEF R!Next, R!Press, R!Fetch, R!List, R!Decide, R!Cut, R!PushBranch, R!CreatePull, R!MergePull, R!FindCommit,
      R!PushTag, R!IsCut, R!Elsewhere, R!ElsewhereHere, R!github, R!here, R!Fails
  <2> QED  BY <1>1, <2>1 DEF PressKnows
<1>4. tagged' = tagged \/ \E v \in R!Versions, c \in DOMAIN mains : tagged[v] = 0 /\ tagged' = [tagged EXCEPT ![v] = c]
  <2>1. CASE R!PushTag
    <3>1. press.version \in R!Versions /\ press.sha \in DOMAIN mains  BY <1>1, <2>1 DEF R!PushTag, PressKnows
    <3> QED  BY <2>1, <3>1 DEF R!PushTag, R!Target
  <2>2. CASE R!Elsewhere  BY <2>2 DEF R!Elsewhere, R!Merges
  <2> QED
    BY <2>1, <2>2 DEF R!Next, R!Press, R!Fetch, R!List, R!Decide, R!Cut, R!PushBranch, R!CreatePull, R!MergePull,
      R!Merges, R!FindCommit, R!IsCut, R!ElsewhereHere, R!github
<1>5. \A v \in R!Versions : tagged'[v] \in 0..Len(mains') /\ (tagged[v] # 0 => tagged'[v] # 0)
  BY <1>1, <1>2, <1>4 DEF TagTypes
<1>6. R!Tags \subseteq R!Tags'  BY <1>5 DEF R!Tags
<1>7. \/ known'.tags = known.tags \/ known'.tags = R!Tags \/ known'.tags = {v \in R!Versions : tagged'[v] # 0}
  <2>1. CASE R!ElsewhereHere  BY <1>1, <2>1 DEF R!ElsewhereHere, KnownTypes
  <2>2. CASE R!PushTag  BY <2>2 DEF R!PushTag
  <2>3. CASE R!Fetch \/ R!FindCommit  BY <2>3 DEF R!Fetch, R!FindCommit
  <2> QED
    BY <2>1, <2>2, <2>3 DEF R!Next, R!Press, R!List, R!Decide, R!Cut, R!PushBranch, R!CreatePull, R!MergePull,
      R!IsCut, R!Elsewhere, R!here, R!Fails
<1>8. known'.tags \subseteq R!Tags'  BY <1>1, <1>6, <1>7 DEF R!Tags
<1>9. press'.sha \in {press.sha, 0} \/ press'.at = "tag"
  <2>1. press \in Presses  BY <1>1 DEF PressTypes
  <2>2. R!NoPress.sha = 0  BY DEF R!NoPress
  <2>3. ASSUME NEW phase, NEW v, R!Press(phase, v) PROVE press'.sha = 0
    BY <2>2, <2>3 DEF R!Press, R!NoPress
  <2>4. CASE R!FindCommit  BY <2>1, <2>2, <2>4 DEF R!FindCommit, R!Ends, Presses
  <2> QED
    BY <2>1, <2>2, <2>3, <2>4 DEF R!Next, R!Fetch, R!List, R!Decide, R!Cut, R!PushBranch, R!CreatePull, R!MergePull,
      R!PushTag, R!IsCut, R!Elsewhere, R!ElsewhereHere, R!here, R!Fails, R!Ends, Presses
<1>10. press'.sha \in 0..Len(mains')  BY <1>1, <1>2, <1>9 DEF PressKnows
<1> QED  BY <1>3, <1>5, <1>8, <1>10

\* What GitHub and a press name stays within bounds.
LEMMA ReleasesBound == WorkSpec => []ReleaseBounds
<1>1. R!Init => ReleaseBounds
  <2> SUFFICES ASSUME R!Init PROVE ReleaseBounds  OBVIOUS
  <2>1. 1 \in R!Versions  BY WorkAssumption DEF R!ReleasesConstants, R!Versions
  <2>2. /\ mains = <<[version |-> 1, pull |-> 0]>> /\ made = <<>> /\ pulls = <<>> /\ left = {}
        /\ known.tags = {1} /\ tagged = [v \in R!Versions |-> IF v = 1 THEN 1 ELSE 0] /\ press.sha = 0
    BY DEF R!Init, R!NoPress
  <2>3. Len(mains) = 1 /\ Len(pulls) = 0 /\ DOMAIN made = {} /\ DOMAIN mains = {1} /\ mains[1].version = 1 /\ mains[1].pull = 0
    BY <2>2
  <2>4. known.tags \subseteq R!Tags  BY <2>1, <2>2 DEF R!Tags
  <2> QED  BY <2>1, <2>2, <2>3, <2>4 DEF ReleaseBounds
<1>2. ReleaseBounds /\ UNCHANGED R!vars => ReleaseBounds'  BY DEF ReleaseBounds, R!vars, R!Tags
<1>3. ReleaseInv /\ ReleaseBounds /\ R!Next => ReleaseBounds'  BY VersionsBound, HereBounds DEF ReleaseBounds
<1> QED  BY <1>1, <1>2, <1>3, ReleasesKeepTheirWord, WorkHasReleases, PTL DEF R!Spec

\* The types of Releases follow.
LEMMA ReleasesAreTyped == WorkSpec => []R!TypeOK
<1>1. ReleaseInv /\ ReleaseBounds => R!TypeOK
  <2> SUFFICES ASSUME ReleaseInv, ReleaseBounds PROVE R!TypeOK  OBVIOUS
  <2>1. /\ MainTypes /\ MadeTypes /\ RequestTypes /\ BranchTypes /\ RecordTypes /\ KnownTypes /\ PressTypes /\ OneOpen
        /\ PressKnows
    BY DEF ReleaseInv, ReleaseTypes
  <2>2. DOMAIN mains = 1..Len(mains) /\ Len(made) \in Nat /\ Len(pulls) \in Nat
    BY <2>1 DEF MainTypes, MadeTypes, RequestTypes
  <2>3. known.main \in DOMAIN mains  BY <2>1, <2>2 DEF KnownTypes
  <2>4. \A v \in R!Versions : {remote[v], recorded[v]} \subseteq 0..Len(made)  BY <2>1 DEF BranchTypes, RecordTypes
  <2>5. press.pull \in 0..Len(pulls) /\ press.head \in 0..Len(made)
    BY <2>1, <2>2 DEF PressTypes, Presses, PressKnows
  <2>6. /\ \A i, j \in R!OpenPulls : pulls[i].version = pulls[j].version => i = j
        /\ \A i \in R!OpenPulls : remote[pulls[i].version] # 0
    BY <2>1 DEF OneOpen, R!OpenPulls
  <2> QED  BY <2>3, <2>4, <2>5, <2>6 DEF R!TypeOK, ReleaseBounds
<1> QED  BY <1>1, ReleasesKeepTheirWord, ReleasesBound, PTL

\* The pull request machine keeps to the heads and the pull requests there are, and to its troubles.
PullBounds ==
  /\ \A u \in Units : check[u].bucket # "none"
  /\ clean \in [Units -> SUBSET Heads] /\ \A u \in Units : round[u] <= MaxHead
  /\ noted \subseteq Units /\ \A u \in Units : job[u].n \in 0..MaxPr
  /\ \A r \in Readers : ci[r].at = "idle" => ci[r].h = 0
  /\ rerunning \subseteq Numbers \X Heads /\ recon \in [at : {"idle", "next"}, todo : SUBSET Units]
  /\ up \in BOOLEAN /\ on \in BOOLEAN /\ faults \in 0..MaxTroubles

\* The number of branches that were pushed again is a number.
LEMMA RoomIsBounded == faults \in Nat /\ PullRequestAssumption /\ Room => faults + 1 \in 0..MaxTroubles
<1> SUFFICES ASSUME faults \in Nat, PullRequestAssumption, Room PROVE faults + 1 \in 0..MaxTroubles  OBVIOUS
<1>1. IsFiniteSet(Units) /\ IsFiniteSet(2..MaxHead)
  <2>1. MaxHead \in Nat  BY DEF PullRequestAssumption
  <2> QED  BY <2>1, WorkAssumption, FS_Interval
<1>2. IsFiniteSet(Again)
  <2>1. IsFiniteSet(Units \X (2..MaxHead))  BY <1>1, FS_Product
  <2> QED  BY <2>1, FS_Subset DEF Again
<1>3. Cardinality(Again) \in Nat  BY <1>2, FS_CardinalityType
<1> QED  BY <1>3 DEF Room, PullRequestAssumption

\* What is on GitHub and what the reviews passed.
LEMMA BranchBounds ==
  ASSUME PullInv, PullBounds, Next
  PROVE  /\ \A u \in Units : check'[u].bucket # "none" /\ round'[u] <= MaxHead
         /\ clean' \in [Units -> SUBSET Heads]
<1>1. /\ PullTypes /\ HeadsBounded /\ clean \in [Units -> SUBSET Heads]
      /\ \A u \in Units : check[u].bucket # "none" /\ round[u] <= MaxHead
  BY DEF PullInv, PullBounds
<1>2. ASSUME NEW u \in Units PROVE check'[u].bucket # "none"
  <2>1. CheckTypes /\ check[u] \in Runs  BY <1>1 DEF PullTypes, CheckTypes
  <2>2. ASSUME NEW v \in Units, NEW rebase \in BOOLEAN, Push(v, rebase) PROVE check'[u].bucket # "none"
    BY <1>1, <2>1, <2>2 DEF Push, NoRuns, CheckTypes
  <2>3. ASSUME NEW v \in Units, ChecksEnd(v) \/ RerunBegins(v) PROVE check'[u].bucket # "none"
    <3>1. check[v] \in Runs  BY <2>1 DEF CheckTypes
    <3> QED  BY <1>1, <2>1, <2>3, <3>1 DEF ChecksEnd, RerunBegins, CheckTypes, Runs
  <2>4. ASSUME NEW r \in Readers, AskRerun(r) PROVE check'[u].bucket # "none"
    <3>1. check'[u].bucket = check[u].bucket  BY <2>1, <2>4 DEF AskRerun, CheckTypes, Runs
    <3> QED  BY <1>1, <3>1
  <2> QED  BY <1>1, <2>2, <2>3, <2>4, ChecksMove
<1>3. clean' \in [Units -> SUBSET Heads]
  <2>1. ASSUME NEW v \in Units, NEW rebase \in BOOLEAN, Push(v, rebase) PROVE clean' \in [Units -> SUBSET Heads]
    <3>1. tip[v] + 1 \in Heads  BY <2>1, PullRequestAssumption DEF Push, Heads, PullRequestAssumption
    <3>2. clean' = clean \/ clean' = [clean EXCEPT ![v] = @ \cup {tip[v] + 1}]  BY <2>1 DEF Push
    <3> QED  BY <1>1, <3>1, <3>2
  <2> QED  BY <1>1, <2>1, HeadsMove DEF OpenPush
<1>4. ASSUME NEW u \in Units PROVE round'[u] <= MaxHead
  <2>1. round \in [Units -> Nat] /\ tip[u] <= MaxHead  BY <1>1 DEF PullTypes, HeadTypes, HeadsBounded
  <2>2. ASSUME NEW v \in Units, Review(v) PROVE round'[u] <= MaxHead  BY <1>1, <2>1, <2>2 DEF Review
  <2> QED  BY <1>1, <2>2, RoundMoves
<1> QED  BY <1>2, <1>3, <1>4

\* What the steps and the reads are at.
LEMMA CallBounds ==
  ASSUME PullInv, PullBounds, Next
  PROVE  /\ \A u \in Units : job'[u].n \in 0..MaxPr
         /\ \A r \in Readers : ci'[r].at = "idle" => ci'[r].h = 0
         /\ rerunning' \subseteq Numbers \X Heads
<1>1. /\ JobTypes /\ ReadTypes /\ NowTypes /\ RowsKept /\ ReadsKept /\ \A u \in Units : job[u].n \in 0..MaxPr
      /\ \A r \in Readers : ci[r].at = "idle" => ci[r].h = 0
      /\ rerunning \subseteq Numbers \X Heads /\ MaxPr \in Nat
  BY PullRequestAssumption DEF PullInv, PullBounds, PullTypes, PullRequestAssumption
<1>2. ASSUME NEW u \in Units PROVE job'[u].n \in 0..MaxPr
  <2>1. ASSUME NEW v \in Units, NEW j, j.n \in 0..MaxPr, SetJob(v, j) PROVE job'[u].n \in 0..MaxPr
    BY <1>1, <2>1 DEF SetJob, JobTypes
  <2>2. Idle.n = 0 /\ 0 \in 0..MaxPr  BY <1>1 DEF Idle
  <2>3. ASSUME NEW v \in Units, Ends(v) PROVE job'[u].n \in 0..MaxPr  BY <2>1, <2>2, <2>3 DEF Ends
  <2>4. ASSUME NEW v \in Units, NEW again \in BOOLEAN, OpenPr(v, again) PROVE job'[u].n \in 0..MaxPr
    <3>1. [Idle EXCEPT !.at = "push"].n = 0  BY DEF Idle
    <3> QED  BY <1>1, <2>1, <2>2, <2>4, <3>1 DEF OpenPr
  <2>5. \A v \in Units : job[v] \in Jobs /\ job[v].n \in 0..MaxPr  BY <1>1 DEF JobTypes
  <2>6. ASSUME NEW v \in Units, OpenPush(v) PROVE job'[u].n \in 0..MaxPr
    <3>1. [job[v] EXCEPT !.at = "find", !.h = tip'[v]].n = job[v].n  BY <2>5 DEF Jobs
    <3> QED  BY <2>1, <2>5, <2>6, <3>1 DEF OpenPush
  <2>7. ASSUME NEW v \in Units, OpenFind(v) PROVE job'[u].n \in 0..MaxPr
    <3>1. PICK n \in Numbers : SetJob(v, [job[v] EXCEPT !.at = "opened", !.n = n])  BY <2>7 DEF OpenFind, OpenOf
    <3>2. [job[v] EXCEPT !.at = "opened", !.n = n].n \in 0..MaxPr  BY <1>1, <2>5 DEF Jobs, Numbers
    <3> QED  BY <2>1, <3>1, <3>2
  <2>8. ASSUME NEW v \in Units, Ship(v) PROVE job'[u].n \in 0..MaxPr
    <3>1. now[v].n > 0 => now[v].n \in Numbers  BY <1>1 DEF RowsKept, Owned
    <3>2. PICK n \in Numbers : \E h : SetJob(v, [Idle EXCEPT !.at = "view", !.n = n, !.rebased = h])
      BY <2>8, <3>1 DEF Ship, OpenOf
    <3>3. PICK h : SetJob(v, [Idle EXCEPT !.at = "view", !.n = n, !.rebased = h])  BY <3>2
    <3>4. [Idle EXCEPT !.at = "view", !.n = n, !.rebased = h].n \in 0..MaxPr  BY <1>1 DEF Idle, Numbers
    <3> QED  BY <2>1, <3>3, <3>4
  <2>9. ASSUME NEW v \in Units, ShipView(v) PROVE job'[u].n \in 0..MaxPr
    <3>1. [job[v] EXCEPT !.at = "checks", !.h = tip[v]].n = job[v].n  BY <2>5 DEF Jobs
    <3> QED  BY <2>1, <2>3, <2>5, <2>9, <3>1 DEF ShipView, Merged
  <2>10. ASSUME NEW v \in Units, ShipRequest(v) PROVE job'[u].n \in 0..MaxPr
    <3>1. [job[v] EXCEPT !.at = "merge", !.rebased = 0].n = job[v].n  BY <2>5 DEF Jobs
    <3> QED  BY <2>1, <2>3, <2>5, <2>10, <3>1 DEF ShipRequest
  <2>11. ASSUME NEW v \in Units, ShipMerge(v) PROVE job'[u].n \in 0..MaxPr
    <3>1. [job[v] EXCEPT !.at = "reread", !.h = 0].n = job[v].n  BY <2>5 DEF Jobs
    <3> QED  BY <2>1, <2>5, <2>11, <3>1 DEF ShipMerge
  <2>12. ASSUME NEW v \in Units, OpenRecord(v) \/ ShipReread(v) \/ JobFails(v) PROVE job'[u].n \in 0..MaxPr
    BY <2>3, <2>12 DEF OpenRecord, ShipReread, JobFails, Merged
  <2>13. CASE Crash  BY <2>2, <2>13 DEF Crash, NothingRuns
  <2>14. CASE UNCHANGED job  BY <1>1, <2>14
  <2> QED  BY <2>4, <2>6, <2>7, <2>8, <2>9, <2>10, <2>11, <2>12, <2>13, <2>14, JobsMove
<1>3. ASSUME NEW r \in Readers PROVE ci'[r].at = "idle" => ci'[r].h = 0
  <2>1. NoRead.h = 0  BY DEF NoRead
  <2>2. ASSUME NEW q \in Readers, NEW x, SetRead(q, x), x.at = "idle" => x.h = 0 PROVE ci'[r].at = "idle" => ci'[r].h = 0
    BY <1>1, <2>2 DEF SetRead, ReadTypes
  <2>3. ASSUME NEW u, NEW n, NEW h PROVE Checked(u, n, h).at = "judge"  BY DEF Checked, NoRead
  <2>4. ASSUME NEW u \in Units, Ask(u) PROVE ci'[r].at = "idle" => ci'[r].h = 0
    <3>1. u \in Readers  BY DEF Readers
    <3>2. PICK h : SetRead(u, Checked(u, now[u].n, h))  BY <2>4 DEF Ask
    <3>3. Checked(u, now[u].n, h).at # "idle"  BY <2>3
    <3> QED  BY <2>2, <3>1, <3>2, <3>3
  <2>5. ASSUME NEW u \in Units, WalkChecks(u) PROVE ci'[r].at = "idle" => ci'[r].h = 0
    <3> DEFINE x == Checked(u, reader.snap[u].n, reader.seen[u])
    <3>1. "reader" \in Readers  BY DEF Readers
    <3>2. SetRead("reader", x)  BY <2>5 DEF WalkChecks
    <3>3. x.at # "idle"  BY <2>3
    <3> HIDE DEF x
    <3> QED  BY <2>2, <3>1, <3>2, <3>3
  <2>6. ASSUME NEW q \in Readers, Judge(q) \/ JudgeUnfixable(q) \/ Record(q) PROVE ci'[r].at = "idle" => ci'[r].h = 0
    BY <2>1, <2>2, <2>6 DEF Judge, JudgeUnfixable, Record
  <2>7. ASSUME NEW q \in Readers, AskRerun(q) PROVE ci'[r].at = "idle" => ci'[r].h = 0
    <3>1. PICK said : SetRead(q, [ci[q] EXCEPT !.at = "record", !.said = said])  BY <2>7 DEF AskRerun
    <3>2. ci[q] \in Reads  BY <1>1 DEF ReadTypes
    <3>3. [ci[q] EXCEPT !.at = "record", !.said = said].at = "record"  BY <3>2 DEF Reads
    <3> QED  BY <2>2, <3>1, <3>3
  <2>8. CASE Crash  BY <2>1, <2>8 DEF Crash, NothingRuns
  <2>9. CASE TurnOff
    <3>1. "reader" \in Readers /\ SetRead("reader", NoRead)  BY <2>9 DEF TurnOff, Readers
    <3> QED  BY <2>1, <2>2, <3>1
  <2>10. CASE UNCHANGED ci  BY <1>1, <2>10
  <2> QED  BY <2>4, <2>5, <2>6, <2>7, <2>8, <2>9, <2>10, ReadsMove
<1>4. rerunning' \subseteq Numbers \X Heads
  <2>1. ASSUME NEW r \in Readers, AskRerun(r) PROVE rerunning' \subseteq Numbers \X Heads
    <3>1. ci[r].n \in Numbers /\ ci[r].h \in Heads  BY <1>1, <2>1 DEF AskRerun, ReadsKept, Owned
    <3>2. rerunning' = rerunning \cup {<<ci[r].n, ci[r].h>>}  BY <2>1 DEF AskRerun
    <3>3. <<ci[r].n, ci[r].h>> \in Numbers \X Heads  BY <3>1
    <3> QED  BY <1>1, <3>2, <3>3, Zenon
  <2>2. rerunning' \subseteq rerunning => rerunning' \subseteq Numbers \X Heads  BY <1>1
  <2> QED  BY <2>1, <2>2, RerunningMoves DEF Record, Crash, NothingRuns, TurnOff
<1> QED  BY <1>2, <1>3, <1>4

\* What a start has to reconcile, what notices were told, and the process and its troubles.
LEMMA ProcessBounds ==
  ASSUME PullInv, PullBounds, Next
  PROVE  /\ noted' \subseteq Units /\ recon' \in [at : {"idle", "next"}, todo : SUBSET Units]
         /\ up' \in BOOLEAN /\ on' \in BOOLEAN /\ faults' \in 0..MaxTroubles
<1>1. /\ noted \subseteq Units /\ recon \in [at : {"idle", "next"}, todo : SUBSET Units]
      /\ up \in BOOLEAN /\ on \in BOOLEAN /\ faults \in 0..MaxTroubles /\ WalkTypes
  BY DEF PullInv, PullBounds, PullTypes
<1>2. noted' \subseteq Units
  <2>1. noted' = noted \/ (\E u \in Units : noted' = noted \cup {u}) \/ noted' = noted \cup reader.merged
    <3> USE DEF github, rows, memory
    <3>1. ASSUME NEW u \in Units, World(u) \/ Steps(u) \/ Ask(u)
          PROVE  noted' = noted \/ noted' = noted \cup {u}
      BY <3>1 DEF World, Steps, Push, ChecksEnd, RerunBegins, Review, OpenPush, OpenFind, OpenRecord, Ship,
        ShipView, ShipRequest, ShipMerge, ShipReread, JobFails, Ask, Merged
    <3>2. ASSUME NEW u \in Units, NEW again \in BOOLEAN, OpenPr(u, again) PROVE noted' = noted
      BY <3>2 DEF OpenPr
    <3>3. ASSUME NEW n \in Numbers, MergeOutside(n) \/ CloseOutside(n) \/ ReopenOutside(n) PROVE noted' = noted
      BY <3>3 DEF MergeOutside, CloseOutside, ReopenOutside
    <3>4. ASSUME NEW r \in Readers, Reading(r) PROVE noted' = noted
      BY <3>4 DEF Reading, Judge, JudgeUnfixable, AskRerun, Record
    <3>5. Walking \/ WalkFails => noted' = noted \/ noted' = noted \cup reader.merged
      BY DEF Walking, Viewing, WalkBegins, WalkList, WalkSkip, WalkChecks, WalkView, WalkNotes, WalkFails
    <3>6. Reconciling => noted' = noted \/ \E u \in Units : noted' = noted \cup {u}
      BY DEF Reconciling, ReconView, ReconEnds
    <3>7. Crash \/ Start \/ TurnOff \/ TurnOn => noted' = noted
      BY DEF Crash, Start, TurnOff, TurnOn
    <3> QED  BY <3>1, <3>2, <3>3, <3>4, <3>5, <3>6, <3>7 DEF Next
  <2>2. reader.merged \subseteq Units  BY <1>1 DEF WalkTypes, Walks
  <2> QED  BY <1>1, <2>1, <2>2
<1>3. recon' \in [at : {"idle", "next"}, todo : SUBSET Units]
  <2>1. \/ recon' = recon \/ recon' = NoRecon
        \/ recon' = [at |-> "next", todo |-> {u \in Units : now[u].state = "merge-requested"}]
        \/ \E u \in Units : recon' = [recon EXCEPT !.todo = @ \ {u}]
    <3> USE DEF github, rows, memory
    <3>1. ASSUME NEW u \in Units, World(u) \/ Steps(u) \/ Ask(u) PROVE recon' = recon
      BY <3>1 DEF World, Steps, Push, ChecksEnd, RerunBegins, Review, OpenPush, OpenFind, OpenRecord, Ship,
        ShipView, ShipRequest, ShipMerge, ShipReread, JobFails, Ask
    <3>2. ASSUME NEW u \in Units, NEW again \in BOOLEAN, OpenPr(u, again) PROVE recon' = recon
      BY <3>2 DEF OpenPr
    <3>3. ASSUME NEW n \in Numbers, MergeOutside(n) \/ CloseOutside(n) \/ ReopenOutside(n) PROVE recon' = recon
      BY <3>3 DEF MergeOutside, CloseOutside, ReopenOutside
    <3>4. ASSUME NEW r \in Readers, Reading(r) PROVE recon' = recon
      BY <3>4 DEF Reading, Judge, JudgeUnfixable, AskRerun, Record
    <3>5. Walking \/ WalkFails => recon' = recon
      BY DEF Walking, Viewing, WalkBegins, WalkList, WalkSkip, WalkChecks, WalkView, WalkNotes, WalkFails
    <3>6. Reconciling => recon' = NoRecon \/ \E u \in Units : recon' = [recon EXCEPT !.todo = @ \ {u}]
      BY DEF Reconciling, ReconView, ReconEnds
    <3>7. Start => recon' = [at |-> "next", todo |-> {u \in Units : now[u].state = "merge-requested"}]
      BY DEF Start
    <3>8. Crash \/ TurnOff \/ TurnOn => recon' = recon \/ recon' = NoRecon
      BY DEF Crash, NothingRuns, TurnOff, TurnOn
    <3> QED  BY <3>1, <3>2, <3>3, <3>4, <3>5, <3>6, <3>7, <3>8 DEF Next
  <2> QED  BY <1>1, <2>1 DEF NoRecon
<1>4. Crash \/ Start \/ TurnOff \/ TurnOn \/ (\E n \in Numbers : CloseOutside(n)) \/ UNCHANGED <<up, on, faults>>
  <2> USE DEF github, rows, memory
  <2>1. \A u \in Units : World(u) \/ Steps(u) \/ Ask(u) => UNCHANGED <<up, on, faults>>
    <3>1. \A u \in Units : World(u) => UNCHANGED <<up, on, faults>>
      BY DEF World, Push, ChecksEnd, RerunBegins, Review
    <3>2. \A u \in Units : Steps(u) \/ Ask(u) => UNCHANGED <<up, on, faults>>
      BY DEF Steps, OpenPush, OpenFind, OpenRecord, Ship, ShipView, ShipRequest, ShipMerge, ShipReread, JobFails, Ask
    <3> QED  BY <3>1, <3>2
  <2>2. ASSUME NEW u \in Units, NEW again \in BOOLEAN, OpenPr(u, again) PROVE UNCHANGED <<up, on, faults>>
    BY <2>2 DEF OpenPr
  <2>3. \A n \in Numbers : MergeOutside(n) \/ ReopenOutside(n) => UNCHANGED <<up, on, faults>>
    BY DEF MergeOutside, ReopenOutside
  <2>4. \A r \in Readers : Reading(r) => UNCHANGED <<up, on, faults>>
    BY DEF Reading, Judge, JudgeUnfixable, AskRerun, Record
  <2>5. Walking \/ WalkFails \/ Reconciling => UNCHANGED <<up, on, faults>>
    BY DEF Walking, Viewing, WalkBegins, WalkList, WalkSkip, WalkChecks, WalkView, WalkNotes, WalkFails, Reconciling,
      ReconView, ReconEnds
  <2> QED  BY <2>1, <2>2, <2>3, <2>4, <2>5 DEF Next
<1>5. faults' \in 0..MaxTroubles
  <2>1. faults \in Nat  BY <1>1
  <2>2. faults' = faults \/ (Room /\ faults' = faults + 1)  BY <1>4 DEF Crash, Start, TurnOff, TurnOn, CloseOutside
  <2> QED  BY <1>1, <2>1, <2>2, RoomIsBounded, PullRequestAssumption
<1>6. up' \in {up, TRUE, FALSE} /\ on' \in {on, TRUE, FALSE}
  BY <1>4, Zenon DEF Crash, Start, TurnOff, TurnOn, CloseOutside
<1>7. up' \in BOOLEAN /\ on' \in BOOLEAN  BY <1>1, <1>6, Zenon
<1> QED  BY <1>2, <1>3, <1>5, <1>7

\* The pull request machine stays within its bounds.
LEMMA PullsBound == Spec => []PullBounds
<1>1. Init => PullBounds
  <2> SUFFICES ASSUME Init PROVE PullBounds  OBVIOUS
  <2>1. MaxHead \in Nat /\ MaxPr \in Nat /\ MaxTroubles \in Nat  BY PullRequestAssumption DEF PullRequestAssumption
  <2>2. \A u \in Units : check[u].bucket # "none" /\ round[u] <= MaxHead /\ job[u].n \in 0..MaxPr
    BY <2>1 DEF Init, NoRuns, Idle
  <2>3. \A r \in Readers : ci[r].h = 0  BY DEF Init, NoRead
  <2>4. clean \in [Units -> SUBSET Heads] /\ noted = {} /\ rerunning = {} /\ recon = NoRecon /\ faults = 0
    BY DEF Init
  <2>5. up \in BOOLEAN /\ on \in BOOLEAN  BY Zenon DEF Init
  <2> QED  BY <2>1, <2>2, <2>3, <2>4, <2>5 DEF PullBounds, NoRecon
<1>2. PullBounds /\ UNCHANGED vars => PullBounds'
  BY DEF PullBounds, vars, github, rows, memory
<1>3. PullInv /\ PullBounds /\ Next => PullBounds'  BY BranchBounds, CallBounds, ProcessBounds DEF PullBounds
<1> QED  BY <1>1, <1>2, <1>3, PullsKeepTheirWord, PTL DEF Spec

\* The types of PullRequest follow.
LEMMA PullsAreTyped == Spec => []TypeOK
<1>1. PullInv /\ PullBounds => TypeOK
  <2> SUFFICES ASSUME PullInv, PullBounds PROVE TypeOK  OBVIOUS
  <2>1. /\ PrTypes /\ HeadTypes /\ CheckTypes /\ NowTypes /\ RerunTypes /\ JobTypes /\ ReadTypes /\ WalkTypes
        /\ HeadsBounded /\ RowsKept /\ JobsKept /\ ReadsKept /\ MaxHead \in Nat /\ MaxPr \in Nat
    BY PullRequestAssumption DEF PullInv, PullTypes, PullRequestAssumption
  <2>2. Owner = Units
    <3>1. (CHOOSE u \in Units : TRUE) \in Units  BY WorkAssumption
    <3> QED  BY <3>1 DEF Owner
  <2>3. pr \in [Numbers -> PrType]  BY <2>1, <2>2 DEF PrTypes, Pulls, PrType
  <2>4. tip \in [Units -> 0..MaxHead] /\ round \in [Units -> 0..MaxHead]
    BY <2>1 DEF HeadTypes, HeadsBounded, PullBounds
  <2>5. \A u \in Units : check[u].bucket \in CiType \ {"none"} /\ check[u].done \in Nat
    BY <2>1 DEF CheckTypes, Runs, PullBounds
  <2>6. ASSUME NEW u \in Units PROVE now[u] \in NowType
    <3>1. now[u] \in Rows  BY <2>1 DEF NowTypes
    <3>2. now[u].n \in 0..MaxPr
      <4>1. now[u].n > 0 => now[u].n \in Numbers  BY <2>1 DEF RowsKept, Owned
      <4> QED  BY <2>1, <3>1, <4>1 DEF Rows, Numbers
    <3>3. now[u].h \in 0..MaxHead  BY <2>1, <2>4, <3>1 DEF RowsKept, Rows
    <3> QED  BY <3>1, <3>2, <3>3 DEF Rows, NowType
  <2>7. now \in [Units -> NowType]  BY <2>1, <2>6 DEF NowTypes
  <2>8. \A u \in Units : \A h \in Heads : rerun[u][h].said \in {"none", "asked", "refused"}
    BY <2>1 DEF RerunTypes, Reruns
  <2>9. ASSUME NEW u \in Units PROVE job[u].at \in JobAt /\ job[u].n \in 0..MaxPr /\ job[u].h \in 0..MaxHead
    <3>1. job[u] \in Jobs  BY <2>1 DEF JobTypes
    <3> QED  BY <2>1, <2>4, <3>1 DEF Jobs, JobsKept, PullBounds
  <2>10. ASSUME NEW r \in Readers PROVE ci[r].at \in {"idle", "judge", "record"} /\ ci[r].h \in 0..MaxHead
    <3>1. ci[r] \in Reads  BY <2>1 DEF ReadTypes
    <3> QED  BY <2>1, <3>1 DEF Reads, ReadsKept, PullBounds, Heads
  <2>11. reader.at \in {"idle", "list", "next"} /\ reader.todo \subseteq Units  BY <2>1 DEF WalkTypes, Walks
  <2>12. {up, on} \subseteq BOOLEAN  BY Zenon DEF PullBounds
  <2> QED  BY <2>3, <2>4, <2>5, <2>7, <2>8, <2>9, <2>10, <2>11, <2>12 DEF TypeOK, PullBounds
<1> QED  BY <1>1, PullsKeepTheirWord, PullsBound, PTL

\* A run that fits its bounds; one that is paused at a ceiling says at which.
Fields == {"n", "kind", "road", "at", "said", "chan", "terminal", "outcome"}
Ats == {"idle", "main", "shut", "tree", "progress", "opening", "submitting", "finishing", "closing", "capturing"}
Ceilings == {"turns", "usd"}
Saying(s) == s \in Seq({"title", "call"}) /\ Len(s) <= MaxSaid
Fits(r) ==
  /\ Fields \subseteq DOMAIN r
  /\ r.n \in 0..MaxRuns /\ r.kind \in S!Kinds /\ r.road \in {"start", "resumed", "opening", "raised"}
  /\ r.at \in Ats /\ Saying(r.said) /\ r.chan \in 0..MaxRev
  /\ r.outcome \in {"failed", "done", "stopped", "paused-budget", "session-limit"}
  /\ r.outcome = "paused-budget" => r.terminal \in Ceilings

\* So does the session that is kept,
KeptBounds ==
  /\ {"how", "kind", "owner", "said"} \subseteq DOMAIN kept
  /\ kept.how \in {"none", "suspended"} \cup Ceilings /\ kept.kind \in S!Kinds
  /\ kept.owner \in {"step", "opening", "submitting"} /\ Saying(kept.said)

\* and everything else of a run.
RunBounds ==
  /\ Fits(run) /\ KeptBounds /\ rev \in 1..MaxRev
  /\ disk \in {"none", "before", "run"}
  /\ "billed" \in DOMAIN money /\ money.billed \in 0..MaxUsd

\* The safe point is a part of what was said.
LEMMA SafeIsPart ==
  ASSUME NEW s, Saying(s), NEW all \in BOOLEAN
  PROVE  Saying(S!Safe(s, all))
<1>1. s \in Seq({"title", "call"}) /\ Len(s) <= MaxSaid /\ Len(s) \in Nat  BY DEF Saying
<1>2. ASSUME NEW X, X \subseteq 1..Len(s) PROVE S!LastOf(X) \in 0..Len(s)
  <2>1. CASE X = {}
    <3>1. S!LastOf(X) = 0  BY <2>1, Zenon DEF S!LastOf
    <3> QED  BY <1>1, <3>1
  <2>2. CASE X # {}
    <3>1. \E i \in X : \A j \in X : j <= i  BY <1>1, <1>2, <2>2, HasLast
    <3>2. S!LastOf(X) = CHOOSE i \in X : \A j \in X : j <= i  BY <2>2, Zenon DEF S!LastOf
    <3>3. S!LastOf(X) \in X  BY <3>1, <3>2, Zenon
    <3>4. S!LastOf(X) \in 1..Len(s)  BY <1>2, <3>3, Zenon
    <3>5. 1..Len(s) \subseteq 0..Len(s)  BY <1>1
    <3> QED  BY <3>4, <3>5, Zenon
  <2> QED  BY <2>1, <2>2
<1> DEFINE calls == {i \in DOMAIN s : s[i] = "call"}
           last == S!LastOf(calls)
           k == IF all THEN last ELSE S!LastOf(calls \ {last})
<1>3. calls \subseteq 1..Len(s)  BY <1>1
<1>4. k \in 0..Len(s)  BY <1>2, <1>3
<1>5. S!Safe(s, all) = SubSeq(s, 1, k)  BY DEF S!Safe
<1>6. MaxSaid \in Nat  BY WorkAssumption DEF S!RunsConstants
<1> HIDE DEF k, calls, last
<1>7. k \in Nat /\ k <= Len(s)  BY <1>1, <1>4
<1>8. SubSeq(s, 1, k) \in Seq({"title", "call"})  BY <1>1, <1>7
<1>9. Len(SubSeq(s, 1, k)) = k  BY <1>1, <1>7
<1>10. Len(SubSeq(s, 1, k)) <= MaxSaid  BY <1>1, <1>6, <1>7, <1>9
<1> QED  BY <1>5, <1>8, <1>10 DEF Saying

\* What `_conclude` leaves of a run: all but where it is, how it ended and the object it holds.
Follows(r, y) ==
  /\ Fields \subseteq DOMAIN y
  /\ y.n = r.n /\ y.kind = r.kind /\ y.road = r.road /\ y.said = r.said /\ y.terminal = r.terminal
  /\ y.at \in Ats /\ y.chan \in {r.chan, 0} /\ y.outcome \in {r.outcome, "failed", "stopped"}

LEMMA SealingFollows ==
  ASSUME NEW r, Fields \subseteq DOMAIN r
  PROVE  Follows(r, S!Sealing(r))
BY DEF S!Sealing, Follows, Fields, Ats

LEMMA SubmittingFollows ==
  ASSUME NEW r, Fields \subseteq DOMAIN r, NEW y \in S!Submitting(r)
  PROVE  Follows(r, y)
<1> DEFINE failed == [r EXCEPT !.outcome = "failed"]
           none == [r EXCEPT !.chan = 0]
           spent == [none EXCEPT !.outcome = "failed"]
           asked == [none EXCEPT !.at = "submitting"]
<1>1. /\ Fields \subseteq DOMAIN failed /\ failed.outcome = "failed" /\ failed.chan = r.chan
      /\ failed.n = r.n /\ failed.kind = r.kind /\ failed.road = r.road /\ failed.said = r.said
      /\ failed.terminal = r.terminal
  BY DEF Fields
<1>2. /\ Fields \subseteq DOMAIN spent /\ spent.outcome = "failed" /\ spent.chan = 0
      /\ spent.n = r.n /\ spent.kind = r.kind /\ spent.road = r.road /\ spent.said = r.said
      /\ spent.terminal = r.terminal
  BY DEF Fields
<1>3. Follows(r, asked)  BY DEF Fields, Follows, Ats
<1>4. y = S!Sealing(r) \/ y = S!Sealing(failed) \/ y = S!Sealing(spent) \/ y = asked
  BY DEF S!Submitting, S!Rounds
<1> HIDE DEF failed, none, spent, asked
<1>5. CASE y = S!Sealing(r)  BY <1>5, SealingFollows
<1>6. CASE y = S!Sealing(failed)
  <2>1. Follows(failed, y)  BY <1>1, <1>6, SealingFollows
  <2> QED  BY <1>1, <2>1 DEF Follows
<1>7. CASE y = S!Sealing(spent)
  <2>1. Follows(spent, y)  BY <1>2, <1>7, SealingFollows
  <2> QED  BY <1>2, <2>1 DEF Follows
<1> QED  BY <1>3, <1>4, <1>5, <1>6, <1>7

LEMMA ConcludesFollows ==
  ASSUME NEW r, Fields \subseteq DOMAIN r, NEW y \in S!Concludes(r)
  PROVE  Follows(r, y)
<1> DEFINE sealed == [r EXCEPT !.sealed = TRUE]
           progress == [r EXCEPT !.at = "progress"]
           opening == [r EXCEPT !.at = "opening", !.sealed = TRUE]
<1>1. /\ Fields \subseteq DOMAIN sealed /\ sealed.n = r.n /\ sealed.kind = r.kind /\ sealed.road = r.road
      /\ sealed.said = r.said /\ sealed.terminal = r.terminal /\ sealed.outcome = r.outcome /\ sealed.chan = r.chan
  BY DEF Fields
<1>2. Follows(r, progress) /\ Follows(r, opening)  BY DEF Fields, Follows, Ats
<1>3. y = progress \/ y = opening \/ y \in S!Submitting(r) \/ y \in S!Submitting(sealed)
  BY DEF S!Concludes, S!Repairing
<1> HIDE DEF sealed, progress, opening
<1>4. CASE y \in S!Submitting(r)  BY <1>4, SubmittingFollows
<1>5. CASE y \in S!Submitting(sealed)
  <2>1. Follows(sealed, y)  BY <1>1, <1>5, SubmittingFollows
  <2> QED  BY <1>1, <2>1 DEF Follows
<1> QED  BY <1>2, <1>3, <1>4, <1>5

\* So a run that fits goes on to one that fits.
LEMMA GoesOnFits ==
  ASSUME NEW r, Fits(r), NEW y, y \in S!Concludes(r) \/ y \in S!Submitting(r) \/ y = S!Sealing(r)
  PROVE  Fits(y)
<1>1. Follows(r, y)  BY ConcludesFollows, SubmittingFollows, SealingFollows DEF Fits
<1>2. MaxRev \in Nat  BY WorkAssumption DEF S!RunsConstants
<1> QED  BY <1>1, <1>2 DEF Follows, Fits, Ats

\* A text that is written, and a reply that is read, keep to the bounds.
LEMMA WritesFits ==
  ASSUME NEW r, Fits(r), r.outcome = "failed", S!Writes(r)
  PROVE  Fits(run')
<1> DEFINE sealed == [r EXCEPT !.sealed = TRUE]
           done == [sealed EXCEPT !.outcome = "done"]
           withheld == [r EXCEPT !.withheld = TRUE]
           unopened == [sealed EXCEPT !.unopened = TRUE]
<1>1. Fits(sealed) /\ Fits(withheld)  BY DEF Fits, Fields
<1>2. Fits(unopened)  BY DEF Fits, Fields
<1>3. Fits(done)  BY DEF Fits, Fields
<1>4. \E x \in {sealed, done, withheld, unopened} : run' \in S!Concludes(x)  BY DEF S!Writes
<1> HIDE DEF sealed, done, withheld, unopened
<1> QED  BY <1>1, <1>2, <1>3, <1>4, GoesOnFits

LEMMA ReplyFits ==
  ASSUME NEW r, Fits(r), r.outcome = "failed", S!ReplyRead(r)
  PROVE  Fits(run')
<1>1. CASE S!CutShort(r.terminal) # "none"
  <2> DEFINE cut == [r EXCEPT !.outcome = S!CutShort(r.terminal)]
  <2>1. \/ S!CutShort(r.terminal) = "paused-budget" /\ r.terminal \in Ceilings
        \/ S!CutShort(r.terminal) = "session-limit"
    BY <1>1 DEF S!CutShort, Ceilings
  <2>2. Fits(cut)  BY <2>1 DEF Fits, Fields
  <2>3. run' \in S!Concludes(cut)  BY <1>1 DEF S!ReplyRead
  <2> HIDE DEF cut
  <2> QED  BY <2>2, <2>3, GoesOnFits
<1>2. CASE run' = [r EXCEPT !.at = "tree"]  BY <1>2 DEF Fits, Fields, Ats
<1>3. CASE S!Writes(r)  BY <1>3, WritesFits
<1> QED  BY <1>1, <1>2, <1>3 DEF S!ReplyRead

\* A session that is taken up fits, as the one that was kept did.
LEMMA TakenUpFits ==
  ASSUME Fits(run), KeptBounds, NEW road \in {"resumed", "opening", "raised"}, NEW most, S!TakesUp(road, most)
  PROVE  Fits(run')
<1> DEFINE r == S!GoesOn(road, most)
           read == [r EXCEPT !.terminal = "done", !.cost = kept.cost]
<1>1. run.n \in 0..MaxRuns /\ run.n < MaxRuns /\ MaxRuns \in Nat /\ MaxRev \in Nat
  BY WorkAssumption DEF Fits, S!TakesUp, S!RunsConstants
<1>2. /\ Fields \subseteq DOMAIN r /\ r.n = run.n + 1 /\ r.kind = kept.kind /\ r.at = "main" /\ r.road = road
      /\ r.said = kept.said /\ r.chan = 0 /\ r.outcome = "failed"
  BY DEF S!GoesOn, S!NoRun, Fields
<1>3. \/ S!ReplyRead(read)
      \/ run' = r \/ \E t \in Ceilings : S!UsedUp(r, t)
  BY DEF S!TakesUp, Ceilings
<1> HIDE DEF r
<1>4. Fits(r)  BY <1>1, <1>2 DEF Fits, KeptBounds, Ats
<1>5. Fits(read) /\ read.outcome = "failed"  BY <1>2, <1>4 DEF Fits, Fields
<1> HIDE DEF read
<1>6. ASSUME NEW t \in Ceilings, S!UsedUp(r, t) PROVE Fits(run')
  <2> DEFINE used == [r EXCEPT !.terminal = t, !.outcome = "paused-budget"]
  <2>1. Fits(used)  BY <1>4, <1>6 DEF Fits, Fields
  <2>2. CASE run' = [S!Judged(r, "paused-budget") EXCEPT !.terminal = t]
    BY <1>4, <1>6, <2>2 DEF S!Judged, Fits, Fields, Ats
  <2>3. CASE run' \in S!Concludes(used)
    <3> HIDE DEF used
    <3> QED  BY <2>1, <2>3, GoesOnFits
  <2> QED  BY <1>6, <2>2, <2>3 DEF S!UsedUp
<1> QED  BY <1>3, <1>4, <1>5, <1>6, ReplyFits

\* Every step leaves a run that fits.
LEMMA RunFits ==
  ASSUME RunInv, RunBounds, S!Next
  PROVE  Fits(run')
<1>1. Fits(run) /\ KeptBounds /\ rev \in 1..MaxRev /\ {MaxSaid, MaxRuns} \subseteq Nat /\ MaxRev \in Nat \ {0}
  BY WorkAssumption DEF RunBounds, S!RunsConstants
<1>2. Fields \subseteq DOMAIN run /\ Saying(run.said)  BY <1>1 DEF Fits
<1>3. ASSUME NEW k \in S!Kinds, S!Start(k) PROVE Fits(run')
  <2> DEFINE r == [S!NoRun EXCEPT !.n = run.n + 1, !.kind = k, !.at = "main"]
  <2>1. run.n \in 0..MaxRuns /\ run.n < MaxRuns /\ run' = r  BY <1>1, <1>3 DEF Fits, S!Start
  <2>2. Saying(<<>>)  BY <1>1 DEF Saying
  <2>3. /\ Fields \subseteq DOMAIN r /\ r.n = run.n + 1 /\ r.kind = k /\ r.at = "main" /\ r.road = "start"
        /\ r.said = <<>> /\ r.chan = 0 /\ r.outcome = "failed"
    BY DEF S!NoRun, Fields
  <2> HIDE DEF r
  <2> QED  BY <1>1, <2>1, <2>2, <2>3 DEF Fits, Ats
<1>4. CASE S!Resume  BY <1>1, <1>4, TakenUpFits DEF S!Resume
<1>5. ASSUME NEW most \in 1..MaxUsd + 1, S!Raise(most) PROVE Fits(run')
  BY <1>1, <1>5, TakenUpFits DEF S!Raise
<1>6. CASE UNCHANGED run  BY <1>1, <1>6
<1>7. ASSUME NEW what \in {"title", "call"}, Len(run.said) < MaxSaid PROVE Saying(Append(run.said, what))
  BY <1>1, <1>2, <1>7 DEF Saying
<1>8. ASSUME NEW what \in {"title", "call"}, S!Says(what) PROVE Fits(run')
  <2>1. Saying(Append(run.said, what))  BY <1>7, <1>8 DEF S!Says, S!Talks
  <2>2. run' = [run EXCEPT !.said = Append(@, what)]  BY <1>8 DEF S!Says
  <2> QED  BY <1>1, <2>1, <2>2 DEF Fits, Fields
<1>9. ASSUME NEW ok \in BOOLEAN, S!Submits(ok) PROVE Fits(run')
  <2>1. CASE run.kind \in S!AppWrites
    <3>1. Saying(Append(run.said, "call"))  BY <1>7, <1>9, <2>1 DEF S!Submits, S!Talks
    <3>2. run' = [run EXCEPT !.said = Append(@, "call"), !.chan = IF ok THEN rev ELSE @]
      BY <1>9, <2>1 DEF S!Submits
    <3> QED  BY <1>1, <3>1, <3>2 DEF Fits, Fields
  <2>2. CASE run' = [run EXCEPT !.chan = rev]  BY <1>1, <2>2 DEF Fits, Fields
  <2> QED  BY <1>9, <2>1, <2>2 DEF S!Submits
<1>10. CASE S!Replies
  <2>1. run.outcome = "failed"  BY <1>10 DEF S!Replies, RunInv
  <2>2. PICK t : run' = [run EXCEPT !.at = "shut", !.terminal = t, !.cost = S!Total]  BY <1>10 DEF S!Replies
  <2> QED  BY <1>1, <2>1, <2>2 DEF Fits, Fields, Ats
<1>11. CASE S!Replied
  <2>1. run.outcome = "failed"  BY <1>11 DEF S!Replied, RunInv
  <2>2. CASE run.kind # "agent"  BY <1>1, <1>11, <2>1, <2>2, ReplyFits DEF S!Replied
  <2>3. CASE run.kind = "agent"
    <3>1. PICK o \in {"paused-budget", "session-limit", "failed", "done"} :
            /\ run' = [run EXCEPT !.at = "finishing", !.outcome = o]
            /\ o = "paused-budget" => run.terminal \in Ceilings
      BY <1>11, <2>3 DEF S!Replied, S!Judged, S!CutShort, Ceilings
    <3> QED  BY <1>1, <3>1 DEF Fits, Fields, Ats
  <2> QED  BY <2>2, <2>3
<1>12. ASSUME NEW o \in {"paused-budget", "failed", "stopped"}, o = "paused-budget" => run.terminal \in Ceilings,
              run' \in S!Concludes([run EXCEPT !.outcome = o])
       PROVE  Fits(run')
  <2> DEFINE r == [run EXCEPT !.outcome = o]
  <2>1. Fits(r)  BY <1>1, <1>12 DEF Fits, Fields
  <2>2. run' \in S!Concludes(r)  BY <1>12
  <2> HIDE DEF r
  <2> QED  BY <2>1, <2>2, GoesOnFits
<1>13. CASE S!Breaks
  <2>1. CASE run.kind = "agent"  BY <1>1, <1>13, <2>1 DEF S!Breaks, S!Judged, Fits, Fields, Ats
  <2>2. CASE run.kind # "agent"
    <3>1. CASE S!CutShort(run.terminal) = "paused-budget"
      <4>1. run.terminal \in Ceilings  BY <3>1 DEF S!CutShort, Ceilings
      <4>2. run' \in S!Concludes([run EXCEPT !.outcome = "paused-budget"])  BY <1>13, <2>2, <3>1 DEF S!Breaks
      <4> QED  BY <1>12, <4>1, <4>2
    <3>2. CASE S!CutShort(run.terminal) # "paused-budget"
      <4>1. run' \in S!Concludes([run EXCEPT !.outcome = "failed"])  BY <1>13, <2>2, <3>2 DEF S!Breaks
      <4> QED  BY <1>12, <4>1
    <3> QED  BY <3>1, <3>2
  <2> QED  BY <2>1, <2>2
<1>14. ASSUME run' \in S!Concludes([run EXCEPT !.withheld = TRUE]) PROVE Fits(run')
  <2> DEFINE r == [run EXCEPT !.withheld = TRUE]
  <2>1. Fits(r)  BY <1>1 DEF Fits, Fields
  <2>2. run' \in S!Concludes(r)  BY <1>14
  <2> HIDE DEF r
  <2> QED  BY <2>1, <2>2, GoesOnFits
<1>15. CASE S!TreeRead
  <2>1. run.outcome = "failed"  BY <1>15 DEF S!TreeRead, RunInv
  <2> QED  BY <1>1, <1>14, <1>15, <2>1, WritesFits DEF S!TreeRead
<1>16. CASE S!ProgressRead
  <2> DEFINE sealed == ~run.stop /\ ~around.touched
             r == [run EXCEPT !.withheld = TRUE, !.sealed = sealed]
  <2>1. run' \in S!Concludes(r)  BY <1>16 DEF S!ProgressRead
  <2>2. Fits(r)  BY <1>1 DEF Fits, Fields
  <2> HIDE DEF r
  <2> QED  BY <2>1, <2>2, GoesOnFits
<1>17. CASE S!StopAsks
  <2> DEFINE s == [run EXCEPT !.stop = TRUE]
             withheld == [s EXCEPT !.withheld = TRUE]
             stopped == [s EXCEPT !.outcome = "stopped"]
  <2>1. Fits(s) /\ Fits(withheld) /\ Fits(stopped)  BY <1>1 DEF Fits, Fields
  <2>2. run' = s \/ run' \in S!Concludes(withheld) \/ run' \in S!Concludes(stopped)  BY <1>17 DEF S!StopAsks
  <2> HIDE DEF s, withheld, stopped
  <2> QED  BY <2>1, <2>2, GoesOnFits
<1>18. CASE S!Gone
  <2>1. Saying(<<>>)  BY <1>1 DEF Saying
  <2> QED  BY <1>1, <1>18, <2>1 DEF S!Gone, S!NoRun, Fits, Fields, Ats, S!Kinds
<1>19. CASE S!StopLands
  <2>1. \/ run' \in S!Concludes([run EXCEPT !.outcome = "stopped"])
        \/ run' \in S!Concludes([run EXCEPT !.withheld = TRUE])
        \/ S!Gone
    BY <1>19 DEF S!StopLands, S!Lost
  <2> QED  BY <1>12, <1>14, <1>18, <2>1
<1>20. CASE S!End \/ S!Suspend \/ S!Cancelled \/ S!GoesDown
  BY <1>18, <1>20 DEF S!End, S!Suspend, S!Cancelled, S!GoesDown, S!Ends, S!Lost
<1>21. CASE S!HandsBack  BY <1>1, <1>21 DEF S!HandsBack, Fits, Fields
<1>22. CASE S!Finished \/ S!Closed  BY <1>1, <1>22 DEF S!Finished, S!Closed, Fits, Fields, Ats
<1>23. CASE S!TurnBreaks
  <2> DEFINE r == [run EXCEPT !.outcome = "failed"]
  <2>1. Fits(r)  BY <1>1 DEF Fits, Fields
  <2>2. run' = S!Sealing(r)  BY <1>23 DEF S!TurnBreaks
  <2> HIDE DEF r
  <2> QED  BY <2>1, <2>2, GoesOnFits
<1>24. CASE S!Repaired
  <2>1. PICK c : LET r == [run EXCEPT !.cost = c] IN
          run' \in S!Submitting(r) \/ run' \in S!Submitting([r EXCEPT !.outcome = "done"])
    BY <1>24 DEF S!Repaired
  <2> DEFINE r == [run EXCEPT !.cost = c]
             done == [r EXCEPT !.outcome = "done"]
  <2>2. Fits(r) /\ Fits(done)  BY <1>1 DEF Fits, Fields
  <2>3. run' \in S!Submitting(r) \/ run' \in S!Submitting(done)  BY <2>1
  <2> HIDE DEF r, done
  <2> QED  BY <2>2, <2>3, GoesOnFits
<1>25. CASE S!Resubmitted
  <2>1. run.outcome = "done"  BY <1>25 DEF S!Resubmitted, RunInv
  <2>2. PICK c : LET r == [run EXCEPT !.cost = c] IN
          \/ run' \in S!Rounds(r)
          \/ run' = S!Sealing([r EXCEPT !.outcome = "failed", !.chan = 0])
    BY <1>25 DEF S!Resubmitted
  <2> DEFINE r == [run EXCEPT !.cost = c]
             failed == [r EXCEPT !.outcome = "failed"]
             none == [r EXCEPT !.outcome = "failed", !.chan = 0]
  <2>3. Fits(r) /\ Fits(failed)  BY <1>1 DEF Fits, Fields
  <2>4. Fits(none)  BY <1>1 DEF Fits, Fields
  <2>5. run' = S!Sealing(r) \/ run' = S!Sealing(failed) \/ run' = S!Sealing(none)  BY <2>2 DEF S!Rounds
  <2> HIDE DEF r, failed, none
  <2> QED  BY <2>3, <2>4, <2>5, GoesOnFits
<1> QED  BY <1>3, <1>4, <1>5, <1>6, <1>8, <1>9, <1>10, <1>11, <1>13, <1>15, <1>16, <1>17, <1>19, <1>20, <1>21, <1>22,
            <1>23, <1>24, <1>25
         DEF S!Next, S!Refuse, S!Spends, S!WritesFile, S!Touches, S!Answered

\* Every step keeps a session that fits, and the other bounds.
LEMMA KeptFits ==
  ASSUME RunBounds, S!Next
  PROVE  KeptBounds'
<1>1. Fits(run) /\ KeptBounds /\ Saying(run.said) /\ run.kind \in S!Kinds  BY DEF RunBounds, Fits
<1>2. CASE kept' = kept  BY <1>1, <1>2 DEF KeptBounds
<1>3. CASE kept' = S!NoSession
  <2>1. MaxSaid \in Nat  BY WorkAssumption DEF S!RunsConstants
  <2>2. Saying(<<>>)  BY <2>1 DEF Saying
  <2> QED  BY <1>3, <2>2 DEF KeptBounds, S!NoSession, S!Kinds
<1>4. ASSUME NEW o, S!Ends(o), o = "paused-budget" => run.terminal \in Ceilings PROVE KeptBounds'
  <2>1. CASE o # "paused-budget"  BY <1>3, <1>4, <2>1 DEF S!Ends
  <2>2. CASE o = "paused-budget"
    <3>1. PICK all \in BOOLEAN :
            kept' = [S!NoSession EXCEPT !.how = run.terminal, !.kind = run.kind, !.said = S!Safe(run.said, all),
                                        !.spent = run.cost, !.most = run.most]
      BY <1>4, <2>2 DEF S!Ends
    <3>2. Saying(S!Safe(run.said, all))  BY <1>1, SafeIsPart
    <3>3. run.terminal \in Ceilings  BY <1>4, <2>2
    <3> DEFINE text == S!Safe(run.said, all)
    <3> HIDE DEF text
    <3>4. Saying(text)  BY <3>2 DEF text
    <3>5. kept' = [S!NoSession EXCEPT !.how = run.terminal, !.kind = run.kind, !.said = text,
                                      !.spent = run.cost, !.most = run.most]
      BY <3>1 DEF text
    <3>6. /\ {"how", "kind", "owner", "said"} \subseteq DOMAIN kept' /\ kept'.how = run.terminal
          /\ kept'.kind = run.kind /\ kept'.owner = "step" /\ kept'.said = text
      BY <3>5 DEF S!NoSession
    <3> QED  BY <1>1, <3>3, <3>4, <3>6 DEF KeptBounds
  <2> QED  BY <2>1, <2>2
<1>5. CASE S!Suspend
  <2>1. PICK all \in BOOLEAN, spent \in {S!Total, S!Unknown} :
          kept' = [how |-> "suspended", kind |-> run.kind, said |-> S!Safe(run.said, all), spent |-> spent,
                   owner |-> IF run.at = "main" THEN "step" ELSE run.at, most |-> run.most, cost |-> run.cost]
    BY <1>5 DEF S!Suspend
  <2>2. Saying(S!Safe(run.said, all))  BY <1>1, SafeIsPart
  <2>3. run.at \in {"main", "opening", "submitting"}  BY <1>5 DEF S!Suspend, S!Works
  <2> QED  BY <1>1, <2>1, <2>2, <2>3 DEF KeptBounds
<1>6. run.outcome = "paused-budget" => run.terminal \in Ceilings  BY <1>1 DEF Fits
<1>7. CASE S!End  BY <1>4, <1>6, <1>7 DEF S!End
<1>8. CASE S!GoesDown  BY <1>2, <1>4, <1>6, <1>8 DEF S!GoesDown, S!Lost
<1>9. CASE S!Cancelled  BY <1>2, <1>4, <1>9 DEF S!Cancelled, S!Lost
<1>10. CASE S!StopLands  BY <1>2, <1>10 DEF S!StopLands, S!Lost
<1> HIDE DEF KeptBounds
<1>11. CASE \E k \in S!Kinds : S!Start(k)  BY <1>3, <1>11 DEF S!Start, S!Begins
<1>12. CASE S!Resume \/ (\E most \in 1..MaxUsd + 1 : S!Raise(most)) \/ S!Refuse
  BY <1>3, <1>12 DEF S!Resume, S!Raise, S!Refuse, S!TakesUp, S!Begins
<1>13. CASE kept' = kept  BY <1>2, <1>13
<1> QED  BY <1>5, <1>7, <1>8, <1>9, <1>10, <1>11, <1>12, <1>13
         DEF S!Next, S!Spends, S!Says, S!Submits, S!WritesFile, S!Touches, S!Answered, S!Replies, S!Replied, S!Breaks,
             S!TreeRead, S!ProgressRead, S!Repaired, S!HandsBack, S!Resubmitted, S!TurnBreaks, S!Finished, S!Closed,
             S!StopAsks

LEMMA RestFits ==
  ASSUME RunBounds, S!Next
  PROVE  /\ rev' \in 1..MaxRev /\ disk' \in {"none", "before", "run"}
         /\ "billed" \in DOMAIN money' /\ money'.billed \in 0..MaxUsd
<1>1. /\ rev \in 1..MaxRev /\ disk \in {"none", "before", "run"} /\ MaxRev \in Nat \ {0} /\ MaxUsd \in Nat
      /\ "billed" \in DOMAIN money /\ money.billed \in 0..MaxUsd
  BY WorkAssumption DEF RunBounds, S!RunsConstants
<1>2. rev' = rev \/ rev' = 1 \/ (rev < MaxRev /\ rev' = rev + 1)
  BY DEF S!Next, S!Start, S!Resume, S!Raise, S!TakesUp, S!Begins, S!Refuse, S!Spends, S!Says, S!Submits, S!WritesFile,
         S!Touches, S!Answered, S!Replies, S!Replied, S!Breaks, S!TreeRead, S!ProgressRead, S!Repaired, S!HandsBack,
         S!Resubmitted, S!TurnBreaks, S!Finished, S!Closed, S!End, S!Suspend, S!StopAsks, S!StopLands, S!Cancelled,
         S!GoesDown
<1>3. rev' \in 1..MaxRev  BY <1>1, <1>2
<1>4. disk' = disk \/ disk' = "run" \/ disk' = "before"
  BY DEF S!Next, S!Start, S!Resume, S!Raise, S!TakesUp, S!ReplyRead, S!Writes, S!Wrote, S!Refuse, S!Spends, S!Says,
         S!Submits, S!WritesFile, S!Touches, S!Answered, S!Replies, S!Replied, S!Breaks, S!TreeRead, S!ProgressRead,
         S!Repaired, S!HandsBack, S!Resubmitted, S!TurnBreaks, S!Finished, S!Closed, S!End, S!Ends, S!Gone, S!Lost,
         S!Suspend, S!StopAsks, S!StopLands, S!Cancelled, S!GoesDown
<1>5. /\ "billed" \in DOMAIN money'
      /\ money'.billed = money.billed \/ (money.billed < MaxUsd /\ money'.billed = money.billed + 1)
  <2>1. CASE S!Spends  BY <1>1, <2>1 DEF S!Spends
  <2>2. CASE money' = money  BY <1>1, <2>2
  <2>3. CASE (\E k \in S!Kinds : S!Start(k)) \/ S!Resume \/ (\E most \in 1..MaxUsd + 1 : S!Raise(most)) \/ S!Refuse
    BY <1>1, <2>3 DEF S!Start, S!Resume, S!Raise, S!Refuse, S!Opening
  <2>4. CASE \E o : S!Ends(o)  BY <1>1, <2>4 DEF S!Ends
  <2> QED
    BY <2>1, <2>2, <2>3, <2>4
    DEF S!Next, S!Says, S!Submits, S!WritesFile, S!Touches, S!Answered, S!Replies, S!Replied, S!Breaks, S!TreeRead,
        S!ProgressRead, S!Repaired, S!HandsBack, S!Resubmitted, S!TurnBreaks, S!Finished, S!Closed, S!End, S!Lost,
        S!Suspend, S!StopAsks, S!StopLands, S!Cancelled, S!GoesDown
<1>6. money'.billed \in 0..MaxUsd  BY <1>1, <1>5
<1>7. disk' \in {"none", "before", "run"}  BY <1>1, <1>4
<1> QED  BY <1>3, <1>5, <1>6, <1>7

LEMMA RunsBound == WorkSpec => []RunBounds
<1>1. S!Init => RunBounds
  <2> SUFFICES ASSUME S!Init PROVE RunBounds  OBVIOUS
  <2>1. {MaxSaid, MaxUsd, MaxRuns} \subseteq Nat /\ MaxRev \in Nat \ {0}  BY WorkAssumption DEF S!RunsConstants
  <2>2. Saying(<<>>)  BY <2>1 DEF Saying
  <2>3. Fits(run)  BY <2>1, <2>2 DEF S!Init, S!NoRun, Fits, Fields, Ats, S!Kinds
  <2>4. KeptBounds  BY <2>2 DEF S!Init, S!NoSession, KeptBounds, S!Kinds
  <2>5. rev = 1 /\ disk = "none" /\ money = [billed |-> 0, base |-> 0, opened |-> 0, sum |-> 0]  BY DEF S!Init
  <2> QED  BY <2>1, <2>3, <2>4, <2>5 DEF RunBounds
<1>2. RunBounds /\ UNCHANGED S!vars => RunBounds'  BY DEF RunBounds, KeptBounds, S!vars
<1>3. RunInv /\ RunBounds /\ S!Next => RunBounds'  BY RunFits, KeptFits, RestFits DEF RunBounds
<1> QED  BY <1>1, <1>2, <1>3, RunsKeepTheirWord, WorkHasRuns, PTL DEF S!Spec

\* The types of Runs follow.
LEMMA RunsAreTyped == WorkSpec => []S!TypeOK
<1>1. RunBounds => S!TypeOK  BY DEF RunBounds, Fits, KeptBounds, Saying, Ats, Ceilings, S!TypeOK
<1> QED  BY <1>1, RunsBound, PTL

\* Whichever part goes on, what it holds has the types of its module, over every number of units, heads, pull
\* requests, versions, sessions, dollars and faults: no row, kept fact or place in a walk leaves its range.
THEOREM WorkIsTyped == WorkSpec => []WorkTypeOK
<1>1. WorkSpec => []TypeOK  BY WorkHasPulls, PullsAreTyped, PTL
<1>2. WorkInit => part \in {"runs", "pulls", "release"}  BY DEF WorkInit
<1>3. part \in {"runs", "pulls", "release"} /\ [WorkNext]_workVars => (part \in {"runs", "pulls", "release"})'
  BY DEF WorkNext, workVars
<1>4. part \in {"runs", "pulls", "release"} /\ S!TypeOK /\ TypeOK /\ R!TypeOK => WorkTypeOK  BY DEF WorkTypeOK
<1> QED  BY <1>1, <1>2, <1>3, <1>4, RunsAreTyped, ReleasesAreTyped, PTL DEF WorkSpec
=============================================================================
