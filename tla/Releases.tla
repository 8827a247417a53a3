------------------------------ MODULE Releases ------------------------------
(***************************************************************************)
(* Cutting a release from the Work page (coscc/features/release): Prepare  *)
(* opens a pull request that raises the version, Merge and tag merges it   *)
(* and tags the merge commit.  Every state is read again from git and      *)
(* GitHub, where other people merge, push, tag and close meanwhile, and a  *)
(* press may be cut between any two of its calls: nothing takes it up.     *)
(*                                                                         *)
(* A version is a number, a commit of `main` its position.  What a release *)
(* gathers, its text, the page's reads and the check of the changed lines  *)
(* are left out.                                                           *)
(***************************************************************************)
EXTENDS Naturals, Sequences, FiniteSets, FiniteSetsExt

CONSTANTS MaxVersion, \* bound: versions, of which the first is released at the beginning
          MaxMain,    \* bound: commits of `main`
          MaxHeads,   \* bound: commits made on release branches
          MaxPulls    \* bound: release pull requests

\* What the constants are: there is the version released at the beginning.
ReleasesConstants == MaxVersion \in Nat \ {0}

VARIABLES trunk,  \* `main` on GitHub: the version each commit carries, and the pull request it merged
          tagged, \* the commit each version's tag names on GitHub, 0 without one
          made,   \* commits of release branches: version, the one before it, who made it, its checks
          remote, \* release branches on GitHub
          pulls,  \* release pull requests
          known,  \* `origin/main` and the tags here
          left,   \* versions with a release branch here
          opened, \* the head of the last `opened` record of a version
          press   \* the press that runs
vars == <<trunk, tagged, made, remote, pulls, known, left, opened, press>>

github == <<trunk, tagged, made, remote, pulls>>
here == <<known, left, opened>>

Versions == 1..MaxVersion
NoPress == [at |-> "idle", phase |-> "none", version |-> 0, pull |-> 0, head |-> 0, sha |-> 0]

Commit(version, pull) == Append(trunk, [version |-> version, pull |-> pull])
Tip == trunk[Len(trunk)]
OpenPulls == {i \in DOMAIN pulls : pulls[i].st = "OPEN"}
Tags == {v \in Versions : tagged[v] # 0}

-----------------------------------------------------------------------------
(* What a press reads.                                                      *)

\* `tags_merged`, of the commit `origin/main` names here; `candidates` takes the highest.
TagsMerged == {v \in known.tags : tagged[v] <= known.main}
LastTag == Max(TagsMerged)

\* `classify`, with the pull request its list gave.
Classify(pull) ==
  LET there == trunk[known.main].version IN
  IF pull # 0 THEN [state |-> "pr-open", version |-> pulls[pull].version]
  ELSE IF there > LastTag /\ there \notin TagsMerged THEN [state |-> "merged-untagged", version |-> there]
  ELSE [state |-> IF known.main > tagged[LastTag] THEN "ready" ELSE "nothing", version |-> 0]

\* `version_problem`: above the last tag here, and not on the remote.
MayRelease(v) == v > LastTag /\ tagged[v] = 0

\* `publish_problem`: the head its list gave is the one the app pushed, and what is checked now is green.
MayMerge(v) ==
  /\ opened[v] # 0 /\ press.head = opened[v]
  /\ LET head == remote[pulls[press.pull].version] IN head # 0 /\ made[head].green

-----------------------------------------------------------------------------
(* A press, to where it has decided.                                        *)

Press(phase, v) ==
  /\ press = NoPress /\ press' = [NoPress EXCEPT !.at = "fetch", !.phase = phase, !.version = v]
  /\ UNCHANGED <<github, here>>

\* Its end: every road writes its record, which only `opened` is read from.
Ends == press' = NoPress

Fetch ==
  /\ press.at = "fetch"
  /\ \/ known' = [main |-> Len(trunk), tags |-> Tags] /\ press' = [press EXCEPT !.at = "list"]
     \/ Ends /\ UNCHANGED known
  /\ UNCHANGED <<github, left, opened>>

\* The open pull requests, newest first.
List ==
  /\ press.at = "list"
  /\ \/ Ends
     \/ LET i == IF OpenPulls = {} THEN 0 ELSE Max(OpenPulls) IN
        press' = [press EXCEPT !.at = "decide", !.pull = i, !.head = IF i = 0 THEN 0 ELSE remote[pulls[i].version]]
  /\ UNCHANGED <<github, here>>

\* The facts, and `refusal`.
Decide ==
  /\ press.at = "decide"
  /\ LET facts == Classify(press.pull)
         v == press.version IN
     \/ Ends
     \/ /\ MayRelease(v) /\ press.phase = "prepare" /\ facts.state = "ready"
        /\ press' = [press EXCEPT !.at = "cut"]
     \/ /\ MayRelease(v) /\ press.phase = "publish" /\ v = facts.version
        /\ \/ facts.state = "pr-open" /\ MayMerge(v) /\ press' = [press EXCEPT !.at = "merge"]
           \/ facts.state = "merged-untagged" /\ press' = [press EXCEPT !.at = "find"]
  /\ UNCHANGED <<github, here>>

-----------------------------------------------------------------------------
(* Prepare.                                                                 *)

\* A failure takes the tree away, and the branch where it can.
Fails == Ends /\ left' \in {left, left \ {press.version}} /\ UNCHANGED <<known, opened>>

\* `create_branch` refuses one that is there.  The branch is at `origin/main` until its commit.
Cut ==
  /\ press.at = "cut"
  /\ IF press.version \in left THEN Ends /\ UNCHANGED <<left, made>>
     ELSE \/ Ends /\ left' \in {left, left \union {press.version}} /\ UNCHANGED made
          \/ /\ Len(made) < MaxHeads /\ left' = left \union {press.version}
             /\ made' = Append(made, [version |-> press.version, after |-> trunk[known.main].version,
                                      app |-> TRUE, green |-> FALSE])
             /\ press' = [press EXCEPT !.at = "push", !.head = Len(made')]
  /\ UNCHANGED <<trunk, tagged, remote, pulls, known, opened>>

\* No force: a branch of another press on GitHub is not moved.  The answer may be lost.
PushBranch ==
  /\ press.at = "push"
  /\ \/ /\ remote[press.version] = 0 /\ remote' = [remote EXCEPT ![press.version] = press.head]
        /\ \/ press' = [press EXCEPT !.at = "create"] /\ UNCHANGED here
           \/ Fails
     \/ UNCHANGED remote /\ Fails
  /\ UNCHANGED <<trunk, tagged, made, pulls>>

Opened(v) == Append(pulls, [version |-> v, st |-> "OPEN"])

\* `create_pr`, the detached tree and the `opened` record, which a busy run log loses.
CreatePull ==
  /\ press.at = "create"
  /\ LET v == press.version IN
     \/ /\ remote[v] # 0 /\ ~\E i \in OpenPulls : pulls[i].version = v
        /\ Len(pulls) < MaxPulls /\ pulls' = Opened(v)
        /\ \/ Ends /\ opened' \in {opened, [opened EXCEPT ![v] = press.head]} /\ UNCHANGED <<known, left>>
           \/ Fails
     \/ UNCHANGED pulls /\ Fails
  /\ UNCHANGED <<trunk, tagged, made, remote>>

-----------------------------------------------------------------------------
(* Merge and tag.                                                           *)

\* GitHub squashes the branch onto `main`, unless the version there changed since it was cut, and
\* deletes it.
Merges(i) ==
  LET v == pulls[i].version
      head == made[remote[v]] IN
  /\ pulls[i].st = "OPEN" /\ Len(trunk) < MaxMain /\ head.after = Tip.version
  /\ trunk' = Commit(head.version, i)
  /\ pulls' = [pulls EXCEPT ![i].st = "MERGED"] /\ remote' = [remote EXCEPT ![v] = 0]
  /\ UNCHANGED <<tagged, made>>

\* Mutant of MergePull: `--match-head-commit` is not given.
MergeUnpinned ==
  /\ press.at = "merge"
  /\ \/ /\ Merges(press.pull) /\ left' \in {left, left \ {press.version}}
        /\ (press' = [press EXCEPT !.at = "merged"] \/ Ends)
     \/ UNCHANGED <<github, left>> /\ Ends
  /\ UNCHANGED <<known, opened>>

\* Pinned to the head that was checked; its branch goes, here too; the answer may be lost.
MergePull ==
  /\ press.at = "merge"
  /\ \/ /\ remote[press.version] = press.head /\ Merges(press.pull)
        /\ left' \in {left, left \ {press.version}}
        /\ (press' = [press EXCEPT !.at = "merged"] \/ Ends)
     \/ UNCHANGED <<github, left>> /\ Ends
  /\ UNCHANGED <<known, opened>>

MergeCommit(i) == CHOOSE c \in DOMAIN trunk : trunk[c].pull = i

\* The merge commit, asked of this pull request or found as the last one merged from the branch,
\* and the fetch that has to bring it.
FindCommit ==
  /\ press.at \in {"merged", "find"}
  /\ \/ Ends /\ UNCHANGED known
     \/ LET found == {i \in DOMAIN pulls : pulls[i].version = press.version /\ pulls[i].st = "MERGED"} IN
        /\ press.at = "merged" \/ found # {}
        /\ known' = [main |-> Len(trunk), tags |-> Tags]
        /\ press' = [press EXCEPT !.at = "tag", !.sha = MergeCommit(IF press.at = "merged" THEN press.pull ELSE Max(found))]
  /\ UNCHANGED <<github, left, opened>>

\* Mutant of Target: the tip of `origin/main` is tagged.
TargetTip == known.main
Target == press.sha

\* `check-version` at the commit, the push of the tag, and a last fetch.
PushTag ==
  /\ press.at = "tag" /\ Ends
  /\ \/ UNCHANGED tagged
     \/ /\ trunk[Target].version = press.version /\ tagged[press.version] = 0
        /\ tagged' = [tagged EXCEPT ![press.version] = Target]
  /\ known' \in {known, [main |-> Len(trunk), tags |-> {v \in Versions : tagged'[v] # 0}]}
  /\ UNCHANGED <<trunk, made, remote, pulls, left, opened>>

\* The process ends, or the press is cancelled: `_releasing` goes, and everything else stays.
IsCut ==
  /\ press # NoPress /\ Ends
  /\ UNCHANGED <<github, here>>

-----------------------------------------------------------------------------
(* Everybody else.                                                          *)

Elsewhere ==
  /\ \/ \E v \in Versions : Len(trunk) < MaxMain /\ trunk' = Commit(v, 0) /\ UNCHANGED <<tagged, made, remote, pulls>>
     \/ \E i \in OpenPulls :
          \/ Merges(i)
          \/ pulls' = [pulls EXCEPT ![i].st = "CLOSED"] /\ UNCHANGED <<trunk, tagged, made>>
             /\ remote' \in {remote, [remote EXCEPT ![pulls[i].version] = 0]}
          \/ LET head == remote[pulls[i].version] IN
             /\ UNCHANGED <<trunk, tagged, pulls>>
             /\ \/ ~made[head].green /\ made' = [made EXCEPT ![head].green = TRUE] /\ UNCHANGED remote
                \/ /\ Len(made) < MaxHeads /\ made' = Append(made, [made[head] EXCEPT !.app = FALSE, !.green = FALSE])
                   /\ remote' = [remote EXCEPT ![pulls[i].version] = Len(made')]
     \/ \E v \in Versions :
          /\ remote[v] # 0 /\ ~\E i \in OpenPulls : pulls[i].version = v
          /\ \/ Len(pulls) < MaxPulls /\ pulls' = Opened(v) /\ UNCHANGED remote
             \/ remote' = [remote EXCEPT ![v] = 0] /\ UNCHANGED pulls
          /\ UNCHANGED <<trunk, tagged, made>>
     \/ \E v \in Versions, c \in DOMAIN trunk :
          tagged[v] = 0 /\ tagged' = [tagged EXCEPT ![v] = c] /\ UNCHANGED <<trunk, made, remote, pulls>>
  /\ UNCHANGED <<here, press>>

\* Fetches of `main` bring no tags, and a person may delete a branch here.
ElsewhereHere ==
  /\ \/ known.main < Len(trunk) /\ known' = [known EXCEPT !.main = Len(trunk)] /\ UNCHANGED left
     \/ \E v \in left : left' = left \ {v} /\ UNCHANGED known
  /\ UNCHANGED <<github, opened, press>>

Init ==
  /\ trunk = <<[version |-> 1, pull |-> 0]>> /\ tagged = [v \in Versions |-> IF v = 1 THEN 1 ELSE 0]
  /\ made = <<>> /\ remote = [v \in Versions |-> 0] /\ pulls = <<>>
  /\ known = [main |-> 1, tags |-> {1}] /\ left = {} /\ opened = [v \in Versions |-> 0]
  /\ press = NoPress

Next ==
  \/ \E phase \in {"prepare", "publish"}, v \in Versions : Press(phase, v)
  \/ Fetch \/ List \/ Decide
  \/ Cut \/ PushBranch \/ CreatePull
  \/ MergePull \/ FindCommit \/ PushTag
  \/ IsCut \/ Elsewhere \/ ElsewhereHere

Spec == Init /\ [][Next]_vars

-----------------------------------------------------------------------------

\* What is here is of what is on GitHub, and no branch has two open pull requests.
TypeOK ==
  /\ \A c \in DOMAIN trunk : trunk[c].version \in Versions /\ trunk[c].pull \in 0..Len(pulls)
  /\ known.main \in DOMAIN trunk /\ known.tags \subseteq Tags /\ left \subseteq Versions
  /\ \A v \in Versions : tagged[v] \in 0..Len(trunk) /\ {remote[v], opened[v]} \subseteq 0..Len(made)
  /\ \A i, j \in OpenPulls : pulls[i].version = pulls[j].version => i = j
  /\ \A i \in OpenPulls : remote[pulls[i].version] # 0
  /\ press.pull \in 0..Len(pulls) /\ press.head \in 0..Len(made) /\ press.sha \in 0..Len(trunk)

\* The app merges only a commit of its own, recorded when its pull request was opened, with green
\* checks: whoever pushes to the branch between the list, the checks and the merge stops it.
MergedIsItsPush ==
  LET head == remote[press.version] IN
  trunk' # trunk /\ press' # press => made[head].app /\ made[head].green /\ opened[press.version] = head

\* A tag of the app names the commit that merged a release pull request of that version, and not what was
\* merged after it, whoever merged it, and however often the press was cut in between.
TagIsItsMerge ==
  \A v \in Versions : tagged'[v] # tagged[v] /\ press' # press =>
    LET commit == trunk[tagged'[v]] IN
    commit.version = v /\ commit.pull # 0 /\ pulls[commit.pull].version = v

\* What is released is what the app made and the checks passed, although every fact a press acts on
\* may be old by then: `MergedIsItsPush` and `TagIsItsMerge` of every step.
ReleasedIsMade == [][MergedIsItsPush /\ TagIsItsMerge]_vars
=============================================================================
