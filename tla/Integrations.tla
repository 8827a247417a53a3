----------------------------- MODULE Integrations ----------------------------
(***************************************************************************)
(* One unit's branch being integrated with `main`                          *)
(* (coscc/github/integration.py from the press to its record, integrate.py *)
(* and the git calls of gitops.py): the tree here, the pull request on     *)
(* GitHub and `origin/main` as the last fetch brought it move each by      *)
(* itself, and the process may die between any two calls.                  *)
(*                                                                         *)
(* A head is the commit of `main` it stands on, the commits of the unit    *)
(* and who rewrote it last: the same commits on the same base, rewritten   *)
(* by two, are two heads.  `main` is linear.  The attempt, which keeps     *)
(* every other step off the unit's tree, is Attempts'; what a suspended    *)
(* session is refused for is Update's.  Reports, related units, warnings   *)
(* and what gates the session's commands are left out.                     *)
(***************************************************************************)
EXTENDS Naturals, Sequences, SequencesExt

CONSTANTS MaxTrunk, \* bound: commits on `main` after the branch was cut
          MaxMade   \* bound: commits made on the branch after its first push

\* What the constants are.
IntegrationsConstants == {MaxTrunk, MaxMade} \subseteq Nat

VARIABLES trunk,   \* `main` on GitHub
          main,    \* `origin/main` here
          pr,      \* the pull request's head on GitHub
          asked,   \* GitHub has a rebase of it to do
          tree,    \* the worktree: its head, and its rebase in progress: "none", "stopped", "stuck"
          opened,  \* the run log has a Gebo `start` with no `end` or `integration` after it
          last,    \* `head_after` of the last integration, None when it pushed nothing
          at,      \* where the integration is
          got,     \* what it read, and the local head it decided on
          commits, \* how many were made
          mine,    \* history: those made in the tree by the unit's steps
          swept    \* history: those a completion's end moved the tree away from
vars == <<trunk, main, pr, asked, tree, opened, last, at, got, commits, mine, swept>>

github == <<trunk, pr, asked>>
history == <<commits, mine, swept>>

None == [on |-> 0, work |-> <<>>, by |-> "none"]
NoGot == [pr |-> None, origin |-> 0, state |-> "unknown", local |-> None, completing |-> FALSE, after |-> None]

Has(h) == ToSet(h.work)
Ancestor(g, h) == g.on = h.on /\ g.by = h.by /\ IsPrefix(g.work, h.work)
Rebased(h, base, who) == [h EXCEPT !.on = base, !.by = who]
CommitOn(h) == [h EXCEPT !.work = Append(@, commits + 1)]

\* `newer_base`, of merge bases with `origin/main`.
OlderOf(m, n) == IF m < n THEN m ELSE n
\* Mutant of NewerBase: a tree on the older base counts as rebased too.
NewerBaseAlways(local, head, origin) == local # head
NewerBase(local, head, origin) == OlderOf(local.on, origin) > OlderOf(head.on, origin)

\* `relation`, when git can tell.
\* Mutant of Relation: the two answers of `is_ancestor` are swapped.
RelationSwapped(local, head, origin) ==
  CASE local = head -> "same"
    [] local # head /\ Ancestor(head, local) -> "behind"
    [] local # head /\ Ancestor(local, head) -> "ahead"
    [] OTHER -> IF NewerBase(local, head, origin) THEN "diverged" ELSE "stale"
Relation(local, head, origin) ==
  CASE local = head -> "same"
    [] local # head /\ Ancestor(local, head) -> "behind"
    [] local # head /\ Ancestor(head, local) -> "ahead"
    [] OTHER -> IF NewerBase(local, head, origin) THEN "diverged" ELSE "stale"
Completion == {"ahead", "diverged"}

\* `classify`: GitHub compares with its own `main`, the count is against the one here, CI is asked of
\* the head the last integration pushed, and any of the calls may fail.
Classes ==
  {"unknown", IF pr.on < main THEN "behind" ELSE "current"}
    \union (IF pr.on < trunk THEN {"conflicting"} ELSE {}) \union (IF pr = last THEN {"red"} ELSE {})

\* `reset_branch_to`: it moves a tree on its branch from the head expected, or does nothing.
ResetBranch(from, to) ==
  \/ UNCHANGED tree
  \/ tree.rebase = "none" /\ tree.head = from /\ tree' = [tree EXCEPT !.head = to]

\* The press's record, and its attempt is over.
Record(head) == at' = "idle" /\ got' = NoGot /\ opened' = FALSE /\ last' = head

-----------------------------------------------------------------------------
(* The press, to where it decides.                                          *)

Press ==
  /\ at = "idle" /\ at' = "reads"
  /\ UNCHANGED <<github, main, tree, opened, last, got, history>>

\* `gh pr list` and the count; without an answer the head is not known.
Read ==
  /\ at = "reads" /\ at' = "decides"
  /\ \/ got' = [NoGot EXCEPT !.origin = main]
     \/ \E s \in Classes : got' = [NoGot EXCEPT !.pr = pr, !.origin = main, !.state = s]
  /\ UNCHANGED <<github, main, tree, opened, last, history>>

\* A Stop, the board or the skill not read: no record.
Leaves ==
  /\ at \in {"reads", "decides", "opens"} /\ at' = "idle" /\ got' = NoGot
  /\ UNCHANGED <<github, main, tree, opened, last, history>>

\* A rebase an integration cut left is aborted, where git can.
Cleared ==
  IF opened /\ tree.rebase # "none" THEN {[tree EXCEPT !.rebase = r] : r \in {"none", "stuck"}} ELSE {tree}

\* Under the lock: the tree is cleared, compared and, when behind, moved; then it is refused (for what
\* is read here, or a tree with changes), its road is chosen, or it leaves no record after all (a
\* Stop, a feature, or an update that waits).
Decide ==
  /\ at = "decides"
  /\ \E t \in Cleared :
       \/ tree' = t /\ Record(None)
       \/ /\ t.rebase = "none" /\ got.pr # None
          /\ LET how == Relation(t.head, got.pr, got.origin)
                 local == IF how = "behind" THEN got.pr ELSE t.head IN
             /\ how # "stale" /\ tree' = [t EXCEPT !.head = local]
             /\ \/ (how \in Completion \/ got.state \in {"conflicting", "red"}) /\ at' = "opens"
                   /\ got' = [got EXCEPT !.local = local, !.completing = how \in Completion]
                   /\ UNCHANGED <<opened, last>>
                \/ how \notin Completion /\ got.state = "behind" /\ at' = "updates"
                   /\ got' = [got EXCEPT !.local = local] /\ UNCHANGED <<opened, last>>
                \/ how \notin Completion /\ got.state \in {"current", "unknown"} /\ Record(None)
                \/ at' = "idle" /\ got' = NoGot /\ UNCHANGED <<opened, last>>
  /\ UNCHANGED <<github, main, history>>

-----------------------------------------------------------------------------
(* The mechanical road: GitHub rebases, and the branch here follows.        *)

\* `gh pr update-branch --rebase`: taken, refused (and perhaps taken), or without an answer.
UpdateBranch ==
  /\ at = "updates" /\ asked' \in {asked, TRUE}
  /\ \/ asked' /\ at' = "polls" /\ UNCHANGED <<opened, last, got>>
     \/ at' = "refused" /\ UNCHANGED <<opened, last, got>>
     \/ Record(None)
  /\ UNCHANGED <<trunk, pr, main, tree, history>>

Moved == pr # got.pr /\ at' = "follows" /\ got' = [got EXCEPT !.after = pr] /\ UNCHANGED <<opened, last>>

\* A refused one whose head did not move opens Gebo; one whose head cannot be read does not.
AfterRefused ==
  /\ at = "refused"
  /\ \/ Moved
     \/ pr = got.pr /\ at' = "opens" /\ UNCHANGED <<opened, last, got>>
     \/ Record(None)
  /\ UNCHANGED <<github, main, tree, history>>

Poll ==
  /\ at = "polls" /\ (Moved \/ Record(None))
  /\ UNCHANGED <<github, main, tree, history>>

Follow ==
  /\ at = "follows" /\ ResetBranch(got.pr, got.after) /\ Record(got.after)
  /\ UNCHANGED <<github, main, history>>

-----------------------------------------------------------------------------
(* Gebo's session (`integrate_gebo`).  What it does in the tree is external *)
(* and keeps to its prompt: a completion is pushed as it is or not at all.  *)

Opens ==
  /\ at = "opens" /\ at' = "gebo" /\ opened' = TRUE
  /\ UNCHANGED <<github, main, tree, last, got, history>>

GeboRebases ==
  /\ at = "gebo" /\ ~got.completing
  /\ \/ tree.rebase = "none" /\ tree.head.on < trunk /\ main' = trunk
        /\ tree' \in {[tree EXCEPT !.rebase = "stopped"], [tree EXCEPT !.head = Rebased(@, trunk, "gebo")]}
     \/ tree.rebase = "stopped" /\ UNCHANGED main
        /\ tree' \in {[tree EXCEPT !.rebase = "none"], [head |-> Rebased(tree.head, main, "gebo"), rebase |-> "none"]}
  /\ UNCHANGED <<github, opened, last, at, got, history>>

GeboCommits ==
  /\ at = "gebo" /\ tree.rebase = "none" /\ commits < MaxMade
  /\ tree' = [tree EXCEPT !.head = CommitOn(@)] /\ commits' = commits + 1
  /\ UNCHANGED <<github, main, opened, last, at, got, mine, swept>>

\* The lease is the head the press read.
GeboPushes ==
  /\ at = "gebo" /\ tree.rebase = "none" /\ pr = got.pr
  /\ got.completing => Ancestor(pr, tree.head) \/ tree.head.work = pr.work
  /\ pr' = tree.head
  /\ UNCHANGED <<trunk, asked, main, tree, opened, last, at, got, history>>

\* `_after_gebo`, first half: a rebase left open is aborted, and the head is read, or taken as unmoved.
GeboEnds ==
  /\ at = "gebo" /\ at' = "judges"
  /\ tree' \in IF tree.rebase = "none" THEN {tree} ELSE {[tree EXCEPT !.rebase = r] : r \in {"none", "stuck"}}
  /\ got' \in {[got EXCEPT !.after = h] : h \in {pr, got.pr}}
  /\ UNCHANGED <<github, main, opened, last, history>>

\* Gebo's push is a head that moved to the tree's; a HEAD that cannot be read is not one.
Judge ==
  /\ at = "judges"
  /\ IF got.after # got.pr /\ tree.head # got.after
     THEN ResetBranch(tree.head, got.after) /\ Record(None)
     ELSE /\ UNCHANGED tree
          /\ \/ Record(None)
             \/ got.after # got.pr /\ (got.completing => got.after = got.local) /\ Record(got.after)
  /\ swept' = IF got.completing THEN swept \union (Has(tree.head) \ Has(tree'.head)) ELSE swept
  /\ UNCHANGED <<github, main, commits, mine>>

-----------------------------------------------------------------------------
(* The process ends, and starts.                                            *)

\* An update pauses the session; the next start goes on with it, or ends it.
Suspended ==
  /\ at = "gebo" /\ at' = "suspended"
  /\ UNCHANGED <<github, main, tree, opened, last, got, history>>

Resumed ==
  /\ at = "suspended" /\ at' = "gebo"
  /\ UNCHANGED <<github, main, tree, opened, last, got, history>>

NotResumed ==
  /\ at = "suspended" /\ at' = "idle" /\ got' = NoGot /\ opened' = FALSE
  /\ UNCHANGED <<github, main, tree, last, history>>

\* Killed, or cancelled at the shutdown's deadline, which ends Gebo's run `cancelled`.
GoesDown ==
  /\ at \notin {"down", "suspended"} /\ at' = "down" /\ got' = NoGot
  /\ opened' \in IF at \in {"gebo", "judges"} THEN {opened, FALSE} ELSE {opened}
  /\ UNCHANGED <<github, main, tree, last, history>>

\* `recover`, before anything else: a run whose process is gone gets its `end`; a pid that reads as
\* alive is left alone.
Start ==
  /\ at = "down" /\ at' = "idle" /\ opened' \in {opened, FALSE}
  /\ UNCHANGED <<github, main, tree, last, got, history>>

-----------------------------------------------------------------------------
(* Everybody else.                                                          *)

GitHubRebases ==
  /\ asked /\ asked' = FALSE
  /\ \/ UNCHANGED pr
     \/ pr.on < trunk /\ pr' = Rebased(pr, trunk, "github")
  /\ UNCHANGED <<trunk, main, tree, opened, last, at, got, history>>

\* Other units merge, anybody fetches, and somebody commits to the pull request or has it rebased.
Elsewhere ==
  /\ \/ trunk < MaxTrunk /\ trunk' = trunk + 1 /\ UNCHANGED <<main, pr, asked, commits>>
     \/ main < trunk /\ main' = trunk /\ UNCHANGED <<trunk, pr, asked, commits>>
     \/ commits < MaxMade /\ pr' = CommitOn(pr) /\ commits' = commits + 1 /\ UNCHANGED <<trunk, main, asked>>
     \/ ~asked /\ asked' = TRUE /\ UNCHANGED <<trunk, main, pr, commits>>
  /\ UNCHANGED <<tree, opened, last, at, got, mine, swept>>

\* A step of the unit commits in the tree, and pushes, or is cut before it does.
Commit ==
  /\ at = "idle" /\ tree.rebase = "none" /\ commits < MaxMade
  /\ tree' = [tree EXCEPT !.head = CommitOn(@)] /\ commits' = commits + 1 /\ mine' = mine \union {commits + 1}
  /\ UNCHANGED <<github, main, opened, last, at, got, swept>>

Push ==
  /\ at = "idle" /\ tree.rebase = "none" /\ Ancestor(pr, tree.head) /\ pr' = tree.head
  /\ UNCHANGED <<trunk, asked, main, tree, opened, last, at, got, history>>

Init ==
  /\ trunk = 0 /\ main = 0 /\ asked = FALSE
  /\ pr = [on |-> 0, work |-> <<>>, by |-> "unit"] /\ tree = [head |-> pr, rebase |-> "none"]
  /\ opened = FALSE /\ last = None /\ at = "idle" /\ got = NoGot
  /\ commits = 0 /\ mine = {} /\ swept = {}

Next ==
  \/ Press \/ Read \/ Leaves \/ Decide
  \/ UpdateBranch \/ AfterRefused \/ Poll \/ Follow
  \/ Opens \/ GeboRebases \/ GeboCommits \/ GeboPushes \/ GeboEnds \/ Judge
  \/ Suspended \/ Resumed \/ NotResumed \/ GoesDown \/ Start
  \/ GitHubRebases \/ Elsewhere \/ Commit \/ Push

Spec == Init /\ [][Next]_vars

-----------------------------------------------------------------------------

\* Heads stand on commits of `main`, no commit is on a head twice, and only a session has a rebase open
\* while an integration is past its decision.
TypeOK ==
  /\ {main, got.origin} \subseteq 0..trunk /\ trunk \in 0..MaxTrunk /\ commits \in 0..MaxMade
  /\ \A h \in {pr, tree.head, last, got.pr, got.local, got.after} :
       h.on \in 0..trunk /\ Has(h) \subseteq 1..commits /\ IsInjective(h.work)
  /\ {asked, opened, got.completing} \subseteq BOOLEAN /\ mine \union swept \subseteq 1..commits
  /\ at \in {"opens", "updates", "polls", "refused", "follows"} => tree.rebase = "none"

\* No push ever takes the pull request back: it keeps every commit it had and stands on no older
\* `main`, whatever was rebased on GitHub or pushed from elsewhere since the press read its head, and
\* however old the tree a cut or given-up integration left.
NothingPushedBack == [][pr'.on >= pr.on /\ Has(pr) \subseteq Has(pr')]_vars

\* A commit a step made in the tree, pushed or not, stays on the branch or on the pull request through
\* every reset, rebase and abort of an integration.  Excepted are commits being completed whose pull
\* request moved during the session: its end moves the tree away from them.
LocalWorkKept == mine \subseteq Has(tree.head) \union Has(pr) \union swept

\* Between two integrations, a rebase that one of them left stopped in the tree is one the run log
\* shows as cut, so that the next press aborts it.
CutIsSeen == at = "idle" /\ tree.rebase = "stopped" => opened
=============================================================================
