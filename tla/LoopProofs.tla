------------------------------ MODULE LoopProofs ------------------------------
(***************************************************************************)
(* Theorems about the loop's rules (Loop), for any findings, marks,        *)
(* patches and bounds, and about MCParts, whose part they are.  The rules  *)
(* keep no state, so what they promise rests on what the steps between two *)
(* answers leave: only a review asks for changes (StatusTypes), a pull     *)
(* request has its heads (Opened), the machine follows one that is being   *)
(* merged, or is merged (Followed), a head that a merge is pinned to is    *)
(* green while it is the pull request's (Pinned), and what is being        *)
(* merged, or is merged, a round passed (Reviewed).                        *)
(***************************************************************************)
EXTENDS MCParts, TLAPS

Gated == {"plan", "impl", "pr", "review"}
CiStates == {"pending", "green", "red"}

\* Only a review asks for changes, and it is a round that did.
StatusTypes ==
  /\ status \in [Gated -> {"none", "draft", "accepted", "changes-requested"}]
  /\ \A s \in Gated : status[s] = "changes-requested" => s = "review"
BranchTypes ==
  /\ line \in Seq(Nat) /\ patch \in Seq(Patches) /\ Len(patch) = Len(line) /\ Len(line) <= MaxCommits
  /\ {local, remote, origin} \subseteq 0..Len(line) /\ ci \in CiStates
RoundTypes ==
  /\ rounds \in Seq(L!Round) /\ Len(rounds) <= MaxRounds
  /\ \A i \in 1..Len(rounds) : rounds[i].head \in 1..Len(line)
SideTypes ==
  /\ stale \subseteq Gated /\ waiting \in BOOLEAN /\ hold \in {"active", "paused", "dropped"}
  /\ claims \subseteq Findings /\ answers \subseteq Findings
  /\ granted \in Nat /\ moves \in Nat /\ granted <= moves /\ moves <= MaxMoves
JobTypes ==
  /\ job \in [at : {"idle", "review", "ship"}, head : Nat] /\ pr \in {"none", "open", "closed", "merged"}
  /\ merge \in [round : Nat, refused : BOOLEAN, asked : BOOLEAN]

\* A pull request, which an accepted `pr` has, has a head, and so has the branch here.
Opened ==
  /\ status["pr"] = "accepted" => pr # "none"
  /\ pr # "none" => local # 0 /\ remote # 0

\* What is being merged, and what is merged, the machine follows: nobody opens another beside it.
Followed == pr = "merged" \/ (job.at = "ship" /\ pr = "open") => status["pr"] = "accepted"

\* What a session works on is a commit, and a pinned head that is still the pull request's is green.
Pinned ==
  /\ job.at \in {"review", "ship"} => job.head \in 1..Len(line)
  /\ job.at = "review" => Len(rounds) < MaxRounds
  /\ job.at = "ship" => job.head <= remote /\ (job.head = remote => ci = "green")
  /\ pr = "merged" => ci = "green"

\* Round `r` passed commit `h`: its own or a clean rebase of it, and every finding a round up to it rated
\* high is fixed or answered by a person.
Passed(r, h, rs, ps, as) ==
  /\ r \in 1..Len(rs) /\ h \in 1..Len(ps) /\ rs[r].head \in 1..Len(ps)
  /\ rs[r].verdict = "pass" /\ ps[h] = ps[rs[r].head]
  /\ \A i \in 1..r : \A f \in DOMAIN rs[i].found : rs[i].found[f][2] = "high" =>
       /\ f \in DOMAIN rs[r].found
       /\ rs[r].found[f][1] = "fixed" \/ (rs[r].found[f][1] = "answered" /\ f \in as)

\* What is being merged, and what is merged, was passed by the round the merge names.
Reviewed ==
  /\ job.at = "ship" => Passed(merge.round, job.head, rounds, patch, answers)
  /\ pr = "merged" => Passed(merge.round, remote, rounds, patch, answers)

LoopInv ==
  /\ StatusTypes /\ BranchTypes /\ RoundTypes /\ SideTypes /\ JobTypes
  /\ Opened /\ Followed /\ Pinned /\ Reviewed

\* The stages that come before each.
LEMMA BeforeIs ==
  /\ L!Before("plan") = {} /\ L!Before("impl") = {"plan"} /\ L!Before("pr") = {"plan", "impl"}
  /\ L!Before("review") = {"plan", "impl", "pr"} /\ L!Before("ship") = {"plan", "impl", "pr", "review"}
<1>1. /\ L!Stages[1] = "plan" /\ L!Stages[2] = "impl" /\ L!Stages[3] = "pr"
      /\ L!Stages[4] = "review" /\ L!Stages[5] = "ship"
  BY DEF L!Stages
<1>2. ASSUME NEW s, NEW b
      PROVE  b \in L!Before(s) <=> \E j \in 1..5 : b = L!Stages[j] /\ \E k \in (j + 1)..5 : L!Stages[k] = s
  BY DEF L!Before
<1>3. \A b : b \notin L!Before("plan")  BY <1>1, <1>2
<1>4. \A b : b \in L!Before("impl") <=> b = "plan"  BY <1>1, <1>2
<1>5. \A b : b \in L!Before("pr") <=> b \in {"plan", "impl"}  BY <1>1, <1>2
<1>6. \A b : b \in L!Before("review") <=> b \in {"plan", "impl", "pr"}  BY <1>1, <1>2
<1>7. \A b : b \in L!Before("ship") <=> b \in {"plan", "impl", "pr", "review"}  BY <1>1, <1>2
<1> QED  BY <1>3, <1>4, <1>5, <1>6, <1>7

\* What a round passed stays passed: rounds and commits are only added, and answers are not taken back.
LEMMA PassedStays ==
  ASSUME NEW r, NEW h, NEW rs, NEW ps, NEW as, NEW rs2, NEW ps2, NEW as2,
         Passed(r, h, rs, ps, as), Len(rs) \in Nat, Len(ps) \in Nat,
         Len(rs) <= Len(rs2), Len(rs2) \in Nat, \A i \in 1..Len(rs) : rs2[i] = rs[i],
         Len(ps) <= Len(ps2), Len(ps2) \in Nat, \A i \in 1..Len(ps) : ps2[i] = ps[i],
         as \subseteq as2
  PROVE  Passed(r, h, rs2, ps2, as2)
<1>1. \A i \in 1..r : rs2[i] = rs[i]  BY DEF Passed
<1>2. r \in 1..Len(rs) /\ h \in 1..Len(ps) /\ rs[r].head \in 1..Len(ps)  BY DEF Passed
<1>3. ps2[h] = ps[h] /\ ps2[rs[r].head] = ps[rs[r].head] /\ rs2[r] = rs[r]  BY <1>2
<1>4. r \in 1..Len(rs2) /\ h \in 1..Len(ps2) /\ rs2[r].head \in 1..Len(ps2)  BY <1>2, <1>3
<1>5. rs2[r].verdict = "pass" /\ ps2[h] = ps2[rs2[r].head]  BY <1>3 DEF Passed
<1>6. ASSUME NEW i \in 1..r, NEW f \in DOMAIN rs2[i].found, rs2[i].found[f][2] = "high"
      PROVE  /\ f \in DOMAIN rs2[r].found
             /\ rs2[r].found[f][1] = "fixed" \/ (rs2[r].found[f][1] = "answered" /\ f \in as2)
  <2>1. rs2[i] = rs[i] /\ rs2[r] = rs[r]  BY <1>1, <1>3
  <2> QED  BY <1>6, <2>1 DEF Passed
<1> QED  BY <1>4, <1>5, <1>6 DEF Passed

\* A gate of ship that is open is over a round that passed the head of the pull request.
LEMMA ShipIsPassed ==
  ASSUME LoopInv, L!ShipGate = "open"
  PROVE  /\ pr = "open" /\ remote \in 1..Len(line)
         /\ Passed(Len(rounds), remote, rounds, patch, answers)
<1>1. /\ rounds # <<>> /\ L!PassStands /\ pr = "open"
      /\ \A ref \in {local, origin, remote} : ~L!Moved(L!Last.head, ref)
  BY DEF L!ShipGate, LoopInv, JobTypes
<1>2. /\ Len(line) \in Nat /\ Len(patch) = Len(line) /\ Len(rounds) \in Nat /\ remote \in 1..Len(line)
      /\ \A i \in 1..Len(rounds) : rounds[i] \in L!Round /\ rounds[i].head \in 1..Len(line)
  BY <1>1 DEF LoopInv, BranchTypes, RoundTypes, Opened
<1>3. Len(rounds) \in 1..Len(rounds)  BY <1>1, <1>2 DEF LoopInv, RoundTypes
<1> DEFINE n == Len(rounds)
<1>4. L!Last = rounds[n]  BY DEF L!Last
<1>5. rounds[n].verdict = "pass" /\ patch[remote] = patch[rounds[n].head]
  BY <1>1, <1>4 DEF L!PassStands, L!Moved
<1>6. /\ \A f \in DOMAIN rounds[n].found :
           \/ rounds[n].found[f][1] = "fixed" \/ (rounds[n].found[f][1] = "answered" /\ f \in answers)
           \/ rounds[n].found[f] = <<"open", "low">> /\ f \notin L!RatedHigher
      /\ \A i \in 1..(n - 1) : \A f \in DOMAIN rounds[i].found : f \in DOMAIN rounds[n].found
  <2>1. L!Open = {} /\ L!Demoted = {} /\ L!DroppedOf(n) = {}  BY <1>1 DEF L!PassStands
  <2>2. \A i \in 1..(n - 1) : \A f \in DOMAIN rounds[i].found : f \in DOMAIN rounds[n].found
    <3> TAKE i \in 1..(n - 1)
    <3> TAKE f \in DOMAIN rounds[i].found
    <3> DEFINE D == UNION {L!Listed(j) : j \in 1..(n - 1)}
    <3>1. f \in D  BY DEF L!Listed
    <3>2. L!DroppedOf(n) = D \ L!Listed(n)  BY DEF L!DroppedOf
    <3> HIDE DEF D
    <3>3. f \in L!Listed(n)  BY <2>1, <3>1, <3>2
    <3> QED  BY <3>3 DEF L!Listed
  <2>3. \A f \in DOMAIN rounds[n].found :
           \/ rounds[n].found[f][1] = "fixed" \/ (rounds[n].found[f][1] = "answered" /\ f \in answers)
           \/ f \in L!Low
    BY <2>1, <1>4 DEF L!Open, L!Label, L!AnsweredBy
  <2>4. \A f \in L!Low : rounds[n].found[f] = <<"open", "low">> /\ f \notin L!RatedHigher
    BY <2>1, <1>4 DEF L!Demoted, L!Low
  <2> QED  BY <2>2, <2>3, <2>4
<1>7. \A i \in 1..n : \A f \in DOMAIN rounds[i].found : rounds[i].found[f][2] = "high" =>
        /\ f \in DOMAIN rounds[n].found
        /\ rounds[n].found[f][1] = "fixed" \/ (rounds[n].found[f][1] = "answered" /\ f \in answers)
  <2> SUFFICES ASSUME NEW i \in 1..n, NEW f \in DOMAIN rounds[i].found, rounds[i].found[f][2] = "high"
               PROVE  /\ f \in DOMAIN rounds[n].found
                      /\ rounds[n].found[f][1] = "fixed" \/ (rounds[n].found[f][1] = "answered" /\ f \in answers)
    OBVIOUS
  <2>1. CASE i = n  BY <1>6, <2>1
  <2>2. CASE i # n
    <3>1. i \in 1..(n - 1)  BY <1>2, <2>2
    <3>2. rounds[i] \in L!Round  BY <1>2
    <3>3. f \in Findings
      <4>1. rounds[i].found \in UNION {[d -> Marks] : d \in SUBSET Findings}  BY <3>2 DEF L!Round
      <4> QED  BY <4>1
    <3>4. f \in L!RatedHigher  BY <3>1, <3>3 DEF L!RatedHigher, L!Listed
    <3> QED  BY <1>6, <3>1, <3>4
  <2> QED  BY <2>1, <2>2
<1> QED  BY <1>1, <1>2, <1>3, <1>5, <1>7 DEF Passed

\* The branch and the rounds only grow.
Added(old, new) == Len(old) <= Len(new) /\ \A i \in 1..Len(old) : new[i] = old[i]
AppendsTo(l, p) == /\ Len(line) < MaxCommits /\ line' = Append(line, l) /\ patch' = Append(patch, p)

\* Commits are made on a line and for a patch there is.
LEMMA LineMoves ==
  ASSUME LoopInv, L!Next
  PROVE  UNCHANGED <<line, patch>> \/ \E l \in Nat, p \in Patches : AppendsTo(l, p)
<1>1. /\ line \in Seq(Nat) /\ patch \in Seq(Patches) /\ Len(line) \in Nat /\ Len(patch) = Len(line)
      /\ local \in 0..Len(line) /\ remote \in 0..Len(line)
      /\ \A i \in 1..Len(line) : line[i] \in Nat /\ patch[i] \in Patches
  BY DEF LoopInv, BranchTypes
<1>2. CASE L!Impl
  <2>1. (IF remote = 0 THEN 1 ELSE line[remote]) \in Nat  BY <1>1
  <2> QED  BY <1>2, <2>1 DEF L!Impl, L!branch, L!Commit, AppendsTo
<1>3. CASE L!Integrate
  <2>1. local \in 1..Len(line)  BY <1>1, <1>3 DEF L!Integrate, LoopInv, Opened
  <2>2. Len(line) + 2 \in Nat /\ {patch[local]} \cup Patches \subseteq Patches  BY <1>1, <2>1
  <2> QED  BY <1>3, <2>2 DEF L!Integrate, L!Commit, AppendsTo
<1>4. CASE L!PushElsewhere
  <2>1. remote \in 1..Len(line)  BY <1>1, <1>4 DEF L!PushElsewhere, LoopInv, Opened
  <2> QED  BY <1>1, <1>4, <2>1 DEF L!PushElsewhere, L!Commit, AppendsTo
<1> QED
  BY <1>2, <1>3, <1>4 DEF L!Next, L!Plan, L!OpenPr, L!RerunPlan, L!StartReview, L!EndReview, L!FailReview,
    L!StartShip,
    L!Merge, L!EndShip, L!RecordShip, L!ChecksEnd, L!TrunkMoves, L!Fetch, L!PushLocal, L!Answer, L!GrantRound,
    L!MoveHold, L!DependencyMerges, L!RerunPr, L!Close, L!ReadClosed, L!Reopen, L!branch

\* The types of the branch.
LEMMA BranchStays ==
  ASSUME LoopInv, L!Next
  PROVE  BranchTypes' /\ Len(line) \in Nat /\ Len(line') \in Nat /\ Added(line, line') /\ Added(patch, patch')
<1>1. BranchTypes  BY DEF LoopInv
<1>2. /\ line' \in Seq(Nat) /\ patch' \in Seq(Patches) /\ Len(patch') = Len(line') /\ Len(line') <= MaxCommits
      /\ Added(line, line') /\ Added(patch, patch') /\ Len(line') \in Nat /\ Len(line) \in Nat
      /\ line' = line \/ Len(line') = Len(line) + 1
  <2>1. CASE UNCHANGED <<line, patch>>  BY <1>1, <2>1 DEF BranchTypes, Added
  <2>2. ASSUME NEW l \in Nat, NEW p \in Patches, AppendsTo(l, p)
        PROVE  /\ line' \in Seq(Nat) /\ patch' \in Seq(Patches) /\ Len(patch') = Len(line') /\ Len(line') <= MaxCommits
               /\ Added(line, line') /\ Added(patch, patch') /\ Len(line') \in Nat /\ Len(line) \in Nat
               /\ Len(line') = Len(line) + 1
    <3>1. /\ line \in Seq(Nat) /\ patch \in Seq(Patches) /\ Len(patch) = Len(line)
          /\ line' = Append(line, l) /\ patch' = Append(patch, p) /\ Len(line) < MaxCommits
      BY <1>1, <2>2 DEF BranchTypes, AppendsTo
    <3>2. MaxCommits \in Nat  BY PartsAssumption DEF L!LoopConstants
    <3> QED  BY <3>1, <3>2 DEF Added
  <2> QED  BY <2>1, <2>2, LineMoves
<1>3. {local', remote', origin'} \subseteq {local, remote, origin} \cup {Len(line) + 1}
      /\ ({local', remote', origin'} \subseteq {local, remote, origin} \/ Len(line') = Len(line) + 1)
  <2>1. CASE UNCHANGED <<local, remote, origin>>  BY <2>1
  <2>2. CASE L!Impl
    <3>1. CASE L!branch' = L!branch  BY <3>1 DEF L!branch
    <3>2. CASE /\ local' = Len(line) + 1
               /\ UNCHANGED <<remote, origin, ci>> \/ L!Pushed(Len(line) + 1)
               /\ Len(line') = Len(line) + 1
      BY <3>2 DEF L!Pushed
    <3>3. ASSUME NEW l, NEW p, L!Commit(l, p) PROVE Len(line') = Len(line) + 1
      BY <1>1, <3>3 DEF L!Commit, BranchTypes
    <3> QED  BY <2>2, <3>1, <3>2, <3>3 DEF L!Impl
  <2>3. CASE L!Integrate
    BY <1>1, <2>3 DEF L!Integrate, L!Commit, L!Pushed, BranchTypes
  <2>4. CASE L!PushElsewhere
    BY <1>1, <2>4 DEF L!PushElsewhere, L!Commit, BranchTypes
  <2>5. CASE L!OpenPr \/ L!Fetch \/ L!PushLocal
    BY <2>5 DEF L!OpenPr, L!Fetch, L!PushLocal, L!Pushed
  <2> QED
    BY <2>1, <2>2, <2>3, <2>4, <2>5 DEF L!Next, L!Plan, L!RerunPlan, L!StartReview, L!EndReview, L!FailReview,
      L!StartShip,
      L!Merge, L!EndShip, L!RecordShip, L!ChecksEnd, L!TrunkMoves, L!Answer, L!GrantRound,
      L!MoveHold, L!DependencyMerges, L!RerunPr, L!Close, L!ReadClosed, L!Reopen, L!branch
<1>4. ci' \in CiStates
  <2>1. CASE L!ChecksEnd  BY <2>1 DEF L!ChecksEnd, CiStates
  <2> QED
    BY <1>1, <2>1 DEF BranchTypes, CiStates, L!Next, L!Plan, L!Impl, L!OpenPr, L!Integrate, L!PushElsewhere,
      L!PushLocal, L!Fetch, L!Pushed,
      L!RerunPlan, L!StartReview, L!EndReview, L!FailReview, L!StartShip,
      L!Merge, L!EndShip, L!RecordShip, L!TrunkMoves, L!Answer, L!GrantRound,
      L!MoveHold, L!DependencyMerges, L!RerunPr, L!Close, L!ReadClosed, L!Reopen, L!branch
<1>5. {local', remote', origin'} \subseteq 0..Len(line')
  <2>1. {local, remote, origin} \subseteq 0..Len(line) /\ Len(line) <= Len(line')
    BY <1>1, <1>2 DEF BranchTypes, Added
  <2>2. {local, remote, origin} \subseteq 0..Len(line')  BY <1>2, <2>1
  <2> QED  BY <1>2, <1>3, <2>2
<1> QED  BY <1>2, <1>4, <1>5 DEF BranchTypes

\* The types of the rounds.
LEMMA RoundsStay ==
  ASSUME LoopInv, L!Next
  PROVE  /\ RoundTypes' /\ Added(rounds, rounds') /\ Len(rounds) \in Nat /\ Len(rounds') \in Nat
         /\ answers \subseteq answers'
<1>1. /\ RoundTypes /\ Len(rounds) \in Nat /\ Len(line) \in Nat /\ Len(line') \in Nat /\ Len(line) <= Len(line')
      /\ Len(line) <= MaxCommits
  BY BranchStays DEF LoopInv, RoundTypes, Added, BranchTypes
<1>2. ASSUME rounds' = rounds PROVE RoundTypes' /\ Added(rounds, rounds') /\ Len(rounds') \in Nat
  <2>1. 1..Len(line) \subseteq 1..Len(line')  BY <1>1
  <2>2. \A i \in 1..Len(rounds) : rounds'[i].head \in 1..Len(line')  BY <1>1, <1>2, <2>1 DEF RoundTypes
  <2>3. RoundTypes'
    <3>1. rounds' \in Seq(L!Round) /\ Len(rounds') <= MaxRounds /\ Len(rounds') = Len(rounds)
      BY <1>1, <1>2 DEF RoundTypes
    <3> QED  BY <2>2, <3>1 DEF RoundTypes
  <2>4. Added(rounds, rounds')  BY <1>1, <1>2 DEF Added
  <2> QED  BY <1>1, <1>2, <2>3, <2>4
<1>3. ASSUME NEW v \in {"pass", "changes-requested", "needs-person"}, L!EndReview(v)
      PROVE  RoundTypes' /\ Added(rounds, rounds') /\ Len(rounds') \in Nat
  <2>1. job.head \in 1..Len(line)  BY <1>3 DEF L!EndReview, LoopInv, Pinned
  <2>0. PICK listed \in SUBSET Findings, screens \in BOOLEAN : \E found \in [listed -> Marks] :
          rounds' = Append(rounds, [head |-> job.head, verdict |-> v, found |-> found, screens |-> screens])
    BY <1>3 DEF L!EndReview
  <2>2. PICK found \in [listed -> Marks] :
          rounds' = Append(rounds, [head |-> job.head, verdict |-> v, found |-> found, screens |-> screens])
    BY <2>0
  <2> DEFINE r == [head |-> job.head, verdict |-> v, found |-> found, screens |-> screens]
  <2>3. found \in UNION {[d -> Marks] : d \in SUBSET Findings}
    <3>1. [listed -> Marks] \in {[d -> Marks] : d \in SUBSET Findings}  OBVIOUS
    <3> QED  BY <2>2, <3>1
  <2>4. job.head \in 1..MaxCommits
    <3>1. MaxCommits \in Nat  BY PartsAssumption DEF L!LoopConstants
    <3> QED  BY <1>1, <2>1, <3>1
  <2>5. v \in DOMAIN L!RoundStates  BY DEF L!RoundStates
  <2>6. r \in L!Round /\ r.head = job.head
    BY <2>2, <2>3, <2>4, <2>5 DEF L!Round
  <2> HIDE DEF r
  <2>7. /\ rounds' \in Seq(L!Round) /\ Len(rounds') = Len(rounds) + 1 /\ rounds'[Len(rounds) + 1] = r
        /\ \A i \in 1..Len(rounds) : rounds'[i] = rounds[i]
    <3>1. rounds' = Append(rounds, r)  BY <2>2 DEF r
    <3>2. rounds \in Seq(L!Round)  BY <1>1 DEF RoundTypes
    <3> QED  BY <2>6, <3>1, <3>2
  <2>8. \A i \in 1..Len(rounds') : rounds'[i].head \in 1..Len(line')
    <3>1. \A i \in 1..Len(rounds') : i \in 1..Len(rounds) \/ i = Len(rounds) + 1  BY <1>1, <2>7
    <3>2. 1..Len(line) \subseteq 1..Len(line')  BY <1>1
    <3> QED  BY <1>1, <2>1, <2>6, <2>7, <3>1, <3>2 DEF RoundTypes
  <2>9. Len(rounds') <= MaxRounds
    <3>1. Len(rounds) < MaxRounds  BY <1>3 DEF L!EndReview, LoopInv, Pinned
    <3>2. MaxRounds \in Nat  BY PartsAssumption DEF L!LoopConstants
    <3> QED  BY <1>1, <2>7, <3>1, <3>2
  <2> QED  BY <1>1, <2>7, <2>8, <2>9 DEF RoundTypes, Added
<1>4. rounds' = rounds \/ \E v \in {"pass", "changes-requested", "needs-person"} : L!EndReview(v)
  BY DEF L!Next, L!RoundStates, L!Plan, L!Impl, L!OpenPr, L!Integrate, L!PushElsewhere, L!PushLocal, L!Fetch,
      L!RerunPlan, L!StartReview, L!FailReview, L!StartShip, L!ChecksEnd,
      L!Merge, L!EndShip, L!RecordShip, L!TrunkMoves, L!Answer, L!GrantRound,
      L!MoveHold, L!DependencyMerges, L!RerunPr, L!Close, L!ReadClosed, L!Reopen, L!review
<1>5. answers \subseteq answers'
  BY DEF L!Next, L!Plan, L!Impl, L!OpenPr, L!Integrate, L!PushElsewhere, L!PushLocal, L!Fetch,
      L!RerunPlan, L!StartReview, L!EndReview, L!FailReview, L!StartShip, L!ChecksEnd,
      L!Merge, L!EndShip, L!RecordShip, L!TrunkMoves, L!Answer, L!GrantRound,
      L!MoveHold, L!DependencyMerges, L!RerunPr, L!Close, L!ReadClosed, L!Reopen, L!review
<1> QED  BY <1>1, <1>2, <1>3, <1>4, <1>5

\* The types of what the owner and the sessions leave beside them.
LEMMA SidesStay ==
  ASSUME LoopInv, L!Next
  PROVE  StatusTypes' /\ SideTypes' /\ JobTypes'
<1>1. StatusTypes /\ SideTypes /\ JobTypes  BY DEF LoopInv
<1>2. StatusTypes'
  <2>1. CASE status' = status  BY <1>1, <2>1 DEF StatusTypes
  <2>2. ASSUME NEW s \in Gated, NEW to \in {"none", "draft", "accepted", "changes-requested"},
               to = "changes-requested" => s = "review", status' = [status EXCEPT ![s] = to]
        PROVE  StatusTypes'
    BY <1>1, <2>2 DEF StatusTypes
  <2>3. CASE L!Plan \/ L!Impl \/ L!OpenPr \/ L!RerunPlan \/ L!ReadClosed
    BY <2>1, <2>2, <2>3 DEF L!Plan, L!Impl, L!OpenPr, L!RerunPlan, L!ReadClosed, Gated
  <2>4. ASSUME NEW v \in DOMAIN L!RoundStates, L!EndReview(v) PROVE StatusTypes'
    <3>1. L!RoundStates[v] \in {"none", "draft", "accepted", "changes-requested"}  BY DEF L!RoundStates
    <3> QED  BY <2>2, <2>4, <3>1 DEF L!EndReview, Gated
  <2>5. CASE L!FailReview  BY <2>1, <2>2, <2>5 DEF L!FailReview, Gated
  <2> QED
    BY <2>1, <2>3, <2>4, <2>5 DEF L!Next, L!Integrate, L!PushElsewhere, L!PushLocal, L!Fetch,
      L!StartReview, L!StartShip, L!ChecksEnd, L!Merge, L!EndShip, L!RecordShip, L!TrunkMoves, L!Answer, L!GrantRound,
      L!MoveHold, L!DependencyMerges, L!RerunPr, L!Close, L!ReadClosed, L!Reopen
<1>3. stale' \subseteq Gated
  <2>1. stale \subseteq Gated  BY <1>1 DEF SideTypes
  <2>2. DOMAIN status = Gated /\ {"plan", "pr", "review"} \subseteq Gated  BY <1>1 DEF StatusTypes, Gated
  <2>3. CASE L!RerunPlan
    <3> DEFINE later == {s \in (DOMAIN status) \ {"plan"} : status[s] # "none"}
    <3>1. later \subseteq Gated  BY <2>2
    <3>2. stale' \in {stale \cup later, stale \cup later \cup {"plan"}}  BY <2>3 DEF L!RerunPlan
    <3> QED  BY <2>1, <2>2, <3>1, <3>2
  <2> QED
    BY <2>1, <2>2, <2>3 DEF L!Next, L!Plan, L!Impl, L!OpenPr, L!Unstale, L!Integrate, L!PushElsewhere, L!PushLocal,
      L!Fetch,
      L!StartReview, L!EndReview, L!FailReview, L!StartShip, L!ChecksEnd, L!Merge, L!EndShip, L!RecordShip,
      L!TrunkMoves, L!Answer,
      L!GrantRound, L!MoveHold, L!DependencyMerges, L!RerunPr, L!Close, L!ReadClosed, L!Reopen
<1>4. waiting' \in BOOLEAN /\ hold' \in {"active", "paused", "dropped"}
  <2>1. hold' = hold \/ (hold' \in L!HoldMoves[hold] /\ hold \in {"active", "paused", "dropped"})
    BY <1>1 DEF SideTypes, L!Next, L!Plan, L!Impl, L!OpenPr, L!RerunPlan, L!Integrate, L!PushElsewhere, L!PushLocal,
      L!Fetch,
      L!StartReview, L!EndReview, L!FailReview, L!StartShip, L!ChecksEnd, L!Merge, L!EndShip, L!RecordShip,
      L!TrunkMoves, L!Answer,
      L!GrantRound, L!MoveHold, L!DependencyMerges, L!RerunPr, L!Close, L!ReadClosed, L!Reopen
  <2>2. waiting' = waiting \/ waiting' = FALSE
    BY DEF L!Next, L!Plan, L!Impl, L!OpenPr, L!RerunPlan, L!Integrate, L!PushElsewhere, L!PushLocal, L!Fetch,
      L!StartReview, L!EndReview, L!FailReview, L!StartShip, L!ChecksEnd, L!Merge, L!EndShip, L!RecordShip,
      L!TrunkMoves, L!Answer,
      L!GrantRound, L!MoveHold, L!DependencyMerges, L!RerunPr, L!Close, L!ReadClosed, L!Reopen
  <2>3. hold' \in {"active", "paused", "dropped"}  BY <1>1, <2>1 DEF SideTypes, L!HoldMoves
  <2> QED  BY <1>1, <2>2, <2>3 DEF SideTypes
<1>5. claims' \subseteq Findings /\ answers' \subseteq Findings
  <2>1. \A i \in 1..Len(rounds) : DOMAIN rounds[i].found \subseteq Findings
    <3> TAKE i \in 1..Len(rounds)
    <3>1. rounds[i] \in L!Round  BY DEF LoopInv, RoundTypes
    <3>2. rounds[i].found \in UNION {[d -> Marks] : d \in SUBSET Findings}  BY <3>1 DEF L!Round
    <3> QED  BY <3>2
  <2>2. rounds # <<>> => DOMAIN L!Last.found \subseteq Findings
    <3>1. rounds # <<>> => Len(rounds) \in 1..Len(rounds)  BY DEF LoopInv, RoundTypes
    <3> QED  BY <2>1, <3>1 DEF L!Last
  <2>3. CASE L!Impl
    <3> DEFINE open == IF rounds = <<>> THEN {} ELSE {f \in DOMAIN L!Last.found : L!Label(f) = "open"}
    <3>1. open \subseteq Findings  BY <2>2
    <3>2. claims' \in SUBSET open /\ answers' = answers  BY <2>3 DEF L!Impl
    <3> HIDE DEF open
    <3> QED  BY <1>1, <3>1, <3>2 DEF SideTypes
  <2>4. CASE L!Answer
    <3>1. L!PersonFindings \subseteq Findings  BY <2>2 DEF L!PersonFindings
    <3> QED  BY <1>1, <2>4, <3>1 DEF L!Answer, SideTypes
  <2> QED
    BY <1>1, <2>3, <2>4 DEF SideTypes, L!review, L!Next, L!Plan, L!OpenPr, L!RerunPlan, L!Integrate,
      L!PushElsewhere, L!PushLocal, L!Fetch,
      L!StartReview, L!EndReview, L!FailReview, L!StartShip, L!ChecksEnd, L!Merge, L!EndShip, L!RecordShip,
      L!TrunkMoves,
      L!GrantRound, L!MoveHold, L!DependencyMerges, L!RerunPr, L!Close, L!ReadClosed, L!Reopen
<1>6. granted' \in Nat /\ moves' \in Nat /\ granted' <= moves' /\ moves' <= MaxMoves
  <2>1. \/ UNCHANGED <<granted, moves>>
        \/ L!Moving /\ granted' \in {granted, granted + 1}
    BY DEF L!review, L!Next, L!Plan, L!Impl, L!OpenPr, L!RerunPlan, L!Integrate, L!PushElsewhere, L!PushLocal,
      L!Fetch,
      L!StartReview, L!EndReview, L!FailReview, L!StartShip, L!ChecksEnd, L!Merge, L!EndShip, L!RecordShip,
      L!TrunkMoves, L!Answer,
      L!GrantRound, L!MoveHold, L!DependencyMerges, L!RerunPr, L!Close, L!ReadClosed, L!Reopen
  <2>2. MaxMoves \in Nat  BY PartsAssumption DEF L!LoopConstants
  <2>3. granted \in Nat /\ moves \in Nat /\ granted <= moves /\ moves <= MaxMoves  BY <1>1 DEF SideTypes
  <2> QED  BY <2>1, <2>2, <2>3 DEF L!Moving, L!Room
<1>7. JobTypes'
  <2>1. pr' \in {pr, "open", "closed", "merged"}
    BY DEF L!Next, L!Plan, L!Impl, L!OpenPr, L!RerunPlan, L!Integrate, L!PushElsewhere, L!PushLocal, L!Fetch,
      L!github,
      L!StartReview, L!EndReview, L!FailReview, L!StartShip, L!ChecksEnd, L!Merge, L!EndShip, L!RecordShip,
      L!TrunkMoves, L!Answer,
      L!GrantRound, L!MoveHold, L!DependencyMerges, L!RerunPr, L!Close, L!ReadClosed, L!Reopen
  <2>2. Len(rounds) \in Nat  BY DEF LoopInv, RoundTypes
  <2>3. \/ merge' = merge \/ merge' = [round |-> Len(rounds), refused |-> FALSE, asked |-> TRUE]
        \/ merge' = [merge EXCEPT !.refused = TRUE] \/ merge' = [merge EXCEPT !.asked = FALSE]
    BY DEF L!Next, L!Plan, L!Impl, L!OpenPr, L!RerunPlan, L!Integrate, L!PushElsewhere, L!PushLocal, L!Fetch,
      L!github,
      L!StartReview, L!EndReview, L!FailReview, L!StartShip, L!ChecksEnd, L!Merge, L!EndShip, L!RecordShip,
      L!TrunkMoves, L!Answer,
      L!GrantRound, L!MoveHold, L!DependencyMerges, L!RerunPr, L!Close, L!ReadClosed, L!Reopen
  <2>4. job' \in {job, L!NoJob, [at |-> "review", head |-> local], [at |-> "ship", head |-> remote]}
    BY DEF L!Next, L!Plan, L!Impl, L!OpenPr, L!RerunPlan, L!Integrate, L!PushElsewhere, L!PushLocal, L!Fetch,
      L!github,
      L!StartReview, L!EndReview, L!FailReview, L!StartShip, L!ChecksEnd, L!Merge, L!EndShip, L!RecordShip,
      L!TrunkMoves, L!Answer,
      L!GrantRound, L!MoveHold, L!DependencyMerges, L!RerunPr, L!Close, L!ReadClosed, L!Reopen
  <2>5. local \in Nat /\ remote \in Nat  BY DEF LoopInv, BranchTypes
  <2>6. job' \in [at : {"idle", "review", "ship"}, head : Nat]  BY <1>1, <2>4, <2>5 DEF L!NoJob, JobTypes
  <2>7. merge' \in [round : Nat, refused : BOOLEAN, asked : BOOLEAN]
    <3>1. merge \in [round : Nat, refused : BOOLEAN, asked : BOOLEAN]  BY <1>1 DEF JobTypes
    <3>2. CASE merge' = [round |-> Len(rounds), refused |-> FALSE, asked |-> TRUE]  BY <2>2, <3>2
    <3>3. CASE merge' = [merge EXCEPT !.refused = TRUE]  BY <3>1, <3>3
    <3>4. CASE merge' = [merge EXCEPT !.asked = FALSE]  BY <3>1, <3>4
    <3> QED  BY <2>3, <3>1, <3>2, <3>3, <3>4
  <2> QED  BY <1>1, <2>1, <2>6, <2>7 DEF JobTypes
<1> QED  BY <1>2, <1>3, <1>4, <1>5, <1>6, <1>7 DEF SideTypes

\* Where the heads go: nobody here moves them while a merge is made, and GitHub's only goes on.
LEMMA HeadsMove ==
  ASSUME LoopInv, L!Next
  PROVE  /\ pr # "none" => local' # 0 /\ remote' # 0
         /\ (pr = "none" /\ pr' # "none") => local' # 0 /\ remote' # 0
         /\ pr = "merged" => remote' = remote /\ ci' = ci /\ pr' = "merged"
         /\ pr # "merged" /\ pr' = "merged" =>
              job.at = "ship" /\ remote = job.head /\ UNCHANGED <<remote, ci, job, merge>>
         /\ job.at = "ship" =>
              \/ remote' = remote /\ ci' = ci
              \/ remote' = remote /\ ci # "green"
              \/ remote' > remote
<1>1. /\ local \in 0..Len(line) /\ remote \in 0..Len(line) /\ Len(line) \in Nat
      /\ pr # "none" => local # 0 /\ remote # 0
      /\ pr \in {"none", "open", "closed", "merged"}
  BY BranchStays DEF LoopInv, BranchTypes, Opened, JobTypes
<1> DEFINE Goal ==
         /\ pr # "none" => local' # 0 /\ remote' # 0
         /\ (pr = "none" /\ pr' # "none") => local' # 0 /\ remote' # 0
         /\ pr = "merged" => remote' = remote /\ ci' = ci /\ pr' = "merged"
         /\ pr # "merged" /\ pr' = "merged" =>
              job.at = "ship" /\ remote = job.head /\ UNCHANGED <<remote, ci, job, merge>>
         /\ job.at = "ship" =>
              \/ remote' = remote /\ ci' = ci
              \/ remote' = remote /\ ci # "green"
              \/ remote' > remote
<1>2. CASE UNCHANGED <<local, remote, ci, pr, merge>>  BY <1>1, <1>2
<1>3. CASE L!Impl
  <2>1. job.at # "ship" /\ UNCHANGED <<pr, merge>>  BY <1>3 DEF L!Impl, L!Quiet, L!github
  <2>2. /\ local' \in {local, Len(line) + 1} /\ remote' \in {remote, Len(line) + 1}
        /\ (pr # "open" => UNCHANGED <<remote, ci>>)
    BY <1>3 DEF L!Impl, L!branch, L!Pushed
  <2> QED  BY <1>1, <2>1, <2>2
<1>4. CASE L!OpenPr
  <2>1. job.at # "ship" /\ local' = local /\ pr # "merged" /\ pr' = "open" /\ local > 0
    BY <1>4 DEF L!OpenPr, L!Quiet, L!MayOpen, L!Settled, LoopInv, Followed
  <2>2. remote' = local
    BY <1>4 DEF L!OpenPr, L!Pushed
  <2> QED  BY <1>1, <2>1, <2>2
<1>5. CASE L!StartShip
  <2>1. pr = "open"  BY <1>5, ShipIsPassed DEF L!StartShip
  <2>2. job.at # "ship" /\ UNCHANGED <<local, remote, ci, pr>>  BY <1>5 DEF L!StartShip, L!Quiet, L!branch
  <2> QED  BY <1>1, <2>1, <2>2
<1>6. CASE L!Merge  BY <1>1, <1>6 DEF L!Merge, L!branch
<1>7. CASE L!EndShip  BY <1>1, <1>7 DEF L!EndShip, L!branch
<1>8. CASE L!Integrate
  <2>1. job.at # "ship" /\ pr = "open" /\ UNCHANGED <<pr, merge>> /\ local' = Len(line) + 1 /\ remote' = Len(line) + 1
    BY <1>8 DEF L!Integrate, L!Quiet, L!Pushed
  <2> QED  BY <1>1, <2>1
<1>9. CASE L!ChecksEnd
  <2>1. ci # "green" /\ pr = "open" /\ UNCHANGED <<local, remote, pr, merge>>  BY <1>9 DEF L!ChecksEnd, L!github
  <2> QED  BY <1>1, <2>1
<1>10. CASE L!PushElsewhere
  <2>1. pr = "open" /\ UNCHANGED <<local, pr, merge>> /\ remote' = Len(line) + 1
    BY <1>10 DEF L!PushElsewhere, L!github
  <2> QED  BY <1>1, <2>1
<1>11. CASE L!PushLocal
  <2>1. pr = "open" /\ UNCHANGED <<local, pr, merge>> /\ remote' = local /\ remote # local /\ remote <= local
    BY <1>11 DEF L!PushLocal, L!github, L!Pushed, L!Ancestor
  <2> QED  BY <1>1, <2>1
<1>12. CASE UNCHANGED <<local, remote, ci>> /\ UNCHANGED <<pr, merge>>  BY <1>2, <1>12
<1>14. CASE L!Close \/ L!Reopen
  <2>1. UNCHANGED <<local, remote, ci>> /\ pr \in {"open", "closed"} /\ pr' \in {"open", "closed"}
    BY <1>14 DEF L!Close, L!Reopen, L!branch
  <2> QED  BY <1>1, <2>1
<1>13. L!RerunPr \/ L!ReadClosed \/ L!Plan \/ L!RerunPlan \/ L!StartReview
       \/ (\E v \in DOMAIN L!RoundStates : L!EndReview(v)) \/ L!FailReview
       \/ L!RecordShip \/ L!TrunkMoves \/ L!Fetch \/ L!Answer \/ L!GrantRound \/ L!MoveHold \/ L!DependencyMerges
       => UNCHANGED <<local, remote, ci>> /\ UNCHANGED <<pr, merge>>
  BY DEF L!Plan, L!RerunPlan, L!StartReview, L!EndReview, L!FailReview, L!RecordShip, L!TrunkMoves, L!Fetch, L!Answer,
    L!GrantRound, L!MoveHold, L!DependencyMerges, L!RerunPr, L!Close, L!ReadClosed, L!Reopen, L!branch, L!github
<1> QED
  BY <1>3, <1>4, <1>5, <1>6, <1>7, <1>8, <1>9, <1>10, <1>11, <1>12, <1>13, <1>14 DEF L!Next

\* What a session works on.
LEMMA JobMoves ==
  ASSUME LoopInv, L!Next
  PROVE  \/ job' = job \/ job' = L!NoJob
         \/ L!StartReview \/ L!StartShip
BY DEF L!Next, L!Plan, L!Impl, L!OpenPr, L!RerunPlan, L!Integrate, L!PushElsewhere, L!PushLocal, L!Fetch,
      L!EndReview, L!FailReview, L!ChecksEnd, L!Merge, L!EndShip, L!RecordShip, L!TrunkMoves, L!Answer,
      L!GrantRound, L!MoveHold, L!DependencyMerges, L!RerunPr, L!Close, L!ReadClosed, L!Reopen

\* A pull request and its session stay sound.
LEMMA PullStays ==
  ASSUME LoopInv, L!Next
  PROVE  Opened' /\ Followed' /\ Pinned' /\ Reviewed'
<1>1. /\ BranchTypes /\ JobTypes /\ Opened /\ Followed /\ Pinned /\ Reviewed /\ Len(line) \in Nat /\ Len(line') \in Nat
      /\ Len(line) <= Len(line') /\ local \in Nat /\ remote \in Nat /\ remote' \in Nat /\ Len(patch) = Len(line)
      /\ remote <= Len(line) /\ Len(patch') = Len(line')
  BY BranchStays DEF LoopInv, Added, BranchTypes
<1>2. Opened'
  <2>1. pr' # "none" => local' # 0 /\ remote' # 0  BY HeadsMove
  <2>2. status'["pr"] = "accepted" => pr' # "none"
    <3>1. CASE L!OpenPr  BY <3>1 DEF L!OpenPr
    <3>2. ~L!OpenPr => status'["pr"] \in {status["pr"], "draft"}
      <4>0. status \in [Gated -> {"none", "draft", "accepted", "changes-requested"}]  BY DEF LoopInv, StatusTypes
      <4> QED
        BY <4>0 DEF Gated, L!Next, L!Plan, L!Impl, L!RerunPlan, L!Integrate, L!PushElsewhere, L!PushLocal, L!Fetch,
          L!StartReview, L!EndReview, L!FailReview, L!StartShip, L!ChecksEnd, L!Merge, L!EndShip, L!RecordShip,
          L!TrunkMoves,
          L!Answer, L!GrantRound, L!MoveHold, L!DependencyMerges, L!RerunPr, L!Close, L!ReadClosed, L!Reopen
    <3>3. pr # "none" => pr' # "none"
      BY DEF L!github, L!Next, L!Plan, L!Impl, L!OpenPr, L!RerunPlan, L!Integrate, L!PushElsewhere, L!PushLocal,
        L!Fetch,
          L!StartReview, L!EndReview, L!FailReview, L!StartShip, L!ChecksEnd, L!Merge, L!EndShip, L!RecordShip,
          L!TrunkMoves,
          L!Answer, L!GrantRound, L!MoveHold, L!DependencyMerges, L!RerunPr, L!Close, L!ReadClosed, L!Reopen
    <3> QED  BY <1>1, <3>1, <3>2, <3>3 DEF Opened
  <2> QED  BY <2>1, <2>2 DEF Opened
<1>3. Pinned'
  <2>1. pr' = "merged" => ci' = "green"  BY <1>1, HeadsMove DEF Pinned
  <2>2. CASE job' = job
    <3>1. job.at \in {"review", "ship"} => job.head \in 1..Len(line')  BY <1>1 DEF Pinned
    <3>2. job.at = "ship" => job.head <= remote' /\ (job.head = remote' => ci' = "green")
      <4> SUFFICES ASSUME job.at = "ship" PROVE job.head <= remote' /\ (job.head = remote' => ci' = "green")
        OBVIOUS
      <4>1. job.head \in Nat /\ job.head <= remote /\ (job.head = remote => ci = "green")
        BY <1>1 DEF Pinned, JobTypes
      <4>2. (remote' = remote /\ ci' = ci) \/ remote' > remote \/ (remote' = remote /\ ci # "green")  BY HeadsMove
      <4> QED  BY <1>1, <4>1, <4>2
    <3>3. job.at = "review" => Len(rounds') < MaxRounds
      <4>1. job.at = "review" => rounds' = rounds
        <5>1. ASSUME NEW v \in DOMAIN L!RoundStates, L!EndReview(v) PROVE job.at # "review"
          BY <2>2, <5>1 DEF L!EndReview, L!NoJob
        <5> QED
          BY <5>1 DEF L!review, L!Next, L!Plan, L!Impl, L!OpenPr, L!RerunPlan, L!Integrate, L!PushElsewhere,
            L!PushLocal, L!Fetch,
          L!StartReview, L!FailReview, L!StartShip, L!ChecksEnd, L!Merge, L!EndShip, L!RecordShip, L!TrunkMoves,
          L!Answer, L!GrantRound, L!MoveHold, L!DependencyMerges, L!RerunPr, L!Close, L!ReadClosed, L!Reopen
      <4> QED  BY <1>1, <4>1 DEF Pinned
    <3> QED  BY <2>1, <2>2, <3>1, <3>2, <3>3 DEF Pinned
  <2>3. CASE job' = L!NoJob  BY <2>1, <2>3 DEF Pinned, L!NoJob
  <2>4. CASE L!StartReview
    <3>1. pr # "none" /\ Len(rounds) < MaxRounds
      BY <2>4 DEF L!StartReview, L!ReviewGate
    <3>2. local \in 1..Len(line)  BY <1>1, <3>1 DEF Opened, BranchTypes
    <3>3. job' = [at |-> "review", head |-> local] /\ rounds' = rounds /\ line' = line
      BY <2>4 DEF L!StartReview, L!review, L!branch
    <3> QED  BY <2>1, <3>1, <3>2, <3>3 DEF Pinned
  <2>5. CASE L!StartShip
    <3>1. remote \in 1..Len(line) /\ ci = "green"  BY <2>5, ShipIsPassed DEF L!StartShip
    <3>2. job' = [at |-> "ship", head |-> remote] /\ remote' = remote /\ ci' = ci /\ line' = line
      BY <2>5 DEF L!StartShip, L!branch
    <3> QED  BY <1>1, <2>1, <3>1, <3>2 DEF Pinned
  <2> QED  BY <2>2, <2>3, <2>4, <2>5, JobMoves
<1>4. Reviewed'
  <2>1. ASSUME NEW r, NEW h, Passed(r, h, rounds, patch, answers) PROVE Passed(r, h, rounds', patch', answers')
    <3>1. Added(rounds, rounds') /\ Len(rounds) \in Nat /\ Len(rounds') \in Nat /\ answers \subseteq answers'
      BY RoundsStay
    <3>2. Added(patch, patch') /\ Len(patch) \in Nat /\ Len(patch') \in Nat  BY <1>1, BranchStays
    <3> QED  BY <2>1, <3>1, <3>2, PassedStays DEF Added
  <2>2. job.at = "ship" => Passed(merge.round, job.head, rounds', patch', answers')  BY <1>1, <2>1 DEF Reviewed
  <2>3. pr = "merged" => Passed(merge.round, remote, rounds', patch', answers')  BY <1>1, <2>1 DEF Reviewed
  <2>4. merge'.round = merge.round \/ L!StartShip
    <3>1. /\ merge.round = [merge EXCEPT !.refused = TRUE].round
          /\ merge.round = [merge EXCEPT !.asked = FALSE].round
      BY <1>1 DEF JobTypes
    <3> QED
      BY <3>1 DEF L!github, L!Next, L!Plan, L!Impl, L!OpenPr, L!RerunPlan, L!Integrate, L!PushElsewhere,
        L!PushLocal, L!Fetch,
          L!StartReview, L!EndReview, L!FailReview, L!ChecksEnd, L!Merge, L!EndShip, L!RecordShip, L!TrunkMoves,
          L!Answer, L!GrantRound, L!MoveHold, L!DependencyMerges, L!RerunPr, L!Close, L!ReadClosed, L!Reopen
  <2>5. CASE L!StartShip
    <3>1. pr = "open" /\ Passed(Len(rounds), remote, rounds, patch, answers)  BY <2>5, ShipIsPassed DEF L!StartShip
    <3>2. /\ job' = [at |-> "ship", head |-> remote] /\ UNCHANGED <<remote, pr, rounds, patch, answers>>
          /\ merge' = [round |-> Len(rounds), refused |-> FALSE, asked |-> TRUE]
      BY <2>5 DEF L!StartShip, L!branch, L!review
    <3> QED  BY <3>1, <3>2 DEF Reviewed
  <2>6. CASE ~L!StartShip
    <3>1. job'.at = "ship" => job' = job  BY <2>6, JobMoves DEF L!NoJob, L!StartReview
    <3>2. pr' = "merged" => \/ pr = "merged" /\ remote' = remote
                            \/ job.at = "ship" /\ remote = job.head /\ remote' = remote
      BY HeadsMove
    <3> QED  BY <2>2, <2>3, <2>4, <2>6, <3>1, <3>2 DEF Reviewed
  <2> QED  BY <2>5, <2>6
<1>5. Followed'
  <2>1. status["pr"] = "accepted" => status'["pr"] = "accepted" \/ pr = "closed"
    <3>1. status \in [Gated -> {"none", "draft", "accepted", "changes-requested"}]  BY DEF LoopInv, StatusTypes
    <3>2. CASE L!ReadClosed  BY <3>2 DEF L!ReadClosed
    <3> QED
      BY <3>1, <3>2 DEF Gated, L!Next, L!Plan, L!Impl, L!OpenPr, L!RerunPlan, L!Integrate, L!PushElsewhere,
        L!PushLocal, L!Fetch, L!StartReview, L!EndReview, L!FailReview, L!StartShip, L!ChecksEnd, L!Merge, L!EndShip,
        L!RecordShip, L!TrunkMoves, L!Answer, L!GrantRound, L!MoveHold, L!DependencyMerges, L!RerunPr, L!Close,
        L!Reopen
  <2>2. CASE L!OpenPr \/ L!Reopen
    <3>1. CASE L!OpenPr
      <4>1. pr' = "open" /\ job'.at # "ship"  BY <3>1 DEF L!OpenPr, L!Quiet
      <4> QED  BY <4>1 DEF Followed
    <3>2. CASE L!Reopen
      <4>1. pr' = "open" /\ job'.at # "ship"  BY <3>2 DEF L!Reopen
      <4> QED  BY <4>1 DEF Followed
    <3> QED  BY <2>2, <3>1, <3>2
  <2>3. CASE L!StartShip
    <3>1. L!FilesOpen("ship")  BY <2>3 DEF L!StartShip, L!ShipGate
    <3>2. status["pr"] = "accepted" /\ status' = status
      BY <2>3, <3>1, BeforeIs DEF L!FilesOpen, L!Settled, L!StartShip
    <3> QED  BY <3>2 DEF Followed
  <2>4. CASE ~(L!OpenPr \/ L!Reopen \/ L!StartShip)
    <3>1. pr' = "open" => pr = "open"
      BY <2>4 DEF L!github, L!Next, L!Plan, L!Impl, L!RerunPlan, L!Integrate, L!PushElsewhere, L!PushLocal, L!Fetch,
        L!StartReview, L!EndReview, L!FailReview, L!ChecksEnd, L!Merge, L!EndShip, L!RecordShip, L!TrunkMoves,
        L!Answer, L!GrantRound, L!MoveHold, L!DependencyMerges, L!RerunPr, L!Close, L!ReadClosed
    <3>2. pr' = "merged" => pr = "merged" \/ (job.at = "ship" /\ pr = "open")
      <4>1. pr # "merged" /\ pr' = "merged" => L!Merge
        BY <2>4 DEF L!github, L!Next, L!Plan, L!Impl, L!RerunPlan, L!Integrate, L!PushElsewhere, L!PushLocal, L!Fetch,
          L!StartReview, L!EndReview, L!FailReview, L!ChecksEnd, L!EndShip, L!RecordShip, L!TrunkMoves,
          L!Answer, L!GrantRound, L!MoveHold, L!DependencyMerges, L!RerunPr, L!Close, L!ReadClosed
      <4> QED  BY <4>1 DEF L!Merge
    <3>3. job'.at = "ship" => job' = job  BY <2>4, JobMoves DEF L!NoJob, L!StartReview
    <3> QED  BY <1>1, <2>1, <3>1, <3>2, <3>3 DEF Followed
  <2> QED  BY <2>2, <2>3, <2>4
<1> QED  BY <1>2, <1>3, <1>4, <1>5

\* A unit begins with nothing done.
LEMMA LoopBegins == L!Init => LoopInv
<1> SUFFICES ASSUME L!Init PROVE LoopInv  OBVIOUS
<1>0. {MaxCommits, MaxRounds, MaxMoves} \subseteq Nat  BY PartsAssumption DEF L!LoopConstants
<1>1. StatusTypes  BY DEF L!Init, StatusTypes, Gated
<1>2. BranchTypes  BY <1>0 DEF L!Init, BranchTypes, CiStates
<1>3. RoundTypes  BY <1>0 DEF L!Init, RoundTypes
<1>4. SideTypes  BY <1>0 DEF L!Init, SideTypes
<1>5. JobTypes  BY DEF L!Init, JobTypes, L!NoJob
<1>6. Opened /\ Followed /\ Pinned /\ Reviewed
  BY DEF L!Init, Opened, Followed, Pinned, Reviewed, L!NoJob
<1> QED  BY <1>1, <1>2, <1>3, <1>4, <1>5, <1>6 DEF LoopInv

\* Every step of the sessions, the owner, GitHub and other people keeps the invariant.
LEMMA LoopStep == LoopInv /\ [L!Next]_lVars => LoopInv'
<1>1. LoopInv /\ L!Next => LoopInv'
  BY BranchStays, RoundsStay, SidesStay, PullStays DEF LoopInv
<1>2. LoopInv /\ UNCHANGED lVars => LoopInv'
  BY DEF lVars, LoopInv, StatusTypes, BranchTypes, RoundTypes, SideTypes, JobTypes, Opened, Followed,
    Pinned, Reviewed
<1> QED  BY <1>1, <1>2

\* What stands before a stage is what a stage's gate asks for: none of it waits.
StandsAt(i) == \A j \in 1..5 : j < i => L!WhyAt(L!Stages[j]) = "none"

\* The stage a unit stands at is the first that is not past.
LEMMA StageIs ==
  \E i \in 1..5 : /\ L!StageAt = L!Stages[i] /\ StandsAt(i) /\ L!WhyAt(L!Stages[i]) # "none"
<1> DEFINE why == [i \in 1..5 |-> L!WhyAt(L!Stages[i])]
           ahead == {i \in 1..5 : why[i] # "none"}
           first == CHOOSE i \in ahead : \A j \in ahead : i <= j
<1>1. L!StageAt = L!Stages[first]
  <2>1. ahead = {i \in 1..5 : L!WhyAt(L!Stages[i]) # "none"}  OBVIOUS
  <2> QED  BY <2>1 DEF L!StageAt
<1>2. why[5] # "none"
  <2>1. L!Stages[5] = "ship"  BY DEF L!Stages
  <2> QED  BY <2>1 DEF L!WhyAt
<1> HIDE DEF why
<1>3. 5 \in ahead /\ ahead \subseteq 1..5  BY <1>2
<1>4. \E i \in ahead : \A j \in ahead : i <= j
  <2> HIDE DEF ahead
  <2>1. CASE 1 \in ahead  BY <1>3, <2>1
  <2>2. CASE 1 \notin ahead /\ 2 \in ahead  BY <1>3, <2>2
  <2>3. CASE 1 \notin ahead /\ 2 \notin ahead /\ 3 \in ahead  BY <1>3, <2>3
  <2>4. CASE 1 \notin ahead /\ 2 \notin ahead /\ 3 \notin ahead /\ 4 \in ahead  BY <1>3, <2>4
  <2>5. CASE 1 \notin ahead /\ 2 \notin ahead /\ 3 \notin ahead /\ 4 \notin ahead  BY <1>3, <2>5
  <2> QED  BY <2>1, <2>2, <2>3, <2>4, <2>5
<1>5. first \in ahead /\ \A j \in ahead : first <= j
  <2> HIDE DEF ahead
  <2> QED  BY <1>4
<1> HIDE DEF first
<1>6. first \in 1..5 /\ why[first] # "none" /\ \A j \in 1..5 : j < first => why[j] = "none"
  <2>1. first \in 1..5 /\ why[first] # "none"  BY <1>5
  <2>2. ASSUME NEW j \in 1..5, j < first, why[j] # "none" PROVE FALSE
    <3>1. j \in ahead  BY <2>2
    <3> QED  BY <1>5, <2>1, <2>2, <3>1
  <2> QED  BY <2>1, <2>2
<1> QED  BY <1>1, <1>6 DEF why, StandsAt

\* A stage that is past is settled, on nothing that was rerun.
LEMMA PastIsSettled ==
  ASSUME LoopInv, NEW s \in Gated, L!WhyAt(s) = "none"
  PROVE  L!Settled(s) /\ ~L!Stale(s)
<1>1. status[s] \in {"none", "draft", "accepted", "changes-requested"}  BY DEF LoopInv, StatusTypes
<1>2. s # "ship"  BY DEF Gated
<1> QED  BY <1>1, <1>2 DEF L!WhyAt, L!Settled

\* The gate of the stage a unit stands at has what it asks of the files, and so has that of `review` once
\* `pr` is past.
LEMMA StandingIsOpen ==
  ASSUME LoopInv, hold = "active", NEW i \in 1..5, StandsAt(i)
  PROVE  /\ (L!Stages[i] = "impl" => ~waiting) => L!FilesOpen(L!Stages[i])
         /\ i >= 4 => L!FilesOpen("review")
<1>1. /\ L!Stages[1] = "plan" /\ L!Stages[2] = "impl" /\ L!Stages[3] = "pr"
      /\ L!Stages[4] = "review" /\ L!Stages[5] = "ship"
  BY DEF L!Stages
<1>2. \A j \in 1..5 : j < i => L!Settled(L!Stages[j]) /\ ~L!Stale(L!Stages[j])
  <2> TAKE j \in 1..5
  <2> HAVE j < i
  <2>1. L!WhyAt(L!Stages[j]) = "none"  BY DEF StandsAt
  <2>2. L!Stages[j] \in Gated  BY <1>1 DEF Gated
  <2> QED  BY <2>1, <2>2, PastIsSettled
<1>3. \A b \in L!Before(L!Stages[i]) : L!Settled(b) /\ ~L!Stale(b)
  <2>1. CASE i = 1  BY <1>1, <2>1, BeforeIs
  <2>2. CASE i = 2  BY <1>1, <1>2, <2>2, BeforeIs
  <2>3. CASE i = 3  BY <1>1, <1>2, <2>3, BeforeIs
  <2>4. CASE i = 4  BY <1>1, <1>2, <2>4, BeforeIs
  <2>5. CASE i = 5  BY <1>1, <1>2, <2>5, BeforeIs
  <2> QED  BY <2>1, <2>2, <2>3, <2>4, <2>5
<1>4. i >= 4 => \A b \in L!Before("review") : L!Settled(b) /\ ~L!Stale(b)
  BY <1>1, <1>2, BeforeIs
<1> QED  BY <1>3, <1>4 DEF L!FilesOpen

\* A step the loop names is one its gate lets through.
LEMMA NamesAreOpen == LoopInv => L!NamedIsOpen
<1> SUFFICES ASSUME LoopInv, L!Quiet
             PROVE  /\ L!NextStage = "review" => L!ReviewGate = "green"
                    /\ L!NextStage = "ship" => L!ShipGate \in {"open", "recording"}
                    /\ L!NextStage \notin {"none", "review", "ship"} => L!FilesOpen(L!NextStage)
  BY DEF L!NamedIsOpen
<1>1. L!FilesOpen("review") \/ L!FilesOpen("ship") => (~waiting => L!FilesOpen("impl"))
  BY BeforeIs DEF L!FilesOpen
<1>2. L!ReviewGate = "red" => L!FilesOpen("review")  BY DEF L!ReviewGate
<1>3. L!ShipGate = "red" => L!FilesOpen("ship")  BY DEF L!ShipGate
<1>4. \/ L!OnReview = "none"
      \/ L!OnReview = "review" /\ L!ReviewGate = "green"
      \/ L!OnReview = "impl" /\ L!FilesOpen("review")
  BY <1>2 DEF L!OnReview
<1> DEFINE Good(n) == \/ n = "none"
                      \/ n = "review" /\ L!ReviewGate = "green"
                      \/ n = "impl" /\ (L!FilesOpen("review") \/ L!FilesOpen("ship"))
                      \/ n = "ship" /\ L!ShipGate \in {"open", "recording"}
<1>5. ASSUME NEW m \in BOOLEAN PROVE Good(L!OnShip(m))
  <2>1. Good(L!Again)  BY <1>4 DEF L!Again
  <2> QED  BY <1>3, <2>1 DEF L!OnShip
<1>6. PICK i \in 1..5 : L!StageAt = L!Stages[i] /\ StandsAt(i) /\ L!WhyAt(L!Stages[i]) # "none"  BY StageIs
<1>7. hold \in {"active", "paused", "dropped"} /\ ~shipped  BY DEF LoopInv, SideTypes, L!Quiet
<1>8. CASE hold # "active"
  <2>1. L!Why \in {"paused", "dropped"}  BY <1>7, <1>8 DEF L!Why
  <2>2. L!Step = "none"  BY <2>1 DEF L!Step
  <2> QED  BY <2>2 DEF L!NextStage
<1>9. CASE hold = "active"
  <2>1. L!Why = L!WhyAt(L!StageAt)  BY <1>7, <1>9 DEF L!Why
  <2>2. L!WhyAt(L!StageAt) = "changes-requested" => L!FilesOpen("review")
    <3>1. CASE i = 4 \/ i = 5  BY <1>6, <1>9, <3>1, StandingIsOpen
    <3>2. CASE i \in 1..3
      <4>1. L!Stages[i] \in {"plan", "impl", "pr"}  BY <3>2 DEF L!Stages
      <4>2. status[L!Stages[i]] # "changes-requested"  BY <4>1 DEF LoopInv, StatusTypes, Gated
      <4>3. L!WhyAt(L!Stages[i]) # "changes-requested"  BY <4>1, <4>2 DEF L!WhyAt
      <4> QED  BY <1>6, <4>3
    <3> QED  BY <3>1, <3>2
  <2>3. (L!Step = L!StageAt /\ L!StageAt \in {"plan", "impl", "pr"}) \/ Good(L!Step)
    <3>1. Good(L!OnReview)  BY <1>4
    <3>2. Good(L!OnShip(TRUE)) /\ Good(L!OnShip(merge.round < Len(rounds) \/ L!CleanRebase(L!Last.head, remote)))
      BY <1>5
    <3>3. L!WhyAt(L!StageAt) = "changes-requested" => Good(L!OnChanges)  BY <2>2, <3>1 DEF L!OnChanges
    <3>4. L!ShipGate = "recording" => Good("ship")  OBVIOUS
    <3>5. Good("none")  OBVIOUS
    <3> DEFINE ships == L!OnShip(merge.round < Len(rounds) \/ L!CleanRebase(L!Last.head, remote))
    <3>6. \/ L!Step \in {"none", L!OnReview, L!OnShip(TRUE), ships}
          \/ L!Step = L!OnChanges /\ L!Why = "changes-requested"
          \/ L!Step = "ship" /\ L!ShipGate = "recording"
          \/ L!Step = L!StageAt /\ L!StageAt \in {"plan", "impl", "pr"}
      BY Zenon DEF L!Step
    <3> HIDE DEF Good, ships
    <3>7. Good(ships)  BY <3>2 DEF ships
    <3> QED  BY <2>1, <3>1, <3>2, <3>3, <3>4, <3>5, <3>6, <3>7
  <2>4. CASE L!Step = L!StageAt /\ L!StageAt \in {"plan", "impl", "pr"}
    <3>1. (L!StageAt = "impl" => ~waiting) => L!FilesOpen(L!StageAt)  BY <1>6, <1>9, StandingIsOpen
    <3> QED  BY <2>4, <3>1 DEF L!NextStage
  <2>5. CASE Good(L!Step)  BY <1>1, <2>5 DEF L!NextStage
  <2> QED  BY <2>3, <2>4, <2>5
<1> QED  BY <1>7, <1>8, <1>9

\* A unit that is not over stands where something can move it on.
LEMMA NobodyIsStuck == LoopInv => L!SomeoneCanMove
<1> SUFFICES ASSUME LoopInv, ~L!SomeoneCanMove PROVE FALSE  OBVIOUS
<1>1. /\ L!Quiet /\ hold = "active" /\ ~waiting /\ ~L!MayGrant
      /\ pr = "open" => ci = "green" /\ L!ReviewGate # "green" /\ ~L!Stale("pr")
      /\ pr \in {"closed", "merged"} => ~L!Settled("pr")
      /\ L!NextStage = "none" \/ (L!NextStage = "pr" /\ L!Settled("pr"))
      /\ L!Why \notin {"draft", "awaits-person", "ship-merging"}
  BY DEF L!SomeoneCanMove, L!Watched, L!MayOpen, LoopInv, SideTypes
<1>2. ~shipped /\ ~L!OutOfRounds  BY <1>1 DEF L!Quiet, L!MayGrant
<1>3. PICK i \in 1..5 : L!StageAt = L!Stages[i] /\ StandsAt(i) /\ L!WhyAt(L!Stages[i]) # "none"  BY StageIs
<1>4. CASE i \in 1..3
  <2>1. L!Stages[i] \in {"plan", "impl", "pr"}  BY <1>4 DEF L!Stages
  <2>2. status[L!Stages[i]] \in {"none", "draft", "accepted"}  BY <2>1 DEF LoopInv, StatusTypes, Gated
  <2>3. L!WhyAt(L!Stages[i]) \in {"missing", "stale", "draft"}  BY <1>3, <2>1, <2>2 DEF L!WhyAt
  <2>4. L!Why \in {"missing", "stale"}  BY <1>1, <1>2, <1>3, <2>3 DEF L!Why
  <2>5. L!Step = L!StageAt  BY <1>3, <2>1, <2>4 DEF L!Step
  <2>6. L!NextStage = L!StageAt  BY <1>1, <2>5 DEF L!NextStage
  <2>7. L!Stages[i] = "pr" /\ L!Settled("pr")  BY <1>1, <1>3, <2>1, <2>6
  <2>8. L!Stale("pr")
    <3>1. L!WhyAt("pr") # "none" /\ status["pr"] = "accepted"  BY <1>3, <2>7 DEF L!Settled
    <3> QED  BY <3>1 DEF L!WhyAt
  <2>9. pr \in {"open", "closed", "merged"}  BY <2>7 DEF L!Settled, LoopInv, Opened, JobTypes
  <2> QED  BY <1>1, <2>7, <2>8, <2>9
<1>5. CASE i >= 4
  <2>1. L!FilesOpen("review")  BY <1>1, <1>3, <1>5, StandingIsOpen
  <2>2. pr = "open"
    <3>1. L!Settled("pr")  BY <2>1, BeforeIs DEF L!FilesOpen
    <3>2. pr \in {"open", "closed", "merged"}  BY <3>1 DEF L!Settled, LoopInv, Opened, JobTypes
    <3> QED  BY <1>1, <3>1, <3>2
  <2>3. ci = "green"  BY <1>1, <2>2
  <2>4. L!ReviewGate = "green"  BY <1>2, <2>1, <2>2, <2>3 DEF L!ReviewGate
  <2> QED  BY <1>1, <2>2, <2>4
<1> QED  BY <1>4, <1>5

\* Whatever merges, merged as a round passed it.
LEMMA MergesWereReviewed == LoopInv => L!MergedWasReviewed
BY DEF LoopInv, Reviewed, Passed, L!MergedWasReviewed, L!Listed

\* The invariant has the types of Loop, within the bounds of the run.
LEMMA LoopIsTyped == LoopInv => L!TypeOK
<1> SUFFICES ASSUME LoopInv PROVE L!TypeOK  OBVIOUS
<1>1. MaxMoves \in Nat  BY PartsAssumption DEF L!LoopConstants
<1>2. status \in [{"plan", "impl", "pr", "review"} -> {"none", "draft", "accepted", "changes-requested"}]
  BY DEF LoopInv, StatusTypes, Gated
<1>3. stale \subseteq {"plan", "impl", "pr", "review"} /\ waiting \in BOOLEAN
      /\ hold \in {"active", "paused", "dropped"}
  BY DEF LoopInv, SideTypes, Gated
<1>4. granted <= MaxMoves /\ claims \cup answers \subseteq Findings /\ moves <= MaxMoves
  BY <1>1 DEF LoopInv, SideTypes
<1>5. (\A i \in 1..Len(rounds) : rounds[i] \in L!Round) /\ Len(rounds) <= MaxRounds
  BY DEF LoopInv, RoundTypes
<1>6. /\ Len(line) <= MaxCommits /\ Len(patch) = Len(line) /\ {local, remote, origin} \subseteq {0} \cup L!Commits
      /\ ci \in {"pending", "green", "red"}
  BY DEF LoopInv, BranchTypes, CiStates, L!Commits
<1>7. pr \in {"none", "open", "closed", "merged"} /\ job.at \in {"idle", "review", "ship"}
  BY DEF LoopInv, JobTypes
<1> QED  BY <1>2, <1>3, <1>4, <1>5, <1>6, <1>7 DEF L!TypeOK

\* In any behaviour of Loop (loop/ and the steps between its answers), what is merged is what a round passed,
\* with every finding any round rated high dealt with.
THEOREM MergedWasPassed == L!Spec => []L!MergedWasReviewed
<1>1. UNCHANGED L!vars => UNCHANGED lVars
  BY DEF L!vars, lVars, L!review, L!branch, L!github
<1>2. LoopInv /\ [L!Next]_L!vars => LoopInv'
  BY <1>1, LoopStep
<1> QED  BY <1>2, LoopBegins, MergesWereReviewed, PTL DEF L!Spec

\* The invariant of Loop where it is the part at work.
LEMMA LoopInvInParts == PartsSpec => [](part = "loop" => LoopInv)
<1>1. PartsInit => LoopInv
  BY LoopBegins DEF PartsInit
<1>2. (part = "loop" => LoopInv) /\ [PartsNext]_partVars => (part = "loop" => LoopInv)'
  BY LoopStep DEF PartsNext, partVars
<1> QED  BY <1>1, <1>2, PTL DEF PartsSpec

\* MergedWasReviewed of the parts side by side.
THEOREM MergedWasReviewedInParts == PartsSpec => []MergedWasReviewed
<1>1. (part = "loop" => LoopInv) => MergedWasReviewed
  BY MergesWereReviewed DEF MergedWasReviewed
<1> QED  BY <1>1, LoopInvInParts, PTL

\* NamedIsOpen of the parts side by side: `next_step` names no stage that `start` would refuse.
THEOREM NamedIsOpenInParts == PartsSpec => []NamedIsOpen
<1>1. (part = "loop" => LoopInv) => NamedIsOpen
  BY NamesAreOpen DEF NamedIsOpen
<1> QED  BY <1>1, LoopInvInParts, PTL

\* SomeoneCanMove of the parts side by side: no unit stands where nobody can move it.
THEOREM SomeoneCanMoveInParts == PartsSpec => []SomeoneCanMove
<1>1. (part = "loop" => LoopInv) => SomeoneCanMove
  BY NobodyIsStuck DEF SomeoneCanMove
<1> QED  BY <1>1, LoopInvInParts, PTL

\* Its types of the parts side by side.
LEMMA LoopIsTypedInParts == PartsSpec => [](part = "loop" => L!TypeOK)
<1>1. (part = "loop" => LoopInv) => (part = "loop" => L!TypeOK)
  BY LoopIsTyped
<1> QED  BY <1>1, LoopInvInParts, PTL
===============================================================================
