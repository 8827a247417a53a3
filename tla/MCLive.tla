------------------------------- MODULE MCLive -------------------------------
(***************************************************************************)
(* What must happen at some time, of attempts and of pull requests, side   *)
(* by side: a behaviour is one of one of them, the other stays as it       *)
(* began, and fairness is asked of the one at work.                        *)
(***************************************************************************)
EXTENDS Attempts

CONSTANTS PullUnits, MaxHead, MaxAsked, MaxPr, MaxTroubles

VARIABLES part,
          pr, tip, check, clean, round, now, rerun, noted, job, ci, reader, rerunning, recon,
          up, on, faults

P == INSTANCE PullRequest WITH Units <- PullUnits

pullVars == <<pr, tip, check, clean, round, now, rerun, noted, job, ci, reader, rerunning, recon,
              up, on, faults>>
liveVars == <<part, vars, pullVars>>

LiveInit == part \in {"attempts", "pulls"} /\ Init /\ P!Init

\* No board is open, so the reader alone asks for checks, and no push is a clean rebase, which only
\* `ship` asks about.
BoardsClosed == P!Next /\ (\A u \in PullUnits : ci'[u] = P!NoRead) /\ UNCHANGED clean

LiveNext ==
  \/ part = "attempts" /\ Next /\ UNCHANGED <<part, pullVars>>
  \/ part = "pulls" /\ BoardsClosed /\ UNCHANGED <<part, vars>>

Attempting(A) == part = "attempts" /\ A
Pulling(A) == part = "pulls" /\ A

\* The fairness of Attempts and of PullRequest, each while it is at work.
LiveFairness ==
  /\ \A i \in Ids : WF_vars(Attempting(Works(i)))
  /\ WF_vars(Attempting(Boots)) /\ WF_vars(Attempting(Exits)) /\ WF_vars(Attempting(UpdateOver))
  /\ WF_pullVars(Pulling(P!Start)) /\ WF_pullVars(Pulling(P!Reconciling))
  /\ WF_pullVars(Pulling(P!Walking))
  /\ SF_pullVars(Pulling(P!WalkList)) /\ SF_pullVars(Pulling(P!Viewing))
  /\ \A r \in P!Readers : WF_pullVars(Pulling(P!Reading(r)))

LiveSpec == LiveInit /\ [][LiveNext]_liveVars /\ LiveFairness

\* Of PullRequest: a merge on GitHub is recorded some day, whoever made it and whatever died after it.
MergeIsRecorded == P!MergeIsRecorded

\* Of PullRequest: the rows come to say what the checks of the last head say.
CiCatchesUp == P!CiCatchesUp
=============================================================================
