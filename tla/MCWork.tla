------------------------------- MODULE MCWork -------------------------------
(***************************************************************************)
(* A unit's work, side by side: the runs of its agents, the pull requests  *)
(* of units, and releases.  They share no state of their own: a behaviour  *)
(* is one of one of them, and the others stay as they began.               *)
(***************************************************************************)
EXTENDS PullRequest

CONSTANTS MaxVersion, MaxMain, MaxHeads, MaxPulls,
          MaxSaid, MaxUsd, MaxRuns, MaxRev

VARIABLES part,
          mains, tagged, made, remote, pulls, known, left, recorded, press,
          run, disk, rev, around, kept, money

R == INSTANCE Releases WITH trunk <- mains, opened <- recorded
S == INSTANCE Runs

ASSUME WorkAssumption ==
  /\ R!ReleasesConstants /\ S!RunsConstants
  /\ IsFiniteSet(Units) /\ Units # {}

rVars == <<mains, tagged, made, remote, pulls, known, left, recorded, press>>
sVars == <<run, disk, rev, around, kept, money>>
workVars == <<part, vars, rVars, sVars>>

WorkInit == part \in {"runs", "pulls", "release"} /\ Init /\ R!Init /\ S!Init

WorkNext ==
  \/ part = "runs" /\ S!Next /\ UNCHANGED <<part, vars, rVars>>
  \/ part = "pulls" /\ Next /\ UNCHANGED <<part, rVars, sVars>>
  \/ part = "release" /\ R!Next /\ UNCHANGED <<part, vars, sVars>>

WorkSpec == WorkInit /\ [][WorkNext]_workVars

\* Every part has the types of its module.
WorkTypeOK ==
  CASE part = "runs" -> S!TypeOK
    [] part = "pulls" -> TypeOK
    [] part = "release" -> R!TypeOK

\* Of Runs: a stage is `done` only with its artifact, with an object for the files as they are, and with no
\* Stop asked before the seal.
DoneIsSound == S!DoneIsSound

\* Of Runs: after a Stop before the seal, or a spike that touched the tree, the artifact stays as it was.
Withheld == S!Withheld

\* Of Releases: what is merged and tagged is what the app made and the checks passed.
ReleasedIsMade == R!ReleasedIsMade
=============================================================================
