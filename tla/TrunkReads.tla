----------------------------- MODULE TrunkReads -----------------------------
(***************************************************************************)
(* What `fetch` (coscc/git/fetches.py) promises those who call it on one   *)
(* remote branch of one repository: one `git fetch` runs at a time; who    *)
(* asks while it runs is answered by it, when it ends and as it ended; who *)
(* asks soon after one that went well began is answered at once.  Nobody   *)
(* waits while none runs.  Who runs the fetch, how often git is called and *)
(* what is kept in between are the business of the module Fetches.         *)
(***************************************************************************)
EXTENDS Naturals

CONSTANTS Callers, Reuse

VARIABLES now,
          began,   \* when the fetch that runs began, Never when none does
          last,    \* when the last one that went well began
          at,      \* of each caller: away, waiting, or answered
          answer   \* of each caller answered: when the fetch it is told of began, Never when it failed
vars == <<now, began, last, at, answer>>

Never == 0

Init ==
  /\ now = 1 /\ began = Never /\ last = Never
  /\ at = [c \in Callers |-> "away"] /\ answer = [c \in Callers |-> Never]

\* It waits for the fetch that runs, or for one that begins now.
Wait(c) ==
  /\ at[c] = "away" /\ at' = [at EXCEPT ![c] = "waits"]
  /\ began' = IF began = Never THEN now ELSE began
  /\ UNCHANGED <<now, last, answer>>

Told(c) ==
  /\ at[c] = "away" /\ began = Never /\ last # Never /\ now < last + Reuse
  /\ at' = [at EXCEPT ![c] = "answered"] /\ answer' = [answer EXCEPT ![c] = last]
  /\ UNCHANGED <<now, began, last>>

\* git lost a race on the ref and is called again.
BeginsOver == began # Never /\ began' = now /\ UNCHANGED <<now, last, at, answer>>

\* All who wait are answered, but who went away as the fetch ended.
AnswerAll(gone, said) ==
  /\ began # Never /\ began' = Never
  /\ at' = [c \in Callers |-> IF c \in gone THEN "away" ELSE IF at[c] = "waits" THEN "answered" ELSE at[c]]
  /\ answer' = [c \in Callers |-> IF at[c] = "waits" /\ c \notin gone THEN said ELSE answer[c]]

GoesWell == AnswerAll({}, began) /\ last' = began /\ UNCHANGED now
Fails == (AnswerAll({}, Never) \/ \E c \in Callers : at[c] = "waits" /\ AnswerAll({c}, Never))
         /\ UNCHANGED <<now, last>>

\* It took its answer, or was cancelled while another's fetch ran on for those who are left.
Leave(c) ==
  /\ at[c] = "answered" \/ (at[c] = "waits" /\ \E d \in Callers \ {c} : at[d] = "waits")
  /\ at' = [at EXCEPT ![c] = "away"]
  /\ UNCHANGED <<now, began, last, answer>>

Tick == now' = now + 1 /\ UNCHANGED <<began, last, at, answer>>

Next == (\E c \in Callers : Wait(c) \/ Told(c) \/ Leave(c)) \/ BeginsOver \/ GoesWell \/ Fails \/ Tick

Spec == Init /\ [][Next]_vars
=============================================================================
