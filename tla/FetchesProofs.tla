--------------------------- MODULE FetchesProofs ----------------------------
(***************************************************************************)
(* The coordinator of fetches keeps its promise, whoever calls it, however *)
(* often and for however long: Fetches implements TrunkReads.              *)
(***************************************************************************)
EXTENDS Fetches, TLAPS

\* The future in the entry is that of the one call that fetches, and who joined did join one.
OneFlight ==
  /\ \A c \in Callers : call[c] \in Fetching <=> c \in inflight
  /\ \A c, d \in inflight : c = d
  /\ (\E c \in Callers : call[c] = "joined") => inflight # {}

Inv ==
  /\ now \in Nat \ {0} /\ started \in Nat /\ lastOk \in Nat /\ inflight \subseteq Callers
  /\ call \in [Callers -> Fetching \cup {"away", "joined", "woken"}]
  /\ result \in [Callers -> Nat]
  /\ inflight # {} => started # Never
  /\ OneFlight

\* Nobody fetches to begin with.
LEMMA InitInv == Init => Inv
  BY DEF Init, Inv, OneFlight, Fetching, Never

\* Each step keeps the invariant: those that touch one call, then those that settle the future.
LEMMA NextInv == Inv /\ [Next]_vars => Inv'
<1> SUFFICES ASSUME Inv, [Next]_vars PROVE Inv'
  OBVIOUS
<1> USE DEF Inv, OneFlight, Fetching, Never
<1>1. ASSUME NEW c \in Callers, Join(c) \/ Return(c) PROVE Inv'
  BY <1>1 DEF Join, Return
<1>2. ASSUME NEW c \in Callers, Reused(c) PROVE Inv'
  BY <1>2 DEF Reused
<1>3. ASSUME NEW c \in Callers, Fetch(c) PROVE Inv'
  BY <1>3 DEF Fetch
<1>4. ASSUME NEW c \in Callers, GitRaces(c) \/ Retry(c) PROVE Inv'
  BY <1>4 DEF GitRaces, Retry
<1>5. ASSUME NEW c \in Callers, NEW next \in {"woken", "away"}, NEW said \in Nat, Settle(next, said),
             UNCHANGED <<now, started>>, lastOk' \in Nat
      PROVE Inv'
  BY <1>5 DEF Settle
<1>6. ASSUME NEW c \in Callers, GitEnds(c) \/ GitFails(c) \/ CancelFetch(c) PROVE Inv'
  BY <1>5, <1>6 DEF GitEnds, GitFails, CancelFetch
<1>7. CASE Tick
  BY <1>7 DEF Tick
<1>8. CASE UNCHANGED vars
  BY <1>8 DEF vars
<1> QED
  BY <1>1, <1>2, <1>3, <1>4, <1>6, <1>7, <1>8 DEF Next

\* In any behaviour of the coordinator there is one flight at a time, and who joined joined that one.
THEOREM Invariance == Spec => []Inv
  BY InitInv, NextInv, PTL DEF Spec

\* It begins as the promise does: nothing read and nobody waiting.
LEMMA InitPromise == Init => Promise!Init
  BY DEF Init, Promise!Init, Seen, Never, Promise!Never

\* Each step is one of the promise, or none a caller could tell.
LEMMA StepPromise == Inv /\ [Next]_vars => [Promise!Next]_Promise!vars
<1> SUFFICES ASSUME Inv, [Next]_vars PROVE [Promise!Next]_Promise!vars
  OBVIOUS
<1> USE DEF Inv, OneFlight, Fetching, Never, Promise!Never, Seen
<1>1. ASSUME NEW c \in Callers, Join(c) \/ Fetch(c) PROVE Promise!Wait(c)
  BY <1>1 DEF Join, Fetch, Promise!Wait
<1>2. ASSUME NEW c \in Callers, Reused(c) PROVE Promise!Told(c)
  BY <1>2 DEF Reused, Recent, Promise!Told
<1>3. ASSUME NEW c \in Callers, GitEnds(c) PROVE Promise!GoesWell
  BY <1>3 DEF GitEnds, Settle, Promise!GoesWell, Promise!AnswerAll
<1>4. ASSUME NEW c \in Callers, GitRaces(c) PROVE UNCHANGED Promise!vars
  BY <1>4 DEF GitRaces, Promise!vars
<1>5. ASSUME NEW c \in Callers, Retry(c) PROVE Promise!BeginsOver
  BY <1>5 DEF Retry, Promise!BeginsOver
<1>6. ASSUME NEW c \in Callers, GitFails(c) \/ CancelFetch(c) PROVE Promise!Fails
  BY <1>6 DEF GitFails, CancelFetch, Settle, Promise!Fails, Promise!AnswerAll
<1>7. ASSUME NEW c \in Callers, Return(c) PROVE Promise!Leave(c)
  BY <1>7 DEF Return, Promise!Leave
<1>8. CASE Tick
  BY <1>8 DEF Tick, Promise!Tick, Promise!Next
<1>9. CASE UNCHANGED vars
  BY <1>9 DEF vars, Promise!vars
<1> QED
  BY <1>1, <1>2, <1>3, <1>4, <1>5, <1>6, <1>7, <1>8, <1>9 DEF Next, Promise!Next

\* Every behaviour of the coordinator is one of the promise: one fetch at a time, nobody waits for
\* one that is over, and each answer is of a fetch that ended meanwhile or of a recent one.
THEOREM FetchesKeepTheirPromise == Spec => KeepsPromise
<1>1. Inv /\ [Next]_vars => [Promise!Next]_Promise!vars
  BY StepPromise
<1> QED
  BY <1>1, InitPromise, Invariance, PTL DEF Spec, KeepsPromise, Promise!Spec

\* Nothing was read in a time to come, and git is called twice at most.
Bounds ==
  /\ lastOk <= now /\ started <= now /\ \A c \in Callers : result[c] <= now
  /\ attempts \in 0..2

\* Each step keeps the bounds.
LEMMA BoundsStay == Inv /\ Bounds /\ [Next]_vars => Bounds'
<1> SUFFICES ASSUME Inv, Bounds, [Next]_vars PROVE Bounds'
  OBVIOUS
<1> USE DEF Bounds, Inv, Never
<1>1. ASSUME NEW c \in Callers, Join(c) \/ Return(c) \/ Reused(c) \/ Fetch(c) \/ GitRaces(c) \/ Retry(c) PROVE Bounds'
  BY <1>1 DEF Join, Return, Reused, Fetch, GitRaces, Retry
<1>2. ASSUME NEW next, NEW said \in 0..now, Settle(next, said), UNCHANGED <<now, attempts, started>>,
             lastOk' \in {lastOk, started}
      PROVE  Bounds'
  BY <1>2 DEF Settle
<1>3. ASSUME NEW c \in Callers, GitEnds(c) \/ GitFails(c) \/ CancelFetch(c) PROVE Bounds'
  BY <1>2, <1>3 DEF GitEnds, GitFails, CancelFetch
<1>4. CASE Tick
  BY <1>4 DEF Tick
<1>5. CASE UNCHANGED vars
  BY <1>5 DEF vars
<1> QED
  BY <1>1, <1>3, <1>4, <1>5 DEF Next

\* The table, the clock and the calls keep their types, for any callers and any time.
LEMMA TypesKept ==
  /\ Init => Bounds
  /\ Inv /\ Bounds => TypeOK
<1>1. Init => Bounds
  BY DEF Init, Bounds, Never
<1>2. Inv /\ Bounds => TypeOK
  BY DEF Inv, Bounds, TypeOK
<1> QED
  BY <1>1, <1>2
=============================================================================
