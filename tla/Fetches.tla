------------------------------ MODULE Fetches -------------------------------
(***************************************************************************)
(* The coordinator of `git fetch` (coscc/git/fetches.py), of one entry of  *)
(* its table: callers that ask, the one of them that fetches for all, its  *)
(* second try after a race on the ref, and cancels.  A handler up to its   *)
(* next `await` is one action.  Times count from 1, and Never is 0.        *)
(***************************************************************************)
EXTENDS Naturals

CONSTANTS Callers,
          Reuse,    \* `REUSE_SECONDS`
          MaxTime   \* bound: of the clock

VARIABLES now,       \* `clock()`
          inflight,  \* who registered the future of the entry, {} when there is none
          lastOk,    \* `last_ok_started`
          call,      \* where each call stands
          attempts,  \* of the call that fetches: the times git was called
          started,   \* ... and when the last of them began
          result     \* of each call whose answer is there: what it is told, Never for FetchFailed
vars == <<now, inflight, lastOk, call, attempts, started, result>>

Never == 0
Fetching == {"git", "retry-wait"}

\* The future is settled: joiners wake with what is said, the call that fetched goes on to `next`.
Settle(next, said) ==
  /\ inflight' = {}
  /\ call' = [c \in Callers |-> IF c \in inflight THEN next ELSE IF call[c] = "joined" THEN "woken" ELSE call[c]]
  /\ result' = [c \in Callers |-> IF call[c] = "joined" \/ (c \in inflight /\ next = "woken") THEN said ELSE result[c]]

Join(c) ==
  /\ call[c] = "away" /\ inflight # {}
  /\ call' = [call EXCEPT ![c] = "joined"]
  /\ UNCHANGED <<now, inflight, lastOk, attempts, started, result>>

Recent == lastOk # Never /\ now < lastOk + Reuse

Reused(c) ==
  /\ call[c] = "away" /\ inflight = {} /\ Recent
  /\ call' = [call EXCEPT ![c] = "woken"] /\ result' = [result EXCEPT ![c] = lastOk]
  /\ UNCHANGED <<now, inflight, lastOk, attempts, started>>

\* There is no await between the look at the table and the future in it.
Fetch(c) ==
  /\ call[c] = "away" /\ inflight = {} /\ ~Recent
  /\ inflight' = {c} /\ call' = [call EXCEPT ![c] = "git"] /\ attempts' = 1 /\ started' = now
  /\ UNCHANGED <<now, lastOk, result>>

GitEnds(c) ==
  /\ call[c] = "git" /\ Settle("woken", started) /\ lastOk' = started
  /\ UNCHANGED <<now, attempts, started>>

\* `is_race`: git is called once more, after a while.
GitRaces(c) ==
  /\ call[c] = "git" /\ attempts = 1 /\ call' = [call EXCEPT ![c] = "retry-wait"]
  /\ UNCHANGED <<now, inflight, lastOk, attempts, started, result>>

Retry(c) ==
  /\ call[c] = "retry-wait" /\ call' = [call EXCEPT ![c] = "git"] /\ attempts' = 2 /\ started' = now
  /\ UNCHANGED <<now, inflight, lastOk, result>>

GitFails(c) ==
  /\ call[c] = "git" /\ Settle("woken", Never)
  /\ UNCHANGED <<now, lastOk, attempts, started>>

\* The call that fetches is cancelled: the joiners are told, for nobody else would settle the future.
\* Mutant of CancelFetch: only the entry is cleared.
CancelFetchAlone(c) ==
  /\ call[c] \in Fetching /\ inflight' = {} /\ call' = [call EXCEPT ![c] = "away"]
  /\ UNCHANGED <<now, lastOk, attempts, started, result>>
CancelFetch(c) ==
  /\ call[c] \in Fetching /\ Settle("away", Never)
  /\ UNCHANGED <<now, lastOk, attempts, started>>

\* A joiner is cancelled, which the shield keeps from the future; or a call takes its answer.
Return(c) ==
  /\ call[c] \in {"joined", "woken"} /\ call' = [call EXCEPT ![c] = "away"]
  /\ UNCHANGED <<now, inflight, lastOk, attempts, started, result>>

Tick == now < MaxTime /\ now' = now + 1 /\ UNCHANGED <<inflight, lastOk, call, attempts, started, result>>

Init ==
  /\ now = 1 /\ inflight = {} /\ lastOk = Never /\ attempts = 0 /\ started = Never
  /\ call = [c \in Callers |-> "away"] /\ result = [c \in Callers |-> Never]

Next ==
  \/ \E c \in Callers :
       \/ Join(c) \/ Reused(c) \/ Fetch(c) \/ GitEnds(c) \/ GitRaces(c) \/ Retry(c) \/ GitFails(c)
       \/ CancelFetch(c) \/ Return(c)
  \/ Tick

Spec == Init /\ [][Next]_vars

-----------------------------------------------------------------------------

\* The table, the clock and the calls have the shape the coordinator keeps.
TypeOK ==
  /\ now \in Nat /\ inflight \subseteq Callers /\ {lastOk, started} \subseteq 0..now
  /\ call \in [Callers -> Fetching \cup {"away", "joined", "woken"}]
  /\ attempts \in 0..2 /\ result \in [Callers -> 0..now]

\* What callers see of a call.
Seen(c) == CASE call[c] = "away" -> "away" [] call[c] = "woken" -> "answered" [] OTHER -> "waits"

Promise == INSTANCE TrunkReads WITH
  began <- IF inflight = {} THEN Never ELSE started,
  last <- lastOk,
  at <- [c \in Callers |-> Seen(c)],
  answer <- result

\* The coordinator keeps its promise: it never fetches twice at once nor lets a caller wait for a
\* fetch that is over, and every answer is of a fetch that ended while its caller asked or of one
\* recent enough.
KeepsPromise == Promise!Spec
=============================================================================
