------------------------------ MODULE UnitLock ------------------------------
(***************************************************************************)
(* What `open` and the moves of coscc/runner/queue.py promise all who      *)
(* work on a unit: an attempt is a lock on its unit.  One holds it at a    *)
(* time; whoever takes it gets a ticket newer than every ticket before,    *)
(* and a lock given up, by its holder, a Stop or a start, is not taken     *)
(* back with an old one.  Who takes it and why, what its holder does, and  *)
(* what waits for a slot are the business of the modules that keep rows.   *)
(***************************************************************************)
EXTENDS Naturals

CONSTANTS Units, Tickets

VARIABLES holds, \* the tickets that hold each unit
          given  \* the tickets given so far
vars == <<holds, given>>

Init == holds = [u \in Units |-> {}] /\ given = {}

Take(u, t) ==
  /\ holds[u] = {} /\ \A s \in given : s < t
  /\ holds' = [holds EXCEPT ![u] = {t}] /\ given' = given \cup {t}

\* A start gives up those of many units at once.
GiveUp(S) ==
  /\ holds' = [u \in Units |-> IF u \in S THEN {} ELSE holds[u]]
  /\ UNCHANGED given

Next == (\E u \in Units, t \in Tickets : Take(u, t)) \/ (\E S \in SUBSET Units : GiveUp(S))

Spec == Init /\ [][Next]_vars
=============================================================================
