---------------------------- MODULE AttemptStore ----------------------------
(***************************************************************************)
(* The attempts of one workspace as coscc/runner/queue.py keeps them: the  *)
(* rows of `attempts` with the last of their `attempt_moves`, the table of *)
(* moves each machine has, and the scheduler that moves the oldest queued  *)
(* attempts on while a slot of their kind is free.                         *)
(*                                                                         *)
(* The database is `att` and the setting `parallel`; every operation is an *)
(* operator from the rows before it to the rows after it, so that a        *)
(* handler that makes several of them between two awaits is one action.    *)
(* `hold` stands for the three short machines (hold, rounds, estimate),    *)
(* which share one table and take no slot.                                 *)
(***************************************************************************)
EXTENDS Integers, FiniteSets

CONSTANTS Units,        \* the work units of the workspace
          NoUnit,       \* what an attempt not opened yet is of
          MaxAttempts,  \* bound: how many attempts are ever opened
          MaxParallel   \* bound: the highest `max_parallel` a person sets

ASSUME StoreAssumption == /\ NoUnit \notin Units
                          /\ MaxAttempts \in Nat
                          /\ MaxParallel \in Nat \ {0}

VARIABLES att,       \* the rows of `attempts`, each with its last move
          parallel   \* the workspace's `max_parallel` setting

Ids == 1 .. MaxAttempts

Machines == {"step", "integration", "hold"}

\* The moves of each machine: pairs of a state and one it may go to.
MACHINES ==
  [step        |-> {<<"queued", "preparing">>, <<"queued", "ended">>, <<"queued", "refused">>,
                    <<"preparing", "running">>, <<"preparing", "ended">>,
                    <<"preparing", "refused">>,
                    <<"running", "ending">>, <<"running", "ended">>,
                    <<"ending", "ended">>},
   integration |-> {<<"queued", "running">>, <<"queued", "ended">>, <<"queued", "refused">>,
                    <<"running", "ending">>, <<"running", "ended">>, <<"running", "refused">>,
                    <<"ending", "ended">>},
   hold        |-> {<<"queued", "running">>, <<"queued", "ended">>, <<"queued", "refused">>,
                    <<"running", "ended">>}]

ENDS == {"ended", "refused"}

HOLDING == {"preparing", "running", "ending"}

Unfinished == {"queued"} \cup HOLDING

STOPPABLE == {"step", "integration"}

Slots == {"agent", "heavy"}

\* The kind of slot a machine waits for; "none" for one that takes no slot.
SLOTS(m) == CASE m = "step" -> "agent" [] m = "integration" -> "heavy" [] OTHER -> "none"

\* Where the scheduler sends an attempt that gets its slot.
FIRST(m) == IF m = "step" THEN "preparing" ELSE "running"

\* Agent sessions at once: max_parallel.  Heavy work: one.
Capacity(slot) == IF slot = "agent" THEN parallel ELSE 1

\* What an attempt ends with; "code" is any reason code of a refusal.
Outcomes == {"", "done", "failed", "stopped", "stop_late", "interrupted", "paused-budget", "code"}

\* A row; one that is not written yet ("none") is of no unit.
Row == {r \in [machine : Machines, unit : Units \cup {NoUnit},
               state : {"none"} \cup Unfinished \cup ENDS, outcome : Outcomes, stop : BOOLEAN] :
          r.unit = NoUnit => r.state = "none"}

NoRow == [machine |-> "step", unit |-> NoUnit, state |-> "none", outcome |-> "", stop |-> FALSE]

-----------------------------------------------------------------------------
(* Reading.                                                                *)

Live(a, u) == {i \in Ids : a[i].unit = u /\ a[i].state \in Unfinished}

Waiting(a, slot) == {i \in Ids : a[i].state = "queued" /\ SLOTS(a[i].machine) = slot}

Held(a, slot) == {i \in Ids : a[i].state \in HOLDING /\ SLOTS(a[i].machine) = slot}

\* The id the next insert gets: ids are given in order and never reused.
IsNextId(a, i) == a[i].state = "none" /\ \A j \in Ids : j < i => a[j].state # "none"

-----------------------------------------------------------------------------
(* The one way a state changes.                                            *)

\* Mutant of MayOpen: the check overlooks an attempt still in the queue.
MayOpenOverlooksQueue(a, u) == ~\E i \in Ids : a[i].unit = u /\ a[i].state \in HOLDING

\* A new attempt of `u` in `entry`; its caller asks MayOpen first.
MayOpen(a, u) == Live(a, u) = {}

Opened(a, i, m, u, entry) ==
  [a EXCEPT ![i] = [machine |-> m, unit |-> u, state |-> entry, outcome |-> "", stop |-> FALSE]]

MayMove(a, i, to) == <<a[i].state, to>> \in MACHINES[a[i].machine]

\* A move the table does not have is `Illegal` and writes nothing.
Moved(a, i, to, outcome) ==
  IF MayMove(a, i, to)
  THEN [a EXCEPT ![i] = [@ EXCEPT !.state = to,
                                  !.outcome = IF to \in ENDS THEN outcome ELSE ""]]
  ELSE a

\* Only the first Stop is written: the flag stays.
StopAsked(a, i) == [a EXCEPT ![i] = [@ EXCEPT !.stop = TRUE]]

-----------------------------------------------------------------------------
(* The scheduler.                                                          *)

\* Mutant of Admitted: the newest first.
AdmittedNewestFirst(a) ==
  {i \in Ids : /\ a[i].state = "queued"
               /\ SLOTS(a[i].machine) \in Slots
               /\ LET slot == SLOTS(a[i].machine)
                  IN Cardinality({j \in Waiting(a, slot) : j > i})
                       < Capacity(slot) - Cardinality(Held(a, slot))}

\* The queued attempts a wake moves on: of each kind, the oldest, as many as slots are free.
Admitted(a) ==
  {i \in Ids : /\ a[i].state = "queued"
               /\ SLOTS(a[i].machine) \in Slots
               /\ LET slot == SLOTS(a[i].machine)
                  IN Cardinality({j \in Waiting(a, slot) : j < i})
                       < Capacity(slot) - Cardinality(Held(a, slot))}

\* The queue after a wake.  Every move and every open publishes an event the scheduler hears
\* before the publish returns, so the rows any handler leaves are woken ones.
Woken(a, admitting) ==
  [i \in Ids |-> IF admitting /\ i \in Admitted(a)
                 THEN [a[i] EXCEPT !.state = FIRST(a[i].machine)]
                 ELSE a[i]]

-----------------------------------------------------------------------------
(* What rows are for.                                                      *)

\* The rows as locks: an unfinished attempt holds its unit, and its id is the ticket.
Lock == INSTANCE UnitLock WITH
          Tickets <- Ids,
          holds <- [u \in Units |-> Live(att, u)],
          given <- {i \in Ids : att[i].state # "none"}

\* An attempt is a lock on its unit.
KeepsUnitLock == Lock!Spec
=============================================================================
