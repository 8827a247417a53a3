-------------------------- MODULE TriggersProofs ---------------------------
(***************************************************************************)
(* Theorems about Triggers (T of MCParts), for any agents, whoever follows *)
(* whom, any callers of Leif's tool, any runs, crashes and midnights.  The *)
(* inductive invariant is in two parts: what the rows, the holds and the   *)
(* due rows say of each other, and what Leif's callers counted.            *)
(***************************************************************************)
EXTENDS MCParts, FiniteSets, SequenceTheorems, FiniteSetTheorems, TLAPS

-----------------------------------------------------------------------------
(* Rows, holds and what agents are due for.  They are arguments, because   *)
(* one action of Triggers lets a run go, hears its end and begins another. *)

Run == [agent : Agents, by : {"manual", "leif", "event", "schedule"}, from : Nat, night : Nat,
        at : {"held", "started", "ended", "over", "gone", "done"}, well : BOOLEAN]

GoingOn == {"held", "started", "ended", "over"}

\* A run whose end was heard, or never will be.
Past(rows, i) == i \in 1..Len(rows) /\ rows[i].at \notin GoingOn

\* A run that goes holds its agent, and who is held is held by such a run.
Holds(rows, free) ==
  /\ \A i \in 1..Len(rows) : rows[i].at \in GoingOn => free[rows[i].agent] = i
  /\ \A a \in Agents : free[a] # 0 =>
       free[a] \in 1..Len(rows) /\ rows[free[a]].agent = a /\ rows[free[a]].at \in GoingOn

\* An end that may start f: of a run that is past and was done well, of the agent f follows.
StartsIt(rows, f, i) == Past(rows, i) /\ rows[i].agent = Leader[f] /\ rows[i].well

\* The run i started one of f.
Started(rows, f, i) == \E j \in 1..Len(rows) : rows[j].by = "event" /\ rows[j].agent = f /\ rows[j].from = i

DueIsHeard(rows, d) == \A f \in Agents : d[f] # 0 => StartsIt(rows, f, d[f])

\* EndHandedOnce, of these rows and what is due.
HandedOnce(rows, d) ==
  \A i \in 1..Len(rows) : rows[i].by = "event" =>
    /\ StartsIt(rows, rows[i].agent, rows[i].from) /\ d[rows[i].agent] # rows[i].from
    /\ \A j \in 1..Len(rows) :
         rows[j].by = "event" /\ rows[j].agent = rows[i].agent /\ rows[j].from = rows[i].from => j = i

RowsOK(rows, free, d) ==
  /\ rows \in Seq(Run) /\ free \in [Agents -> Nat] /\ d \in [Agents -> Nat]
  /\ Holds(rows, free) /\ DueIsHeard(rows, d) /\ HandedOnce(rows, d)

\* A row is a run.
LEMMA RowIsRun ==
  ASSUME NEW rows \in Seq(Run), NEW i \in 1..Len(rows)
  PROVE  rows[i] \in Run /\ rows[i].agent \in Agents
<1>1. rows[i] \in Run
  BY ElementOfSeq
<1> QED
  BY <1>1 DEF Run

\* A run that goes moves, ends or is through: nobody is let go of, and what is past stays past.
LEMMA RunMoves ==
  ASSUME NEW rows, NEW free, NEW d, RowsOK(rows, free, d),
         NEW i \in 1..Len(rows), NEW r \in Run,
         r.agent = rows[i].agent, r.by = rows[i].by, r.from = rows[i].from,
         r.at \in GoingOn <=> rows[i].at \in GoingOn,
         r.at \notin GoingOn => r.well = rows[i].well
  PROVE  RowsOK([rows EXCEPT ![i] = r], free, d)
<1> DEFINE new == [rows EXCEPT ![i] = r]
<1>1. new \in Seq(Run) /\ Len(new) = Len(rows) /\ \A j \in 1..Len(rows) : new[j] = IF j = i THEN r ELSE rows[j]
  BY ExceptSeq DEF RowsOK
<1> HIDE DEF new
<1>2. \A j \in 1..Len(rows) :
        /\ new[j].agent = rows[j].agent /\ new[j].by = rows[j].by /\ new[j].from = rows[j].from
        /\ new[j].at \in GoingOn <=> rows[j].at \in GoingOn
        /\ new[j].at \notin GoingOn => new[j].well = rows[j].well
  BY <1>1
<1>3. Holds(new, free)
  BY <1>1, <1>2 DEF RowsOK, Holds
<1>4. ASSUME NEW f, NEW k, StartsIt(rows, f, k) PROVE StartsIt(new, f, k)
  BY <1>1, <1>2, <1>4 DEF StartsIt, Past
<1>5. DueIsHeard(new, d)
  BY <1>4 DEF RowsOK, DueIsHeard
<1>6. HandedOnce(new, d)
  BY <1>1, <1>2, <1>4 DEF RowsOK, HandedOnce
<1> QED
  BY <1>1, <1>3, <1>5, <1>6 DEF RowsOK, new

\* A run begins of an agent nobody holds; one an end starts is of an end that started none of its
\* agent, nor is one due for it.
LEMMA RunBegins ==
  ASSUME NEW rows, NEW free, NEW d, RowsOK(rows, free, d),
         NEW r \in Run, r.at \in GoingOn, free[r.agent] = 0,
         r.by = "event" => /\ StartsIt(rows, r.agent, r.from)
                           /\ ~Started(rows, r.agent, r.from) /\ d[r.agent] # r.from
  PROVE  RowsOK(Append(rows, r), [free EXCEPT ![r.agent] = Len(rows) + 1], d)
<1> DEFINE new == Append(rows, r)
           held1 == [free EXCEPT ![r.agent] = Len(rows) + 1]
<1>0. Len(rows) \in Nat /\ r.agent \in Agents
  BY DEF RowsOK, Run
<1>1. /\ new \in Seq(Run) /\ Len(new) = Len(rows) + 1
      /\ \A j \in 1..Len(rows) : new[j] = rows[j]
      /\ new[Len(rows) + 1] = r
  BY AppendProperties DEF RowsOK
<1>2. /\ held1 \in [Agents -> Nat] /\ held1[r.agent] = Len(rows) + 1
      /\ \A a \in Agents : a # r.agent => held1[a] = free[a]
  BY <1>0 DEF RowsOK
<1> HIDE DEF new, held1
<1>3. 1..Len(new) = 1..Len(rows) \cup {Len(rows) + 1} /\ Len(rows) + 1 # 0
  BY <1>0, <1>1
<1>4. Holds(new, held1)
  <2>1. ASSUME NEW j \in 1..Len(new), new[j].at \in GoingOn PROVE held1[new[j].agent] = j
    <3>1. CASE j = Len(rows) + 1
      BY <1>1, <1>2, <3>1
    <3>2. CASE j \in 1..Len(rows)
      <4>1. free[rows[j].agent] = j /\ rows[j].agent \in Agents /\ j # 0
        BY <1>0, <1>1, <2>1, <3>2, RowIsRun DEF RowsOK, Holds
      <4> QED
        BY <1>1, <1>2, <3>2, <4>1
    <3> QED
      BY <1>3, <3>1, <3>2
  <2>2. ASSUME NEW a \in Agents, held1[a] # 0
        PROVE  held1[a] \in 1..Len(new) /\ new[held1[a]].agent = a /\ new[held1[a]].at \in GoingOn
    <3>1. CASE a = r.agent
      BY <1>1, <1>2, <1>3, <3>1
    <3>2. CASE a # r.agent
      BY <1>1, <1>2, <1>3, <2>2, <3>2 DEF RowsOK, Holds
    <3> QED
      BY <3>1, <3>2
  <2> QED
    BY <2>1, <2>2 DEF Holds
<1>5. ASSUME NEW f, NEW k, StartsIt(rows, f, k) PROVE StartsIt(new, f, k)
  BY <1>1, <1>3, <1>5 DEF StartsIt, Past
<1>6. DueIsHeard(new, d)
  BY <1>5 DEF RowsOK, DueIsHeard
<1>7. HandedOnce(new, d)
  <2>1. ASSUME NEW j \in 1..Len(new), new[j].by = "event"
        PROVE  StartsIt(new, new[j].agent, new[j].from) /\ d[new[j].agent] # new[j].from
    <3>1. CASE j = Len(rows) + 1
      BY <1>1, <1>5, <2>1, <3>1
    <3>2. CASE j \in 1..Len(rows)
      BY <1>1, <1>5, <2>1, <3>2 DEF RowsOK, HandedOnce
    <3> QED
      BY <1>3, <3>1, <3>2
  <2>2. ASSUME NEW j \in 1..Len(new), new[j].by = "event", NEW k \in 1..Len(new), new[k].by = "event",
               new[k].agent = new[j].agent, new[k].from = new[j].from
        PROVE  k = j
    <3>1. CASE j = Len(rows) + 1 /\ k \in 1..Len(rows)
      BY <1>1, <2>2, <3>1 DEF Started
    <3>2. CASE k = Len(rows) + 1 /\ j \in 1..Len(rows)
      BY <1>1, <2>2, <3>2 DEF Started
    <3>3. CASE k \in 1..Len(rows) /\ j \in 1..Len(rows)
      BY <1>1, <2>2, <3>3 DEF RowsOK, HandedOnce
    <3> QED
      BY <1>3, <3>1, <3>2, <3>3
  <2> QED
    BY <2>1, <2>2 DEF HandedOnce
<1> QED
  BY <1>1, <1>2, <1>4, <1>6, <1>7 DEF RowsOK, new, held1

\* A due row goes.
LEMMA DueGoes ==
  ASSUME NEW rows, NEW free, NEW d, RowsOK(rows, free, d), NEW f \in Agents
  PROVE  RowsOK(rows, free, [d EXCEPT ![f] = 0])
<1>1. ASSUME NEW i \in 1..Len(rows), rows[i].by = "event" PROVE rows[i].from # 0 /\ rows[i].agent \in Agents
  BY <1>1, RowIsRun DEF RowsOK, HandedOnce, StartsIt, Past
<1> QED
  BY <1>1 DEF RowsOK, DueIsHeard, HandedOnce

\* The run i goes no more, as r has it.
Ends(rows, i, r) ==
  /\ i \in 1..Len(rows) /\ rows[i].at \in GoingOn /\ r \in Run /\ r.at \notin GoingOn
  /\ r.agent = rows[i].agent /\ r.by = rows[i].by /\ r.from = rows[i].from /\ r.well = rows[i].well

\* Some of those the end of the run i starts are due for it.
MadeDue(rows, d, i, d1) ==
  /\ d1 \in [Agents -> Nat]
  /\ \A f \in Agents : d1[f] = d[f] \/ (d1[f] = i /\ Leader[f] = rows[i].agent /\ rows[i].well)

\* A run that is over is let go of and its end is heard: some of those it starts are due for it, and
\* of the others it started none.
LEMMA EndHeard ==
  ASSUME NEW rows, NEW free, NEW d, RowsOK(rows, free, d),
         NEW i, NEW r, Ends(rows, i, r), NEW d1, MadeDue(rows, d, i, d1)
  PROVE  /\ RowsOK([rows EXCEPT ![i] = r], [free EXCEPT ![r.agent] = 0], d1)
         /\ \A f \in Agents : ~Started(rows, f, i) /\ d[f] # i
<1> USE DEF Ends, MadeDue
<1> DEFINE new == [rows EXCEPT ![i] = r]
           free1 == [free EXCEPT ![r.agent] = 0]
<1>0. rows[i] \in Run /\ i \in Nat \ {0}
  BY RowIsRun DEF RowsOK, GoingOn
<1>2. new \in Seq(Run) /\ Len(new) = Len(rows) /\ \A j \in 1..Len(rows) : new[j] = IF j = i THEN r ELSE rows[j]
  BY ExceptSeq DEF RowsOK
<1>3. /\ free1 \in [Agents -> Nat] /\ rows[i].agent \in Agents /\ free1[rows[i].agent] = 0
      /\ \A a \in Agents : a # rows[i].agent => free1[a] = free[a]
  BY <1>0 DEF RowsOK, Run
<1>6. \A f \in Agents : ~Started(rows, f, i) /\ d[f] # i
  BY <1>0 DEF RowsOK, HandedOnce, DueIsHeard, StartsIt, Past, Started
<1> HIDE DEF new, free1
<1>7. Holds(new, free1)
  <2>1. ASSUME NEW j \in 1..Len(new), new[j].at \in GoingOn PROVE free1[new[j].agent] = j
    <3>1. j # i /\ new[j] = rows[j] /\ j \in 1..Len(rows)
      BY <1>2, <2>1
    <3>2. free[rows[j].agent] = j /\ free[rows[i].agent] = i /\ rows[j].agent \in Agents
      BY <2>1, <3>1, RowIsRun DEF RowsOK, Holds
    <3> QED
      BY <1>3, <3>1, <3>2
  <2>2. ASSUME NEW a \in Agents, free1[a] # 0
        PROVE  free1[a] \in 1..Len(new) /\ new[free1[a]].agent = a /\ new[free1[a]].at \in GoingOn
    <3>1. a # rows[i].agent /\ free1[a] = free[a]
      BY <1>3, <2>2
    <3>2. free[a] \in 1..Len(rows) /\ rows[free[a]].agent = a /\ rows[free[a]].at \in GoingOn /\ free[a] # i
      BY <2>2, <3>1 DEF RowsOK, Holds
    <3> QED
      BY <1>2, <3>1, <3>2
  <2> QED
    BY <2>1, <2>2 DEF Holds
<1>8. ASSUME NEW f, NEW k, StartsIt(rows, f, k) PROVE StartsIt(new, f, k)
  BY <1>2, <1>8 DEF StartsIt, Past
<1>9. \A f \in Agents : d1[f] # 0 => StartsIt(new, f, d1[f])
  BY <1>2, <1>8 DEF RowsOK, DueIsHeard, StartsIt, Past
<1>10. DueIsHeard(new, d1)
  BY <1>9 DEF DueIsHeard
<1>11. HandedOnce(new, d1)
  <2>1. ASSUME NEW j \in 1..Len(rows)
        PROVE  new[j].by = rows[j].by /\ new[j].agent = rows[j].agent /\ new[j].from = rows[j].from
               /\ rows[j].agent \in Agents
    BY <1>2, RowIsRun DEF RowsOK
  <2>2. ASSUME NEW j \in 1..Len(rows), rows[j].by = "event"
        PROVE  /\ StartsIt(new, rows[j].agent, rows[j].from) /\ d1[rows[j].agent] # rows[j].from
               /\ \A k \in 1..Len(rows) :
                    rows[k].by = "event" /\ rows[k].agent = rows[j].agent /\ rows[k].from = rows[j].from => k = j
    <3>1. rows[j].from # i
      BY <1>6, <2>1, <2>2 DEF Started
    <3> QED
      BY <1>8, <2>1, <2>2, <3>1 DEF RowsOK, HandedOnce
  <2> QED
    BY <1>2, <2>1, <2>2 DEF HandedOnce
<1> QED
  BY <1>2, <1>3, <1>6, <1>7, <1>10, <1>11 DEF RowsOK, new, free1
-----------------------------------------------------------------------------
(* The steps.                                                              *)

\* An agent over its ceiling that is on is held by the run that will turn it off.
OverIsOff == \A a \in over : enabled[a] => running[a] # 0 /\ runs[running[a]].at = "ended"

RowsInv ==
  /\ RowsOK(runs, running, due) /\ OverIsOff
  /\ enabled \in [Agents -> BOOLEAN] /\ over \subseteq Agents /\ nights \in Nat

\* Nothing runs at first.
LEMMA RowsInit == T!Init => RowsInv
<1> SUFFICES ASSUME T!Init PROVE RowsInv
  OBVIOUS
<1>1. runs \in Seq(Run) /\ Len(runs) = 0
  BY DEF T!Init
<1> QED
  BY <1>1 DEF T!Init, RowsInv, RowsOK, OverIsOff, Holds, DueIsHeard, HandedOnce

\* What holding an agent leaves: a new row, held, of that agent and of nobody else.
LEMMA HoldsRun ==
  ASSUME NEW rows, NEW free, NEW d, RowsOK(rows, free, d),
         NEW a \in Agents, NEW by \in {"manual", "leif", "event", "schedule"}, NEW from \in Nat,
         T!HoldRun(rows, free, a, by, from),
         by = "event" => StartsIt(rows, a, from) /\ ~Started(rows, a, from) /\ d[a] # from
  PROVE  /\ RowsOK(runs', running', d) /\ free[a] = 0
         /\ running' = [free EXCEPT ![a] = Len(rows) + 1]
         /\ Len(runs') = Len(rows) + 1 /\ \A j \in 1..Len(rows) : runs'[j] = rows[j]
         /\ runs'[Len(rows) + 1].agent = a /\ runs'[Len(rows) + 1].by = by
         /\ runs'[Len(rows) + 1].night = 0 /\ runs'[Len(rows) + 1].at = "held"
<1> DEFINE r == [agent |-> a, by |-> by, from |-> from, at |-> "held", well |-> FALSE, night |-> 0]
<1>1. r \in Run /\ r.at \in GoingOn /\ free[r.agent] = 0
  BY DEF T!HoldRun, Run, GoingOn
<1>2. runs' = Append(rows, r) /\ running' = [free EXCEPT ![a] = Len(rows) + 1]
  BY DEF T!HoldRun
<1>3. r.agent = a /\ r.by = by /\ r.from = from /\ r.night = 0 /\ r.at = "held"
  OBVIOUS
<1>4. rows \in Seq(Run)
  BY DEF RowsOK
<1> HIDE DEF r
<1>5. RowsOK(Append(rows, r), [free EXCEPT ![r.agent] = Len(rows) + 1], d)
  BY <1>1, <1>3, RunBegins
<1> QED
  BY <1>1, <1>2, <1>3, <1>4, <1>5, AppendProperties

\* A run moves that goes on.
LEMMA MovesRun ==
  ASSUME RowsInv, NEW i \in T!Ids, NEW r \in Run, runs' = [runs EXCEPT ![i] = r],
         r.agent = runs[i].agent, r.by = runs[i].by, r.from = runs[i].from,
         r.at \in GoingOn <=> runs[i].at \in GoingOn,
         r.at \notin GoingOn => r.well = runs[i].well,
         UNCHANGED <<running, due>>
  PROVE  /\ RowsOK(runs', running', due')
         /\ Len(runs') = Len(runs) /\ \A j \in 1..Len(runs) : runs'[j] = IF j = i THEN r ELSE runs[j]
<1>1. runs \in Seq(Run)
  BY DEF RowsInv, RowsOK
<1>2. RowsOK([runs EXCEPT ![i] = r], running, due)
  BY RunMoves DEF RowsInv, T!Ids
<1> QED
  BY <1>1, <1>2, ExceptSeq DEF T!Ids

\* A run at its ceiling keeps its agent.
LEMMA OverStays ==
  ASSUME RowsInv, UNCHANGED <<enabled, over>>,
         \A a \in Agents : running[a] # 0 /\ runs[running[a]].at = "ended"
                           => running'[a] = running[a] /\ runs'[running[a]].at = "ended"
  PROVE  OverIsOff'
  BY DEF RowsInv, OverIsOff

\* Every step of triggers.py keeps what rows, holds and due rows say of each other.
LEMMA RowsStep == RowsInv /\ [T!Next]_T!vars => RowsInv'
<1> SUFFICES ASSUME RowsInv, [T!Next]_T!vars PROVE RowsInv'
  OBVIOUS
<1> USE PartsAssumption DEF T!TriggersConstants
<1>0. runs \in Seq(Run) /\ RowsOK(runs, running, due) /\ 0 \in Nat
  BY DEF RowsInv, RowsOK
\* A run begun of an agent nobody holds, from what is there or from nothing.
<1>1. ASSUME NEW a \in Agents, NEW by \in {"manual", "leif", "schedule"}, T!HoldRun(runs, running, a, by, 0),
             UNCHANGED <<enabled, due, over, nights>>
      PROVE  RowsInv'
  <2>1. /\ RowsOK(runs', running', due) /\ running[a] = 0 /\ running' = [running EXCEPT ![a] = Len(runs) + 1]
        /\ \A j \in 1..Len(runs) : runs'[j] = runs[j]
    BY <1>0, <1>1, HoldsRun
  <2>2. ASSUME NEW b \in Agents, running[b] # 0 PROVE running'[b] = running[b] /\ runs'[running[b]] = runs[running[b]]
    <3>1. running[b] \in 1..Len(runs) /\ b # a /\ running \in [Agents -> Nat]
      BY <2>1, <2>2 DEF RowsInv, RowsOK, Holds
    <3> QED
      BY <2>1, <3>1
  <2>3. OverIsOff'
    BY <1>1, <2>2, OverStays
  <2> QED
    BY <1>1, <2>1, <2>3 DEF RowsInv
<1>2. ASSUME NEW a \in Agents, T!Press(a) \/ T!TickSchedule(a) PROVE RowsInv'
  BY <1>1, <1>2 DEF T!Press, T!TickSchedule
<1>3. ASSUME UNCHANGED <<runs, running, enabled, due, over>>, nights' \in Nat PROVE RowsInv'
  BY <1>3 DEF RowsInv, OverIsOff
<1>4. ASSUME NEW c \in LeifCalls, T!CountHeld(c) \/ T!TakePlace(c) PROVE RowsInv'
  BY <1>3, <1>4 DEF T!CountHeld, T!TakePlace, RowsInv
<1>5. ASSUME NEW c \in LeifCalls, T!Begin(c) PROVE RowsInv'
  BY <1>1, <1>3, <1>5 DEF T!Begin, RowsInv
\* A run moves that is not at its ceiling.
<1>6. ASSUME NEW i \in T!Ids, NEW r \in Run, runs' = [runs EXCEPT ![i] = r],
             r.agent = runs[i].agent, r.by = runs[i].by, r.from = runs[i].from,
             r.at \in GoingOn <=> runs[i].at \in GoingOn,
             r.at \notin GoingOn => r.well = runs[i].well, runs[i].at # "ended",
             UNCHANGED <<running, due, enabled, over, nights>>
      PROVE  RowsInv'
  <2>1. /\ RowsOK(runs', running', due')
        /\ Len(runs') = Len(runs) /\ \A j \in 1..Len(runs) : runs'[j] = IF j = i THEN r ELSE runs[j]
    BY <1>6, MovesRun
  <2>2. \A a \in Agents : running[a] # 0 /\ runs[running[a]].at = "ended" => runs'[running[a]].at = "ended"
    BY <1>6, <2>1 DEF RowsInv, RowsOK, Holds, T!Ids
  <2>3. OverIsOff'
    BY <1>6, <2>2, OverStays
  <2> QED
    BY <1>6, <2>1, <2>3 DEF RowsInv
<1>7. ASSUME NEW i \in T!Ids, T!WriteStart(i) \/ T!EndsUnstarted(i) \/ T!WriteEnd(i) \/ T!Discard(i) PROVE RowsInv'
  <2>1. runs[i] \in Run
    BY <1>0, RowIsRun DEF T!Ids
  <2>2. CASE T!WriteStart(i)
    <3> DEFINE r == [runs[i] EXCEPT !.at = "started", !.night = IF runs[i].by = "leif" THEN nights + 1 ELSE 0]
    <3>0. (IF runs[i].by = "leif" THEN nights + 1 ELSE 0) \in Nat
      BY DEF RowsInv
    <3>1. r \in Run
      BY <2>1, <3>0 DEF Run
    <3>3. runs' = [runs EXCEPT ![i] = r]
      BY <2>2 DEF T!WriteStart
    <3>2. r.agent = runs[i].agent /\ r.by = runs[i].by /\ r.from = runs[i].from /\ r.at = "started"
      BY <2>1 DEF Run
    <3> HIDE DEF r
    <3> QED
      BY <1>6, <2>2, <3>1, <3>2, <3>3 DEF T!WriteStart, GoingOn
  <2>3. ASSUME NEW to \in {"over", "done"}, T!Move(i, to), runs[i].at # "ended",
               to \in GoingOn <=> runs[i].at \in GoingOn, UNCHANGED <<running, due, enabled, over, nights>>
        PROVE  RowsInv'
    <3> DEFINE r == [runs[i] EXCEPT !.at = to]
    <3>1. r \in Run /\ runs' = [runs EXCEPT ![i] = r]
      BY <2>1, <2>3 DEF T!Move, Run
    <3>2. r.agent = runs[i].agent /\ r.by = runs[i].by /\ r.from = runs[i].from /\ r.at = to /\ r.well = runs[i].well
      BY <2>1 DEF Run
    <3> HIDE DEF r
    <3> QED
      BY <1>6, <2>3, <3>1, <3>2
  <2>4. CASE T!EndsUnstarted(i) \/ T!Discard(i)
    BY <2>3, <2>4 DEF T!EndsUnstarted, T!Discard, GoingOn
  <2>5. CASE T!WriteEnd(i)
    <3>1. PICK well \in BOOLEAN : runs' = [runs EXCEPT ![i].at = "over", ![i].well = well]
      BY <2>5 DEF T!WriteEnd
    <3> DEFINE r == [runs[i] EXCEPT !.at = "over", !.well = well]
    <3>2. r \in Run /\ runs' = [runs EXCEPT ![i] = r]
      BY <2>1, <3>1 DEF Run
    <3>3. r.agent = runs[i].agent /\ r.by = runs[i].by /\ r.from = runs[i].from /\ r.at = "over"
      BY <2>1 DEF Run
    <3> HIDE DEF r
    <3> QED
      BY <1>6, <2>5, <3>2, <3>3 DEF T!WriteEnd, GoingOn
  <2> QED
    BY <1>7, <2>2, <2>4, <2>5
\* It meets its ceiling, and then turns its agent off or fails to.
<1>8. ASSUME NEW i \in T!Ids, NEW from, NEW to, <<from, to>> \in {<<"started", "ended">>, <<"ended", "over">>},
             runs[i].at = from, T!Move(i, to), UNCHANGED <<running, due>>
      PROVE  /\ RowsOK(runs', running', due') /\ runs[i].agent \in Agents /\ running[runs[i].agent] = i
             /\ \A j \in 1..Len(runs) : runs'[j].at = IF j = i THEN to ELSE runs[j].at
  <2>1. runs[i] \in Run /\ runs[i].agent \in Agents /\ to \in {"ended", "over"} /\ from \in GoingOn
    BY <1>0, <1>8, RowIsRun DEF T!Ids, GoingOn
  <2> DEFINE r == [runs[i] EXCEPT !.at = to]
  <2>2. r \in Run /\ runs' = [runs EXCEPT ![i] = r]
    BY <1>8, <2>1 DEF T!Move, Run
  <2>3. r.agent = runs[i].agent /\ r.by = runs[i].by /\ r.from = runs[i].from /\ r.at = to /\ to \in GoingOn
    BY <2>1 DEF Run, GoingOn
  <2> HIDE DEF r
  <2>4. RowsOK(runs', running', due') /\ \A j \in 1..Len(runs) : runs'[j] = IF j = i THEN r ELSE runs[j]
    BY <1>8, <2>1, <2>2, <2>3, MovesRun
  <2> QED
    BY <1>8, <2>1, <2>3, <2>4 DEF RowsInv, RowsOK, Holds, T!Ids
<1>9. ASSUME NEW i \in T!Ids, T!MeetCeiling(i) PROVE RowsInv'
  <2>1. /\ RowsOK(runs', running', due') /\ runs[i].agent \in Agents /\ running[runs[i].agent] = i
        /\ \A j \in 1..Len(runs) : runs'[j].at = IF j = i THEN "ended" ELSE runs[j].at
    BY <1>8, <1>9 DEF T!MeetCeiling
  <2>2. ASSUME NEW a \in over', enabled'[a] PROVE running'[a] # 0 /\ runs'[running'[a]].at = "ended"
    <3>1. CASE a = runs[i].agent
      BY <1>9, <2>1, <3>1 DEF T!MeetCeiling, T!Ids
    <3>2. CASE a \in over
      BY <1>9, <2>1, <2>2, <3>2 DEF T!MeetCeiling, T!Ids, RowsInv, RowsOK, Holds, OverIsOff
    <3> QED
      BY <1>9, <3>1, <3>2 DEF T!MeetCeiling
  <2> QED
    BY <1>9, <2>1, <2>2 DEF T!MeetCeiling, RowsInv, OverIsOff
<1>10. ASSUME NEW i \in T!Ids, T!TurnOff(i) PROVE RowsInv'
  <2>1. /\ RowsOK(runs', running', due') /\ runs[i].agent \in Agents /\ running[runs[i].agent] = i
        /\ \A j \in 1..Len(runs) : runs'[j].at = IF j = i THEN "over" ELSE runs[j].at
    BY <1>8, <1>10 DEF T!TurnOff
  <2>2. /\ over' \subseteq over /\ enabled' \in [Agents -> BOOLEAN]
        /\ \A a \in over' : enabled'[a] => a # runs[i].agent /\ enabled[a]
    <3>1. CASE enabled' = [enabled EXCEPT ![runs[i].agent] = FALSE] /\ over' = over
      BY <2>1, <3>1 DEF RowsInv
    <3>2. CASE enabled' = enabled /\ over' = over \ {runs[i].agent}
      BY <2>1, <3>2 DEF RowsInv
    <3> QED
      BY <1>10, <3>1, <3>2 DEF T!TurnOff
  <2>3. ASSUME NEW a \in over', enabled'[a] PROVE running'[a] # 0 /\ runs'[running'[a]].at = "ended"
    <3>1. a \in over /\ a \in Agents /\ a # runs[i].agent /\ enabled[a]
      BY <2>2, <2>3 DEF RowsInv
    <3>2. running[a] # 0 /\ runs[running[a]].at = "ended" /\ running[a] \in 1..Len(runs) /\ runs[running[a]].agent = a
      BY <3>1 DEF RowsInv, OverIsOff, RowsOK, Holds
    <3>3. running' = running
      BY <1>10 DEF T!TurnOff
    <3> QED
      BY <2>1, <3>1, <3>2, <3>3
  <2> QED
    BY <1>10, <2>1, <2>2, <2>3 DEF T!TurnOff, RowsInv, OverIsOff
\* A run is let go of; those its end makes due are due, and one of those it starts may start.
<1>11. ASSUME NEW i \in T!Ids, T!Release(i) PROVE RowsInv'
  <2>0. runs[i] \in Run /\ runs[i].agent \in Agents /\ i \in 1..Len(runs) /\ i \in Nat \ {0} /\ Len(runs) \in Nat
    BY <1>0, RowIsRun DEF T!Ids
  <2>1. runs[i].at = "over" /\ UNCHANGED <<enabled, over, nights>>
    BY <1>11 DEF T!Release, T!MayRelease
  <2> DEFINE to == IF i \in held THEN "gone" ELSE "done"
             rows == [runs EXCEPT ![i].at = to]
             free == [running EXCEPT ![runs[i].agent] = 0]
  <2>2. PICK heard \in [T!Hears(i) -> {"due", "refused", "starts"}] :
          LET go == {f \in T!Hears(i) : heard[f] = "starts"}
          IN /\ due' = [f \in Agents |-> IF f \in T!Hears(i) /\ heard[f] = "due" THEN i ELSE due[f]]
             /\ IF go = {} THEN runs' = rows /\ running' = free
                ELSE \E f \in go : T!HoldRun(rows, free, f, "event", i)
    BY <1>11 DEF T!Release, T!LetGo
  <2>3. due' = [f \in Agents |-> IF f \in T!Hears(i) /\ heard[f] = "due" THEN i ELSE due[f]]
    BY <2>2
  <2> DEFINE d == due'
  <2>4. /\ d \in [Agents -> Nat]
        /\ \A f \in Agents : d[f] = due[f] \/ (d[f] = i /\ Leader[f] = runs[i].agent /\ runs[i].well)
        /\ \A f \in Agents : f \in T!Hears(i) /\ heard[f] = "starts" => d[f] = due[f]
    BY <1>0, <2>0, <2>3 DEF RowsOK, T!Hears
  <2>5. to \in {"gone", "done"} /\ runs[i].at \in GoingOn
    BY <2>1 DEF GoingOn
  <2> DEFINE r == [runs[i] EXCEPT !.at = to]
  <2>a. /\ r \in Run /\ r.agent = runs[i].agent /\ r.by = runs[i].by /\ r.from = runs[i].from
        /\ r.well = runs[i].well /\ r.at \notin GoingOn
    BY <2>0, <2>5 DEF Run, GoingOn
  <2>b. rows = [runs EXCEPT ![i] = r] /\ free = [running EXCEPT ![r.agent] = 0]
    BY <2>a
  <2>6. RowsOK(rows, free, d) /\ \A f \in Agents : ~Started(runs, f, i) /\ due[f] # i
    <3> HIDE DEF d, r
    <3>1. Ends(runs, i, r) /\ MadeDue(runs, due, i, d)
      BY <2>0, <2>4, <2>5, <2>a DEF Ends, MadeDue
    <3>2. /\ RowsOK([runs EXCEPT ![i] = r], [running EXCEPT ![r.agent] = 0], d)
          /\ \A f \in Agents : ~Started(runs, f, i) /\ due[f] # i
      BY <1>0, <3>1, EndHeard
    <3> HIDE DEF rows, free
    <3> QED
      BY <2>b, <3>2
  <2>7. /\ rows \in Seq(Run) /\ Len(rows) = Len(runs)
        /\ \A j \in 1..Len(runs) : rows[j] = IF j = i THEN [runs[i] EXCEPT !.at = to] ELSE runs[j]
    BY <2>0, <2>6 DEF RowsOK
  <2>8. running \in [Agents -> Nat] /\ running[runs[i].agent] = i
    BY <1>0, <2>0, <2>5 DEF RowsOK, Holds
  <2>9. \A a \in Agents : running[a] # 0 /\ runs[running[a]].at = "ended"
                           => /\ running[a] \in 1..Len(runs) /\ running[a] # i /\ free[a] = running[a]
                              /\ rows[running[a]] = runs[running[a]]
    <3>1. ASSUME NEW a \in Agents, running[a] # 0, runs[running[a]].at = "ended"
          PROVE  running[a] \in 1..Len(runs) /\ running[a] # i /\ a # runs[i].agent
      BY <1>0, <2>1, <2>8, <3>1 DEF RowsOK, Holds
    <3> QED
      BY <2>7, <2>8, <3>1
  <2>10. CASE {f \in T!Hears(i) : heard[f] = "starts"} = {}
    <3>1. runs' = rows /\ running' = free
      BY <2>2, <2>10
    <3>2. OverIsOff'
      BY <2>1, <2>9, <3>1, OverStays
    <3> QED
      BY <2>1, <2>3, <2>6, <3>1, <3>2 DEF RowsInv
  <2>11. CASE {f \in T!Hears(i) : heard[f] = "starts"} # {}
    <3>1. PICK f \in T!Hears(i) : heard[f] = "starts" /\ T!HoldRun(rows, free, f, "event", i)
      BY <2>2, <2>11
    <3>2. f \in Agents /\ Leader[f] = runs[i].agent /\ runs[i].well /\ d[f] = due[f]
      BY <2>4, <3>1 DEF T!Hears
    <3>3. StartsIt(rows, f, i)
      BY <2>0, <2>5, <2>7, <3>2 DEF StartsIt, Past, Run, GoingOn
    <3>4. ~Started(rows, f, i) /\ d[f] # i
      <4>1. \A j \in 1..Len(runs) : rows[j].by = runs[j].by /\ rows[j].agent = runs[j].agent /\ rows[j].from = runs[j].from
        BY <2>0, <2>7 DEF Run
      <4> QED
        BY <2>6, <2>7, <3>2, <4>1 DEF Started
    <3> HIDE DEF rows, free, d
    <3>5. /\ RowsOK(runs', running', d) /\ free[f] = 0
          /\ running' = [free EXCEPT ![f] = Len(rows) + 1]
          /\ \A j \in 1..Len(rows) : runs'[j] = rows[j]
      BY <2>0, <2>6, <3>1, <3>2, <3>3, <3>4, HoldsRun
    <3>6. \A a \in Agents : running[a] # 0 /\ runs[running[a]].at = "ended"
                             => running'[a] = running[a] /\ runs'[running[a]].at = "ended"
      BY <2>7, <2>9, <3>2, <3>5 DEF RowsOK
    <3>7. OverIsOff'
      BY <2>1, <3>6, OverStays
    <3> QED
      BY <2>1, <3>5, <3>7 DEF RowsInv, d
  <2> QED
    BY <2>10, <2>11
<1>12. ASSUME NEW f \in Agents, T!TickDue(f) PROVE RowsInv'
  <2> DEFINE d == [due EXCEPT ![f] = 0]
  <2>1. due[f] # 0 /\ due' = d /\ UNCHANGED <<enabled, over, nights>>
    BY <1>12 DEF T!TickDue, T!ClearDue
  <2>2. RowsOK(runs, running, d) /\ due[f] \in Nat /\ d[f] = 0
    BY <1>0, DueGoes DEF RowsOK
  <2>3. StartsIt(runs, f, due[f]) /\ ~Started(runs, f, due[f])
    BY <1>0, <2>1 DEF RowsOK, DueIsHeard, HandedOnce, Started
  <2>4. CASE enabled[f]
    <3>1. T!HoldRun(runs, running, f, "event", due[f])
      BY <1>12, <2>4 DEF T!TickDue
    <3> HIDE DEF d
    <3>2. /\ RowsOK(runs', running', d) /\ running[f] = 0 /\ running' = [running EXCEPT ![f] = Len(runs) + 1]
          /\ \A j \in 1..Len(runs) : runs'[j] = runs[j]
      BY <2>1, <2>2, <2>3, <3>1, HoldsRun
    <3>3. \A b \in Agents : running[b] # 0 => running'[b] = running[b] /\ runs'[running[b]] = runs[running[b]]
      BY <1>0, <3>2 DEF RowsOK, Holds
    <3>4. OverIsOff'
      BY <2>1, <3>3, OverStays
    <3> QED
      BY <2>1, <3>2, <3>4 DEF RowsInv
  <2>5. CASE ~enabled[f]
    BY <1>12, <2>1, <2>2, <2>5 DEF T!TickDue, RowsInv, OverIsOff
  <2> QED
    BY <2>4, <2>5
<1>13. ASSUME NEW a \in Agents, T!Turn(a) PROVE RowsInv'
  <2>1. UNCHANGED <<runs, running, due, nights>> /\ enabled' \in [Agents -> BOOLEAN] /\ over' \subseteq Agents
    BY <1>13 DEF T!Turn, RowsInv
  <2>2. OverIsOff'
    BY <1>13 DEF T!Turn, RowsInv, OverIsOff
  <2> QED
    BY <2>1, <2>2 DEF RowsInv
\* Nothing goes after a crash; what was not yet turned off is not over.
<1>14. ASSUME T!Crash PROVE RowsInv'
  <2>1. /\ runs' = [i \in 1..Len(runs) |-> [runs[i] EXCEPT !.at = "done"]]
        /\ running' = [a \in Agents |-> 0] /\ over' = {a \in over : ~enabled[a]} /\ UNCHANGED <<enabled, due, nights>>
    BY <1>14 DEF T!Crash, T!Ids
  <2>2. ASSUME NEW i \in 1..Len(runs)
        PROVE  /\ [runs[i] EXCEPT !.at = "done"] \in Run /\ runs'[i] = [runs[i] EXCEPT !.at = "done"]
               /\ runs'[i].agent = runs[i].agent /\ runs'[i].by = runs[i].by /\ runs'[i].from = runs[i].from
               /\ runs'[i].at = "done" /\ runs'[i].well = runs[i].well /\ runs[i].agent \in Agents
    <3>1. runs[i] \in Run /\ runs[i].agent \in Agents
      BY <1>0, RowIsRun
    <3> QED
      BY <2>1, <3>1 DEF Run
  <2>3. Len(runs) \in Nat
    BY <1>0
  <2>4. runs' \in Seq(Run) /\ Len(runs') = Len(runs)
    BY <2>1, <2>2, <2>3
  <2>5. ASSUME NEW f, NEW k, StartsIt(runs, f, k) PROVE StartsIt(runs', f, k)
    BY <2>2, <2>4, <2>5 DEF StartsIt, Past, GoingOn
  <2>6. Holds(runs', running')
    BY <2>1, <2>2, <2>4 DEF Holds, GoingOn
  <2>7. DueIsHeard(runs', due')
    BY <1>0, <2>1, <2>5 DEF RowsOK, DueIsHeard
  <2>8. HandedOnce(runs', due')
    BY <1>0, <2>1, <2>2, <2>4, <2>5 DEF RowsOK, HandedOnce
  <2>9. running' \in [Agents -> Nat] /\ due' \in [Agents -> Nat]
    BY <1>0, <2>1 DEF RowsOK
  <2> QED
    BY <2>1, <2>4, <2>6, <2>7, <2>8, <2>9 DEF RowsInv, RowsOK, OverIsOff
<1>15. ASSUME T!Midnight PROVE RowsInv'
  BY <1>3, <1>15 DEF T!Midnight, RowsInv
<1>16. ASSUME UNCHANGED T!vars PROVE RowsInv'
  BY <1>3, <1>16 DEF T!vars, RowsInv
<1> QED
  BY <1>2, <1>4, <1>5, <1>7, <1>9, <1>10, <1>11, <1>12, <1>13, <1>14, <1>15, <1>16 DEF T!Next
-----------------------------------------------------------------------------
(* An end starts a follower once, and who met a ceiling is not started.    *)

\* What they say is that an end is handed once.
LEMMA RowsHold == RowsInv => T!EndHandedOnce
<1> SUFFICES ASSUME RowsInv, NEW i \in T!Ids, runs[i].by = "event"
             PROVE  /\ runs[runs[i].from].agent = Leader[runs[i].agent] /\ runs[runs[i].from].well
                    /\ due[runs[i].agent] # runs[i].from
                    /\ \A j \in T!Ids : runs[j].by = "event" /\ runs[j].agent = runs[i].agent
                                        /\ runs[j].from = runs[i].from => j = i
  BY DEF T!EndHandedOnce
<1> QED
  BY DEF RowsInv, RowsOK, HandedOnce, StartsIt, T!Ids

\* The runs so far, and those a step begins.
Begun(by) ==
  /\ Len(runs') \in Nat /\ Len(runs') >= Len(runs)
  /\ \A j \in 1..Len(runs) : /\ runs'[j].by = runs[j].by /\ runs'[j].night = runs[j].night
                             /\ runs'[j].at = "held" => runs[j].at = "held"
  /\ \A j \in (Len(runs) + 1)..Len(runs') :
       /\ runs'[j].by = by /\ runs'[j].night = 0
       /\ runs'[j].agent \in Agents /\ running[runs'[j].agent] = 0

\* What HoldRun leaves, where the rows are those of runs but for what one of them came to.
LEMMA HoldBegins ==
  ASSUME RowsInv, NEW rows \in Seq(Run), NEW free, NEW a \in Agents, NEW by, NEW from,
         T!HoldRun(rows, free, a, by, from), running[a] = 0, Len(rows) = Len(runs),
         \A j \in 1..Len(runs) : /\ rows[j].by = runs[j].by /\ rows[j].night = runs[j].night
                                 /\ rows[j].at = "held" => runs[j].at = "held"
  PROVE  Begun(by)
<1> DEFINE r == [agent |-> a, by |-> by, from |-> from, at |-> "held", well |-> FALSE, night |-> 0]
<1>1. runs' = Append(rows, r) /\ Len(rows) \in Nat
  BY DEF T!HoldRun
<1>2. r.agent = a /\ r.by = by /\ r.night = 0
  OBVIOUS
<1> HIDE DEF r
<1>3. /\ Len(runs') = Len(rows) + 1 /\ runs'[Len(rows) + 1] = r
      /\ \A j \in 1..Len(rows) : runs'[j] = rows[j]
  BY <1>1
<1>4. \A j \in (Len(runs) + 1)..Len(runs') : j = Len(rows) + 1
  BY <1>1, <1>3
<1> QED
  BY <1>1, <1>2, <1>3, <1>4 DEF Begun

\* Where nothing begins and one row moves on.
LEMMA MoveBegins ==
  ASSUME RowsInv, NEW i \in T!Ids, NEW r, runs' = [runs EXCEPT ![i] = r],
         r.by = runs[i].by, r.night = runs[i].night, r.at = "held" => runs[i].at = "held",
         NEW by
  PROVE  Begun(by)
<1>1. /\ Len(runs') = Len(runs) /\ Len(runs) \in Nat
      /\ \A j \in 1..Len(runs) : runs'[j] = IF j = i THEN r ELSE runs[j]
  BY DEF RowsInv, RowsOK, T!Ids
<1> QED
  BY <1>1 DEF Begun, T!Ids

\* A step that is none of Leif's, of his runs' starts and ends, of a crash or of a midnight: what it
\* begins is not his, and what an end or a schedule begins is of an agent that is on.
Quiet ==
  /\ UNCHANGED <<tool, held, nights>>
  /\ \E by \in {"manual", "event", "schedule"} :
       Begun(by) /\ (by # "manual" => \A j \in (Len(runs) + 1)..Len(runs') : enabled[runs'[j].agent])

\* Rows with nothing in them the table has not: as many, begun as they were, none of them held anew.
AsBegun(rows) ==
  /\ rows \in Seq(Run) /\ Len(rows) = Len(runs)
  /\ \A j \in 1..Len(runs) : /\ rows[j].by = runs[j].by /\ rows[j].night = runs[j].night
                             /\ rows[j].at = "held" => runs[j].at = "held"

\* A run begun behind such rows is the one the step begins, and a quiet one.
LEMMA HoldQuiet ==
  ASSUME RowsInv, NEW rows, NEW free, NEW a \in Agents, NEW by \in {"manual", "event", "schedule"}, NEW from,
         AsBegun(rows), T!HoldRun(rows, free, a, by, from), running[a] = 0, by # "manual" => enabled[a],
         UNCHANGED <<tool, held, nights>>
  PROVE  Quiet
<1>0. /\ rows \in Seq(Run) /\ Len(rows) = Len(runs)
      /\ \A j \in 1..Len(runs) : /\ rows[j].by = runs[j].by /\ rows[j].night = runs[j].night
                                 /\ rows[j].at = "held" => runs[j].at = "held"
  BY DEF AsBegun
<1>1. Begun(by)
  BY <1>0, HoldBegins
<1>2. \A j \in (Len(runs) + 1)..Len(runs') : runs'[j].agent = a
  <2> DEFINE r == [agent |-> a, by |-> by, from |-> from, at |-> "held", well |-> FALSE, night |-> 0]
  <2>1. runs' = Append(rows, r) /\ r.agent = a /\ Len(rows) \in Nat
    BY <1>0 DEF T!HoldRun
  <2> HIDE DEF r
  <2> QED
    BY <1>0, <2>1
<1> QED
  BY <1>1, <1>2 DEF Quiet

\* Every step is quiet but for eight actions.
LEMMA QuietSteps ==
  ASSUME RowsInv, [T!Next]_T!vars
  PROVE  \/ Quiet \/ T!Crash \/ T!Midnight
         \/ \E c \in LeifCalls : T!CountHeld(c) \/ T!TakePlace(c) \/ T!Begin(c)
         \/ \E i \in T!Ids : T!WriteStart(i) \/ T!Discard(i)
<1>0. runs \in Seq(Run) /\ RowsOK(runs, running, due)
  BY DEF RowsInv, RowsOK
<1>1. AsBegun(runs)
  BY <1>0 DEF AsBegun
<1>2. ASSUME NEW i \in T!Ids, NEW r, runs' = [runs EXCEPT ![i] = r],
             r.by = runs[i].by, r.night = runs[i].night, r.at = "held" => runs[i].at = "held",
             UNCHANGED <<tool, held, nights>>
      PROVE  Quiet
  BY <1>2, MoveBegins DEF Quiet
<1>3. ASSUME UNCHANGED <<runs, tool, held, nights>> PROVE Quiet
  <2>1. Begun("manual")
    BY <1>0, <1>3 DEF Begun
  <2> QED
    BY <1>3, <2>1 DEF Quiet
<1>4. ASSUME NEW a \in Agents, T!Press(a) \/ T!TickSchedule(a) PROVE Quiet
  BY <1>1, <1>4, HoldQuiet DEF T!Press, T!TickSchedule, T!HoldRun
<1>5. ASSUME NEW f \in Agents, T!TickDue(f) PROVE Quiet
  BY <1>1, <1>3, <1>5, HoldQuiet DEF T!TickDue, T!HoldRun
<1>6. ASSUME NEW a \in Agents, T!Turn(a) PROVE Quiet
  BY <1>3, <1>6 DEF T!Turn
<1>7. ASSUME NEW i \in T!Ids, T!EndsUnstarted(i) \/ T!WriteEnd(i) \/ T!MeetCeiling(i) \/ T!TurnOff(i) PROVE Quiet
  <2>1. runs[i] \in Run
    BY <1>0, RowIsRun DEF T!Ids
  <2>2. ASSUME NEW to \in {"over", "ended"}, T!Move(i, to), UNCHANGED <<tool, held, nights>> PROVE Quiet
    <3> DEFINE r == [runs[i] EXCEPT !.at = to]
    <3>1. runs' = [runs EXCEPT ![i] = r] /\ r.by = runs[i].by /\ r.night = runs[i].night /\ r.at # "held"
      BY <2>1, <2>2 DEF T!Move, Run
    <3> HIDE DEF r
    <3> QED
      BY <1>2, <2>2, <3>1
  <2>3. CASE T!EndsUnstarted(i) \/ T!MeetCeiling(i) \/ T!TurnOff(i)
    BY <2>2, <2>3 DEF T!EndsUnstarted, T!MeetCeiling, T!TurnOff
  <2>4. CASE T!WriteEnd(i)
    <3>1. PICK well \in BOOLEAN : runs' = [runs EXCEPT ![i].at = "over", ![i].well = well]
      BY <2>4 DEF T!WriteEnd
    <3> DEFINE r == [runs[i] EXCEPT !.at = "over", !.well = well]
    <3>2. runs' = [runs EXCEPT ![i] = r] /\ r.by = runs[i].by /\ r.night = runs[i].night /\ r.at # "held"
      BY <2>1, <3>1 DEF Run
    <3> HIDE DEF r
    <3> QED
      BY <1>2, <2>4, <3>2 DEF T!WriteEnd
  <2> QED
    BY <1>7, <2>3, <2>4
<1>8. ASSUME NEW i \in T!Ids, T!Release(i) PROVE Quiet
  <2> DEFINE to == IF i \in held THEN "gone" ELSE "done"
             r == [runs[i] EXCEPT !.at = to]
             rows == [runs EXCEPT ![i].at = to]
             free == [running EXCEPT ![runs[i].agent] = 0]
  <2>1. runs[i] \in Run /\ runs[i].agent \in Agents /\ to \in {"gone", "done"} /\ UNCHANGED <<tool, held, nights>>
    BY <1>0, <1>8, RowIsRun DEF T!Ids, T!Release
  <2>2. rows = [runs EXCEPT ![i] = r] /\ r \in Run /\ r.by = runs[i].by /\ r.night = runs[i].night /\ r.at # "held"
    BY <2>1 DEF Run
  <2>3. runs' = rows \/ \E f \in T!Hears(i) : T!HoldRun(rows, free, f, "event", i)
    BY <1>8 DEF T!Release, T!LetGo
  <2> HIDE DEF r
  <2>4. /\ rows \in Seq(Run) /\ Len(rows) = Len(runs)
        /\ \A j \in 1..Len(runs) : rows[j] = IF j = i THEN r ELSE runs[j]
    BY <1>0, <2>2, ExceptSeq DEF T!Ids
  <2>5. CASE runs' = rows
    BY <1>2, <2>1, <2>2, <2>5
  <2>6. ASSUME NEW f \in T!Hears(i), T!HoldRun(rows, free, f, "event", i) PROVE Quiet
    <3>1. f \in Agents /\ enabled[f] /\ f # runs[i].agent
      BY DEF T!Hears
    <3>2. free[f] = running[f] /\ free[f] = 0
      BY <1>0, <2>1, <2>6, <3>1 DEF RowsOK, T!HoldRun
    <3> HIDE DEF rows, free, to
    <3>3. AsBegun(rows)
      BY <2>2, <2>4 DEF AsBegun
    <3>4. T!HoldRun(rows, free, f, "event", i) /\ running[f] = 0 /\ UNCHANGED <<tool, held, nights>>
      BY <2>1, <2>6, <3>2
    <3>5. "event" \in {"manual", "event", "schedule"} /\ ("event" # "manual" => enabled[f])
      BY <3>1
    <3> QED
      BY <3>1, <3>3, <3>4, <3>5, HoldQuiet
  <2> QED
    BY <2>3, <2>5, <2>6
<1>9. ASSUME UNCHANGED T!vars PROVE Quiet
  BY <1>3, <1>9 DEF T!vars
<1> QED
  BY <1>4, <1>5, <1>6, <1>7, <1>8, <1>9 DEF T!Next

\* No event and no schedule begins a run of an agent over its ceiling.
NoneOver == \A i \in (Len(runs) + 1)..Len(runs') :
              runs'[i].by \in {"event", "schedule"} => runs'[i].agent \notin over

\* No step begins one.
LEMMA CeilingStep == RowsInv /\ [T!Next]_T!vars => NoneOver
<1> SUFFICES ASSUME RowsInv, [T!Next]_T!vars PROVE NoneOver
  OBVIOUS
<1>0. runs \in Seq(Run) /\ Len(runs) \in Nat
  BY DEF RowsInv, RowsOK
<1>1. CASE Quiet
  BY <1>1 DEF Quiet, Begun, NoneOver, RowsInv, OverIsOff
<1>2. ASSUME Len(runs') = Len(runs) PROVE NoneOver
  BY <1>0, <1>2 DEF NoneOver
<1>3. CASE T!Crash \/ T!Midnight
  BY <1>0, <1>2, <1>3 DEF T!Crash, T!Midnight, T!Ids
<1>4. ASSUME NEW c \in LeifCalls, T!CountHeld(c) \/ T!TakePlace(c) PROVE NoneOver
  BY <1>2, <1>4 DEF T!CountHeld, T!TakePlace
<1>5. ASSUME NEW i \in T!Ids, T!WriteStart(i) \/ T!Discard(i) PROVE NoneOver
  BY <1>0, <1>2, <1>5 DEF T!WriteStart, T!Discard, T!Move
<1>6. ASSUME NEW c \in LeifCalls, T!Begin(c) PROVE NoneOver
  <2>1. CASE UNCHANGED runs
    BY <1>2, <2>1
  <2>2. ASSUME NEW a \in Agents, T!HoldRun(runs, running, a, "leif", 0) PROVE NoneOver
    <3>1. Begun("leif")
      BY <1>0, <2>2, HoldBegins DEF T!HoldRun
    <3> QED
      BY <3>1 DEF Begun, NoneOver
  <2> QED
    BY <1>6, <2>1, <2>2 DEF T!Begin
<1> QED
  BY <1>1, <1>3, <1>4, <1>5, <1>6, QuietSteps
-----------------------------------------------------------------------------
(* Leif's day: the rows he counts and the places held are two sets, copied *)
(* at two moments.                                                         *)

\* The instance of Triggers counts as this module does.
LEMMA OneCardinality ==
  ASSUME NEW S
  PROVE  T!Cardinality(S) = Cardinality(S)
BY DEF T!Cardinality, Cardinality

\* PlacesHeld held now and rows of the day are no more than what was counted and those rows, where what
\* came to be held since is no more than the callers that were counted and hold nothing now.
LEMMA CountBounds ==
  ASSUME NEW H, NEW C, NEW D, NEW K, IsFiniteSet(H), IsFiniteSet(C), IsFiniteSet(D), D \cap K = {},
         Cardinality(H \ C) <= Cardinality((C \cap K) \ H)
  PROVE  Cardinality(H \cup D) <= Cardinality(C \cup D)
<1> DEFINE M == (C \cap K) \ H
           R == (C \cup D) \ M
<1>1. IsFiniteSet(C \cup D) /\ IsFiniteSet(H \ C)
  BY FS_Union, FS_Difference
<1>2. M \subseteq C \cup D /\ (C \cup D) \cap M = M
  OBVIOUS
<1>3. IsFiniteSet(M) /\ IsFiniteSet(R)
  BY <1>1, <1>2, FS_Subset, FS_Difference
<1>4. Cardinality(R) = Cardinality(C \cup D) - Cardinality(M)
  <2>1. Cardinality(R) = Cardinality(C \cup D) - Cardinality((C \cup D) \cap M)
    <3> HIDE DEF M
    <3> QED
      BY <1>1, FS_Difference
  <2> QED
    BY <1>2, <2>1
<1>5. H \cup D \subseteq R \cup (H \ C)
  OBVIOUS
<1> HIDE DEF M, R
<1>6. IsFiniteSet(R \cup (H \ C)) /\ IsFiniteSet(R \cap (H \ C))
      /\ Cardinality(R \cup (H \ C)) = Cardinality(R) + Cardinality(H \ C) - Cardinality(R \cap (H \ C))
  BY <1>1, <1>3, FS_Union, FS_Intersection
<1>7. Cardinality(H \cup D) <= Cardinality(R \cup (H \ C))
  BY <1>5, <1>6, FS_Subset
<1>8. /\ Cardinality(R) \in Nat /\ Cardinality(H \ C) \in Nat /\ Cardinality(R \cap (H \ C)) \in Nat
      /\ Cardinality(C \cup D) \in Nat /\ Cardinality(M) \in Nat
      /\ Cardinality(R \cup (H \ C)) \in Nat
  BY <1>1, <1>3, <1>6, FS_CardinalityType
<1>9. IsFiniteSet(H \cup D)
  BY FS_Union
<1>10. Cardinality(H \cup D) \in Nat
  BY <1>9, FS_CardinalityType
<1>11. Cardinality(H \ C) <= Cardinality(M)
  BY DEF M
<1> QED
  BY <1>4, <1>6, <1>7, <1>8, <1>10, <1>11

Tools == tool \in [LeifCalls -> [at : {"away", "counts", "placed"}, counted : SUBSET (LeifCalls \cup Nat)]]

\* A caller and a run hold their place until they give it up, or its row is there.
PlacesHeld ==
  /\ held \subseteq LeifCalls \cup T!Ids /\ IsFiniteSet(held)
  /\ \A c \in LeifCalls : tool[c].at = "placed" => c \in held
  /\ \A i \in T!Ids : (runs[i].by = "leif" /\ runs[i].at = "held" => i \in held) /\ runs[i].night <= nights + 1

\* The one caller that counts saw every caller that has a place, and no more places came since than
\* those it saw were given up.
CountIsSafe ==
  \A c \in LeifCalls : tool[c].at = "counts" =>
    /\ \A b \in LeifCalls : tool[b].at = "counts" => b = c
    /\ \A b \in LeifCalls : tool[b].at = "placed" => b \in tool[c].counted
    /\ tool[c].counted \subseteq LeifCalls \cup T!Ids /\ IsFiniteSet(tool[c].counted)
    /\ Cardinality(held \ tool[c].counted) <= Cardinality((tool[c].counted \cap LeifCalls) \ held)

PlacesWithinDay == Cardinality(held \cup T!LeifToday) <= Daily

DayInv == Tools /\ PlacesHeld /\ CountIsSafe /\ PlacesWithinDay

\* Nobody holds a place at first.
LEMMA DayInit == T!Init => DayInv
<1> SUFFICES ASSUME T!Init PROVE DayInv
  OBVIOUS
<1>1. Tools /\ PlacesHeld /\ CountIsSafe
  BY FS_EmptySet DEF T!Init, T!NoCall, T!Ids, Tools, PlacesHeld, CountIsSafe
<1>2. held \cup T!LeifToday = {}
  BY DEF T!Init, T!LeifToday, T!Ids
<1> QED
  BY <1>1, <1>2, FS_EmptySet, PartsAssumption DEF DayInv, PlacesWithinDay, T!TriggersConstants

\* The rows of today are finitely many, and none is a caller.
LEMMA TodayIsFinite ==
  ASSUME RowsInv
  PROVE  IsFiniteSet(T!LeifToday) /\ T!LeifToday \subseteq T!Ids /\ T!LeifToday \cap LeifCalls = {}
<1>1. Len(runs) \in Nat
  BY DEF RowsInv, RowsOK
<1>2. IsFiniteSet(T!Ids) /\ T!Ids \subseteq Nat
  BY <1>1, FS_Interval DEF T!Ids
<1>3. T!LeifToday \subseteq T!Ids
  BY DEF T!LeifToday
<1> QED
  BY <1>2, <1>3, FS_Subset, PartsAssumption DEF T!TriggersConstants

\* What is counted is no more than what is held.
LEMMA SafeCount ==
  ASSUME RowsInv, DayInv, NEW c \in LeifCalls, tool[c].at = "counts"
  PROVE  Cardinality(held \cup T!LeifToday) <= Cardinality(T!Counted(c))
<1> DEFINE C == tool[c].counted
           H == held
           D == T!LeifToday
<1>1. IsFiniteSet(H) /\ IsFiniteSet(C) /\ IsFiniteSet(D) /\ D \cap LeifCalls = {}
      /\ Cardinality(H \ C) <= Cardinality((C \cap LeifCalls) \ H)
  BY TodayIsFinite DEF DayInv, PlacesHeld, CountIsSafe
<1>2. T!Counted(c) = C \cup D
  BY DEF T!Counted
<1> HIDE DEF C, H, D
<1>3. Cardinality(H \cup D) <= Cardinality(C \cup D)
  BY <1>1, CountBounds
<1> QED
  BY <1>2, <1>3 DEF H, D

\* A run begun has no row of today's.
LEMMA TodayStays ==
  ASSUME RowsInv, NEW by, Begun(by), nights' = nights
  PROVE  T!LeifToday' = T!LeifToday
<1>1. Len(runs) \in Nat /\ Len(runs') \in Int /\ nights \in Nat
  BY DEF RowsInv, RowsOK, Begun
<1>2. T!LeifToday' \subseteq T!LeifToday
  BY <1>1 DEF Begun, T!LeifToday, T!Ids
<1>3. T!LeifToday \subseteq T!LeifToday'
  BY <1>1 DEF Begun, T!LeifToday, T!Ids
<1> QED
  BY <1>2, <1>3

\* Fewer places are held, or as many, and nobody counts more.
LEMMA FewerHeld ==
  ASSUME NEW H, NEW H1, NEW C, NEW K, IsFiniteSet(H), IsFiniteSet(C), H1 \subseteq H,
         Cardinality(H \ C) <= Cardinality((C \cap K) \ H)
  PROVE  IsFiniteSet(H1) /\ Cardinality(H1 \ C) <= Cardinality((C \cap K) \ H1)
<1>1. IsFiniteSet(H1)
  BY FS_Subset
<1>2. IsFiniteSet(H \ C) /\ IsFiniteSet(H1 \ C) /\ IsFiniteSet(C \cap K)
  BY <1>1, FS_Difference, FS_Intersection
<1>3. IsFiniteSet((C \cap K) \ H1) /\ IsFiniteSet((C \cap K) \ H)
  BY <1>2, FS_Difference
<1>4. H1 \ C \subseteq H \ C /\ (C \cap K) \ H \subseteq (C \cap K) \ H1
  OBVIOUS
<1>5. Cardinality(H1 \ C) <= Cardinality(H \ C)
  BY <1>2, <1>4, FS_Subset
<1>6. Cardinality((C \cap K) \ H) <= Cardinality((C \cap K) \ H1)
  BY <1>3, <1>4, FS_Subset
<1>7. /\ Cardinality(H1 \ C) \in Nat /\ Cardinality(H \ C) \in Nat
      /\ Cardinality((C \cap K) \ H) \in Nat /\ Cardinality((C \cap K) \ H1) \in Nat
  BY <1>2, <1>3, FS_CardinalityType
<1> QED
  BY <1>1, <1>5, <1>6, <1>7

\* A caller gives its place to a run.
LEMMA PlaceMoves ==
  ASSUME NEW H, NEW C, NEW K, NEW c, NEW n, IsFiniteSet(H), IsFiniteSet(C), c \in H, c \in C, c \in K, n \notin K,
         Cardinality(H \ C) <= Cardinality((C \cap K) \ H)
  PROVE  LET H1 == (H \ {c}) \cup {n} IN Cardinality(H1 \ C) <= Cardinality((C \cap K) \ H1)
<1> DEFINE H1 == (H \ {c}) \cup {n}
           N == H \ C
           M == (C \cap K) \ H
<1>1. IsFiniteSet(N) /\ IsFiniteSet(C \cap K)
  BY FS_Difference, FS_Intersection
<1>2. IsFiniteSet(M)
  BY <1>1, FS_Difference
<1>3. H1 \ C \subseteq N \cup {n} /\ (C \cap K) \ H1 = M \cup {c} /\ c \notin M
  OBVIOUS
<1>4. Cardinality(N) <= Cardinality(M)
  OBVIOUS
<1> HIDE DEF N, M, H1
<1>5. IsFiniteSet(N \cup {n}) /\ Cardinality(N \cup {n}) <= Cardinality(N) + 1
  <2>1. /\ IsFiniteSet(N \cup {n})
        /\ Cardinality(N \cup {n}) = IF n \in N THEN Cardinality(N) ELSE Cardinality(N) + 1
    BY <1>1, FS_AddElement, Zenon
  <2>2. Cardinality(N) \in Nat
    BY <1>1, FS_CardinalityType
  <2> QED
    BY <2>1, <2>2
<1>6. IsFiniteSet(H1 \ C) /\ Cardinality(H1 \ C) <= Cardinality(N \cup {n})
  BY <1>3, <1>5, FS_Subset
<1>7. Cardinality(M \cup {c}) = Cardinality(M) + 1
  BY <1>2, <1>3, FS_AddElement
<1>8. Cardinality(N) \in Nat /\ Cardinality(M) \in Nat /\ Cardinality(H1 \ C) \in Nat /\ Cardinality(N \cup {n}) \in Nat
  BY <1>1, <1>2, <1>5, <1>6, FS_CardinalityType
<1>9. Cardinality(H1 \ C) <= Cardinality(M \cup {c})
  BY <1>4, <1>5, <1>6, <1>7, <1>8
<1> QED
  BY <1>3, <1>9, Zenon DEF H1

\* What holds of the day while what is held shrinks or stays and its rows do not grow.
LEMMA FewerToday ==
  ASSUME RowsInv, DayInv, held' \cup T!LeifToday' \subseteq held \cup T!LeifToday
  PROVE  PlacesWithinDay'
<1>1. IsFiniteSet(held \cup T!LeifToday)
  BY TodayIsFinite, FS_Union DEF DayInv, PlacesHeld
<1>2. IsFiniteSet(held' \cup T!LeifToday') /\ Cardinality(held' \cup T!LeifToday') <= Cardinality(held \cup T!LeifToday)
  BY <1>1, FS_Subset
<1>3. Cardinality(held' \cup T!LeifToday') \in Nat /\ Cardinality(held \cup T!LeifToday) \in Nat
  BY <1>1, <1>2, FS_CardinalityType
<1> QED
  BY <1>2, <1>3, PartsAssumption DEF DayInv, PlacesWithinDay, T!TriggersConstants

\* Nobody counts otherwise than before, and no place goes but of a run that has its row.
LEMMA CountsStay ==
  ASSUME RowsInv, DayInv, UNCHANGED tool, T!Ids \subseteq T!Ids', held' \subseteq held,
         \A c \in LeifCalls : c \in held => c \in held'
  PROVE  Tools' /\ CountIsSafe' /\ IsFiniteSet(held') /\ \A c \in LeifCalls : tool'[c].at = "placed" => c \in held'
<1>1. IsFiniteSet(held)
  BY DEF DayInv, PlacesHeld
<1>2. ASSUME NEW c \in LeifCalls, tool[c].at = "counts"
      PROVE  Cardinality(held' \ tool[c].counted) <= Cardinality((tool[c].counted \cap LeifCalls) \ held')
  <2> DEFINE C == tool[c].counted
  <2>1. IsFiniteSet(C) /\ Cardinality(held \ C) <= Cardinality((C \cap LeifCalls) \ held)
    BY <1>2 DEF DayInv, CountIsSafe
  <2> HIDE DEF C
  <2>2. Cardinality(held' \ C) <= Cardinality((C \cap LeifCalls) \ held')
    BY <1>1, <2>1, FewerHeld
  <2> QED
    BY <2>2 DEF C
<1> QED
  BY <1>1, <1>2, FS_Subset DEF DayInv, Tools, PlacesHeld, CountIsSafe

\* Every step keeps the places and the counts.
LEMMA DayStep == RowsInv /\ DayInv /\ [T!Next]_T!vars => DayInv'
<1> SUFFICES ASSUME RowsInv, DayInv, [T!Next]_T!vars PROVE DayInv'
  OBVIOUS
<1>0. /\ runs \in Seq(Run) /\ Len(runs) \in Nat /\ nights \in Nat /\ Daily \in Nat
      /\ RowsOK(runs, running, due) /\ \A c \in LeifCalls : c \notin Nat
  BY PartsAssumption DEF RowsInv, RowsOK, T!TriggersConstants
<1>1. CASE Quiet
  <2>1. PICK by \in {"manual", "event", "schedule"} : Begun(by)
    BY <1>1 DEF Quiet
  <2>2. UNCHANGED <<tool, held, nights>>
    BY <1>1 DEF Quiet
  <2>3. T!LeifToday' = T!LeifToday
    BY <2>1, <2>2, TodayStays
  <2>5. T!Ids \subseteq T!Ids'
    BY <1>0, <2>1 DEF Begun, T!Ids
  <2>4. ASSUME NEW i \in T!Ids'
        PROVE  (runs'[i].by = "leif" /\ runs'[i].at = "held" => i \in held') /\ runs'[i].night <= nights' + 1
    <3>1. CASE i \in T!Ids
      BY <2>1, <2>2, <3>1 DEF Begun, T!Ids, DayInv, PlacesHeld
    <3>2. CASE i \notin T!Ids
      BY <1>0, <2>1, <2>2, <2>4, <3>2 DEF Begun, T!Ids
    <3> QED
      BY <3>1, <3>2
  <2> QED
    BY <2>2, <2>3, <2>4, <2>5, CountsStay, FewerToday DEF DayInv, PlacesHeld
\* A caller counts: what is held now is what it counts, and those who have a place hold it.
<1>2. ASSUME NEW c \in LeifCalls, T!CountHeld(c) PROVE DayInv'
  <2>1. /\ tool' = [tool EXCEPT ![c] = [at |-> "counts", counted |-> held]]
        /\ UNCHANGED <<runs, held, nights>> /\ \A b \in LeifCalls : tool[b].at # "counts"
    BY <1>2 DEF T!CountHeld
  <2>2. /\ tool'[c].at = "counts" /\ tool'[c].counted = held /\ \A b \in LeifCalls : b # c => tool'[b] = tool[b]
    BY <2>1 DEF DayInv, Tools
  <2>3. held \in SUBSET (LeifCalls \cup Nat) /\ IsFiniteSet(held) /\ held \subseteq LeifCalls \cup T!Ids
    BY <1>0 DEF DayInv, PlacesHeld, T!Ids
  <2>4. Tools'
    BY <2>1, <2>3 DEF DayInv, Tools
  <2>5. T!LeifToday' = T!LeifToday /\ T!Ids' = T!Ids
    BY <2>1 DEF T!LeifToday, T!Ids
  <2>6. PlacesHeld' /\ PlacesWithinDay'
    BY <2>1, <2>2, <2>5 DEF DayInv, PlacesHeld, PlacesWithinDay
  <2>7. Cardinality(held \ held) <= Cardinality((held \cap LeifCalls) \ held)
    <3>1. held \ held = {} /\ (held \cap LeifCalls) \ held = {}
      OBVIOUS
    <3> QED
      BY <3>1, FS_EmptySet
  <2>8. CountIsSafe'
    BY <2>1, <2>2, <2>3, <2>5, <2>7 DEF DayInv, PlacesHeld, CountIsSafe
  <2> QED
    BY <2>4, <2>6, <2>8 DEF DayInv
\* It takes a place, or is told no: it alone counts, so nobody's count is stale now.
<1>3. ASSUME NEW c \in LeifCalls, T!TakePlace(c) PROVE DayInv'
  <2>1. tool[c].at = "counts" /\ UNCHANGED <<runs, nights>> /\ \A b \in LeifCalls : b # c => tool[b].at # "counts"
    BY <1>3 DEF T!TakePlace, DayInv, CountIsSafe
  <2>2. T!LeifToday' = T!LeifToday /\ T!Ids' = T!Ids
    BY <2>1 DEF T!LeifToday, T!Ids
  <2>3. CASE tool' = [tool EXCEPT ![c] = T!NoCall] /\ UNCHANGED held
    <3>1. tool'[c].at = "away" /\ \A b \in LeifCalls : b # c => tool'[b] = tool[b]
      BY <2>3 DEF DayInv, Tools, T!NoCall
    <3>2. Tools'
      BY <2>3 DEF DayInv, Tools, T!NoCall
    <3>3. CountIsSafe'
      BY <2>1, <3>1 DEF CountIsSafe
    <3>4. PlacesHeld' /\ PlacesWithinDay'
      BY <2>1, <2>2, <2>3, <3>1 DEF DayInv, PlacesHeld, PlacesWithinDay
    <3> QED
      BY <3>2, <3>3, <3>4 DEF DayInv
  <2>4. CASE /\ ~(Cardinality(T!Counted(c)) >= Daily)
             /\ tool' = [tool EXCEPT ![c] = [at |-> "placed", counted |-> {}]] /\ held' = held \cup {c}
    <3>1. tool'[c].at = "placed" /\ \A b \in LeifCalls : b # c => tool'[b] = tool[b]
      BY <2>4 DEF DayInv, Tools
    <3>2. Tools'
      BY <2>4 DEF DayInv, Tools
    <3>3. CountIsSafe'
      BY <2>1, <3>1 DEF CountIsSafe
    <3>4. IsFiniteSet(held)
      BY DEF DayInv, PlacesHeld
    <3>5. IsFiniteSet(held')
      BY <2>4, <3>4, FS_AddElement
    <3>6. PlacesHeld'
      BY <2>1, <2>2, <2>4, <3>1, <3>5 DEF DayInv, PlacesHeld
    <3> DEFINE U == held \cup T!LeifToday
    <3>7. IsFiniteSet(U) /\ Cardinality(U) <= Cardinality(T!Counted(c))
      BY <2>1, <3>4, TodayIsFinite, SafeCount, FS_Union
    <3>8. Cardinality(U) \in Nat /\ Cardinality(T!Counted(c)) \in Nat
      <4>1. IsFiniteSet(T!Counted(c))
        BY <2>1, TodayIsFinite, FS_Union DEF T!Counted, DayInv, CountIsSafe
      <4> QED
        BY <3>7, <4>1, FS_CardinalityType
    <3>9. held' \cup T!LeifToday' = U \cup {c}
      BY <2>2, <2>4
    <3> HIDE DEF U
    <3>10. Cardinality(U \cup {c}) = IF c \in U THEN Cardinality(U) ELSE Cardinality(U) + 1
      BY <3>7, FS_AddElement
    <3>11. Cardinality(U \cup {c}) <= Daily
      BY <1>0, <2>4, <3>7, <3>8, <3>10
    <3> QED
      BY <3>2, <3>3, <3>6, <3>9, <3>11 DEF DayInv, PlacesWithinDay
  <2>5. IF Cardinality(T!Counted(c)) >= Daily THEN tool' = [tool EXCEPT ![c] = T!NoCall] /\ UNCHANGED held
        ELSE tool' = [tool EXCEPT ![c] = [at |-> "placed", counted |-> {}]] /\ held' = held \cup {c}
    BY <1>3, OneCardinality DEF T!TakePlace
  <2> QED
    BY <2>3, <2>4, <2>5
\* Back on the loop, the caller gives its place to a run, or gives it back.
<1>4. ASSUME NEW c \in LeifCalls, T!Begin(c) PROVE DayInv'
  <2>1. /\ tool[c].at = "placed" /\ tool' = [tool EXCEPT ![c] = T!NoCall] /\ nights' = nights
        /\ c \in held /\ IsFiniteSet(held) /\ c \notin Nat /\ held \subseteq LeifCalls \cup T!Ids
    BY <1>0, <1>4 DEF T!Begin, DayInv, PlacesHeld
  <2>2. tool'[c].at = "away" /\ \A b \in LeifCalls : b # c => tool'[b] = tool[b]
    BY <2>1 DEF DayInv, Tools, T!NoCall
  <2>3. Tools'
    BY <2>1 DEF DayInv, Tools, T!NoCall
  <2>4. ASSUME NEW b \in LeifCalls, tool'[b].at = "counts"
        PROVE  /\ b # c /\ tool'[b] = tool[b] /\ c \in tool[b].counted /\ IsFiniteSet(tool[b].counted)
               /\ Cardinality(held \ tool[b].counted) <= Cardinality((tool[b].counted \cap LeifCalls) \ held)
    BY <2>1, <2>2, <2>4 DEF DayInv, CountIsSafe
  <2>5. ASSUME T!Ids \subseteq T!Ids',
               \A b \in LeifCalls : tool'[b].at = "counts" =>
                 Cardinality(held' \ tool[b].counted) <= Cardinality((tool[b].counted \cap LeifCalls) \ held')
        PROVE  CountIsSafe'
    BY <2>2, <2>4, <2>5 DEF DayInv, CountIsSafe
  <2>6. CASE held' = held \ {c} /\ UNCHANGED <<runs, running>>
    <3>1. T!LeifToday' = T!LeifToday /\ T!Ids' = T!Ids
      BY <2>1, <2>6 DEF T!LeifToday, T!Ids
    <3>2. PlacesWithinDay'
      BY <2>6, <3>1, FewerToday
    <3>3. PlacesHeld'
      <4>1. IsFiniteSet(held') /\ held' \subseteq LeifCalls \cup T!Ids
        BY <2>1, <2>6, FS_Difference
      <4>2. \A b \in LeifCalls : tool'[b].at = "placed" => b \in held'
        BY <2>2, <2>6 DEF DayInv, PlacesHeld
      <4>3. \A i \in T!Ids : (runs'[i].by = "leif" /\ runs'[i].at = "held" => i \in held') /\ runs'[i].night <= nights' + 1
        BY <1>0, <2>1, <2>6 DEF DayInv, PlacesHeld, T!Ids
      <4> QED
        BY <3>1, <4>1, <4>2, <4>3 DEF PlacesHeld
    <3>4. ASSUME NEW b \in LeifCalls, tool'[b].at = "counts"
          PROVE  Cardinality(held' \ tool[b].counted) <= Cardinality((tool[b].counted \cap LeifCalls) \ held')
      <4> DEFINE C == tool[b].counted
      <4>1. IsFiniteSet(C) /\ Cardinality(held \ C) <= Cardinality((C \cap LeifCalls) \ held)
        BY <2>4, <3>4
      <4> HIDE DEF C
      <4>2. Cardinality(held' \ C) <= Cardinality((C \cap LeifCalls) \ held')
        BY <2>1, <2>6, <4>1, FewerHeld
      <4> QED
        BY <4>2 DEF C
    <3> QED
      BY <2>3, <2>5, <3>1, <3>2, <3>3, <3>4 DEF DayInv
  <2>7. ASSUME NEW a \in Agents, T!HoldRun(runs, running, a, "leif", 0), held' = (held \ {c}) \cup {Len(runs) + 1}
        PROVE  DayInv'
    <3> DEFINE n == Len(runs) + 1
    <3>1. Begun("leif")
      BY <1>0, <2>7, HoldBegins DEF T!HoldRun
    <3>2. T!LeifToday' = T!LeifToday
      BY <2>1, <3>1, TodayStays
    <3>3. n \in Nat /\ n \notin LeifCalls /\ T!Ids' = T!Ids \cup {n} /\ n \notin T!Ids
      BY <1>0, <2>7 DEF T!HoldRun, T!Ids
    <3>4. IsFiniteSet(held')
      BY <2>1, <2>7, FS_Difference, FS_AddElement
    <3>5. ASSUME NEW i \in T!Ids'
          PROVE  (runs'[i].by = "leif" /\ runs'[i].at = "held" => i \in held') /\ runs'[i].night <= nights' + 1
      <4>1. CASE i \in T!Ids
        BY <1>0, <2>1, <2>7, <3>1, <4>1 DEF Begun, T!Ids, DayInv, PlacesHeld
      <4>2. CASE i = n
        <5>1. i \in (Len(runs) + 1)..Len(runs')
          BY <1>0, <3>1, <3>5, <4>2 DEF T!Ids, Begun
        <5>2. runs'[i].night = 0 /\ i \in held'
          BY <2>7, <3>1, <4>2, <5>1 DEF Begun
        <5> QED
          BY <1>0, <2>1, <5>2
      <4> QED
        BY <3>3, <4>1, <4>2
    <3>6. PlacesHeld'
      <4>1. held' \subseteq LeifCalls \cup T!Ids'
        BY <2>1, <2>7, <3>3
      <4>2. \A b \in LeifCalls : tool'[b].at = "placed" => b \in held'
        BY <2>2, <2>7 DEF DayInv, PlacesHeld
      <4> QED
        BY <3>4, <3>5, <4>1, <4>2 DEF PlacesHeld
    <3>7. ASSUME NEW b \in LeifCalls, tool'[b].at = "counts"
          PROVE  Cardinality(held' \ tool[b].counted) <= Cardinality((tool[b].counted \cap LeifCalls) \ held')
      <4> DEFINE C == tool[b].counted
      <4>1. IsFiniteSet(C) /\ c \in C /\ Cardinality(held \ C) <= Cardinality((C \cap LeifCalls) \ held)
        BY <2>4, <3>7
      <4> HIDE DEF C, n
      <4>2. LET H1 == (held \ {c}) \cup {n} IN Cardinality(H1 \ C) <= Cardinality((C \cap LeifCalls) \ H1)
        BY <2>1, <3>3, <4>1, PlaceMoves
      <4> QED
        BY <2>7, <4>2 DEF C, n
    <3>8. PlacesWithinDay'
      <4> DEFINE U == held \cup T!LeifToday
      <4>1. IsFiniteSet(U) /\ c \in U /\ Cardinality(U) <= Daily
        BY <2>1, TodayIsFinite, FS_Union DEF DayInv, PlacesWithinDay
      <4>2. held' \cup T!LeifToday' = (U \ {c}) \cup {n}
        <5>1. c \notin T!LeifToday
          BY TodayIsFinite
        <5> QED
          BY <2>7, <3>2, <5>1
      <4> HIDE DEF U, n
      <4>3. IsFiniteSet(U \ {c}) /\ Cardinality(U \ {c}) = Cardinality(U) - 1
        BY <4>1, FS_RemoveElement
      <4>4. Cardinality((U \ {c}) \cup {n}) = IF n \in U \ {c} THEN Cardinality(U \ {c}) ELSE Cardinality(U \ {c}) + 1
        BY <4>3, FS_AddElement
      <4>5. Cardinality(U) \in Nat /\ Cardinality(U \ {c}) \in Nat
        BY <4>1, <4>3, FS_CardinalityType
      <4>6. Cardinality((U \ {c}) \cup {n}) <= Daily
        BY <1>0, <4>1, <4>3, <4>4, <4>5
      <4> QED
        BY <4>2, <4>6 DEF PlacesWithinDay
    <3> QED
      BY <2>3, <2>5, <3>3, <3>6, <3>7, <3>8 DEF DayInv
  <2> QED
    BY <1>4, <2>6, <2>7 DEF T!Begin
\* The row of a run of Leif's is written: it is of today, and its place is held until its task is over.
<1>5. ASSUME NEW i \in T!Ids, T!WriteStart(i) PROVE DayInv'
  <2> DEFINE night == IF runs[i].by = "leif" THEN nights + 1 ELSE 0
             r == [runs[i] EXCEPT !.at = "started", !.night = night]
  <2>1. /\ runs' = [runs EXCEPT ![i] = r] /\ runs[i].at = "held" /\ runs[i] \in Run
        /\ UNCHANGED <<tool, held, nights>>
    BY <1>0, <1>5, RowIsRun DEF T!WriteStart, T!Ids
  <2>2. r.by = runs[i].by /\ r.at = "started" /\ r.night = night
    BY <2>1 DEF Run
  <2>3. night <= nights + 1 /\ night \in Nat
    BY <1>0
  <2> HIDE DEF r
  <2>4. Len(runs') = Len(runs) /\ T!Ids' = T!Ids /\ \A j \in T!Ids : runs'[j] = IF j = i THEN r ELSE runs[j]
    BY <1>0, <2>1, ExceptSeq DEF T!Ids
  <2>5. T!LeifToday' \subseteq T!LeifToday \cup {i} /\ (runs[i].by # "leif" => T!LeifToday' \subseteq T!LeifToday)
    BY <2>1, <2>2, <2>4 DEF T!LeifToday
  <2>6. held' \cup T!LeifToday' \subseteq held \cup T!LeifToday
    BY <2>1, <2>5 DEF DayInv, PlacesHeld
  <2>7. \A j \in T!Ids : (runs'[j].by = "leif" /\ runs'[j].at = "held" => j \in held') /\ runs'[j].night <= nights' + 1
    BY <2>1, <2>2, <2>3, <2>4 DEF DayInv, PlacesHeld
  <2> QED
    BY <2>1, <2>4, <2>6, <2>7, CountsStay, FewerToday DEF DayInv, PlacesHeld
\* Its task is over, and its place goes.
<1>6. ASSUME NEW i \in T!Ids, T!Discard(i) PROVE DayInv'
  <2> DEFINE r == [runs[i] EXCEPT !.at = "done"]
  <2>1. /\ runs' = [runs EXCEPT ![i] = r] /\ runs[i] \in Run /\ held' = held \ {i} /\ i \in Nat
        /\ UNCHANGED <<tool, nights>>
    BY <1>0, <1>6, RowIsRun DEF T!Discard, T!Move, T!Ids
  <2>2. r.by = runs[i].by /\ r.at = "done" /\ r.night = runs[i].night
    BY <2>1 DEF Run
  <2> HIDE DEF r
  <2>3. Len(runs') = Len(runs) /\ T!Ids' = T!Ids /\ \A j \in T!Ids : runs'[j] = IF j = i THEN r ELSE runs[j]
    BY <1>0, <2>1, ExceptSeq DEF T!Ids
  <2>4. T!LeifToday' = T!LeifToday
    BY <2>1, <2>2, <2>3 DEF T!LeifToday
  <2>5. held' \cup T!LeifToday' \subseteq held \cup T!LeifToday
    BY <2>1, <2>4
  <2>6. \A j \in T!Ids : (runs'[j].by = "leif" /\ runs'[j].at = "held" => j \in held') /\ runs'[j].night <= nights' + 1
    BY <2>1, <2>2, <2>3 DEF DayInv, PlacesHeld
  <2>7. held' \subseteq held /\ \A c \in LeifCalls : c \in held => c \in held'
    BY <1>0, <2>1
  <2>8. Tools' /\ CountIsSafe' /\ IsFiniteSet(held') /\ \A c \in LeifCalls : tool'[c].at = "placed" => c \in held'
    BY <2>1, <2>3, <2>7, CountsStay
  <2>9. held' \subseteq LeifCalls \cup T!Ids'
    BY <2>3, <2>7 DEF DayInv, PlacesHeld
  <2> QED
    BY <2>3, <2>5, <2>6, <2>8, <2>9, FewerToday DEF DayInv, PlacesHeld
<1>7. CASE T!Crash
  <2>1. /\ runs' = [i \in T!Ids |-> [runs[i] EXCEPT !.at = "done"]] /\ tool' = [c \in LeifCalls |-> T!NoCall]
        /\ held' = {} /\ nights' = nights
    BY <1>7 DEF T!Crash
  <2>2. Len(runs') = Len(runs) /\ T!Ids' = T!Ids
    BY <1>0, <2>1 DEF T!Ids
  <2>3. ASSUME NEW i \in T!Ids
        PROVE  runs'[i].by = runs[i].by /\ runs'[i].night = runs[i].night /\ runs'[i].at = "done"
    <3>1. runs[i] \in Run
      BY <1>0, RowIsRun DEF T!Ids
    <3> QED
      BY <2>1, <3>1 DEF Run
  <2>4. held' \cup T!LeifToday' \subseteq held \cup T!LeifToday
    BY <2>1, <2>2, <2>3 DEF T!LeifToday
  <2>5. Tools' /\ CountIsSafe' /\ \A c \in LeifCalls : tool'[c].at = "away"
    BY <2>1 DEF T!NoCall, Tools, CountIsSafe
  <2>6. PlacesHeld'
    BY <2>1, <2>2, <2>3, <2>5, FS_EmptySet DEF DayInv, PlacesHeld
  <2> QED
    BY <2>4, <2>5, <2>6, FewerToday DEF DayInv
<1>8. CASE T!Midnight
  <2>1. UNCHANGED <<runs, tool, held>> /\ nights' = nights + 1 /\ T!Ids' = T!Ids
    BY <1>8 DEF T!Midnight, T!Ids
  <2>2. T!LeifToday' = {}
    <3>1. \A i \in T!Ids : runs[i].night # nights + 2
      <4>1. \A i \in T!Ids : runs[i].night \in Nat /\ runs[i].night <= nights + 1
        BY <1>0, RowIsRun DEF T!Ids, Run, DayInv, PlacesHeld
      <4> QED
        BY <1>0, <4>1
    <3> QED
      BY <1>0, <2>1, <3>1 DEF T!LeifToday, T!Ids
  <2>3. held' \cup T!LeifToday' \subseteq held \cup T!LeifToday
    BY <2>1, <2>2
  <2>4. \A i \in T!Ids : (runs'[i].by = "leif" /\ runs'[i].at = "held" => i \in held') /\ runs'[i].night <= nights' + 1
    <3>1. \A i \in T!Ids : runs[i].night \in Nat /\ runs[i].night <= nights + 1
      BY <1>0, RowIsRun DEF T!Ids, Run, DayInv, PlacesHeld
    <3>2. \A i \in T!Ids : runs[i].night <= nights' + 1
      BY <1>0, <2>1, <3>1
    <3> QED
      BY <2>1, <3>2 DEF DayInv, PlacesHeld
  <2> QED
    BY <2>1, <2>3, <2>4, CountsStay, FewerToday DEF DayInv, PlacesHeld
<1> QED
  BY <1>1, <1>2, <1>3, <1>4, <1>5, <1>6, <1>7, <1>8, QuietSteps
-----------------------------------------------------------------------------
(* The theorems, of Triggers and of the parts side by side.                *)

\* Rows of today are no more than those and the places held.
LEMMA DayHolds == RowsInv /\ DayInv => T!LeifWithinDay
<1> SUFFICES ASSUME RowsInv, DayInv PROVE Cardinality(T!LeifToday) <= Daily
  BY OneCardinality DEF T!LeifWithinDay
<1>1. IsFiniteSet(held \cup T!LeifToday)
  BY TodayIsFinite, FS_Union DEF DayInv, PlacesHeld
<1>2. IsFiniteSet(T!LeifToday) /\ Cardinality(T!LeifToday) <= Cardinality(held \cup T!LeifToday)
  BY <1>1, FS_Subset
<1>3. Cardinality(T!LeifToday) \in Nat /\ Cardinality(held \cup T!LeifToday) \in Nat
  BY <1>1, <1>2, FS_CardinalityType
<1> QED
  BY <1>2, <1>3, PartsAssumption DEF DayInv, PlacesWithinDay, T!TriggersConstants

TriggersInv == RowsInv /\ DayInv

\* The invariant holds at first and by every step.
LEMMA TriggersInduct ==
  /\ T!Init => TriggersInv
  /\ TriggersInv /\ [T!Next]_T!vars => TriggersInv'
BY RowsInit, DayInit, RowsStep, DayStep DEF TriggersInv

\* In any behaviour of Triggers an end starts each follower once at most, with its own result: the
\* due rows, the refusals and the crashes of triggers.py hand no result twice.
THEOREM EndsHandedOnce == T!Spec => []T!EndHandedOnce
<1>1. TriggersInv => T!EndHandedOnce
  BY RowsHold DEF TriggersInv
<1> QED
  BY <1>1, TriggersInduct, PTL DEF T!Spec

\* In any behaviour of Triggers, with any callers of Leif's tool and any limit of a day, no day has
\* more rows of Leif's runs than the limit.
THEOREM DaysAreKept == T!Spec => []T!LeifWithinDay
<1>1. TriggersInv => T!LeifWithinDay
  BY DayHolds DEF TriggersInv
<1> QED
  BY <1>1, TriggersInduct, PTL DEF T!Spec

\* No step of Triggers lets an event or a schedule begin a run of an agent that met its ceiling and
\* was not turned on since.
THEOREM CeilingsHold == T!Spec => T!CeilingHolds
<1>1. TriggersInv /\ [T!Next]_T!vars => [NoneOver]_T!vars
  BY CeilingStep DEF TriggersInv
<1> QED
  BY <1>1, TriggersInduct, PTL DEF T!Spec, T!CeilingHolds, NoneOver

TriggersPart == part \in {"triggers", "leif"} => TriggersInv

\* The invariant where the triggers are the part at work.
LEMMA TriggersInParts == PartsSpec => []TriggersPart
<1>1. PartsInit => TriggersPart
  BY TriggersInduct DEF PartsInit, TriggersPart
<1>2. TriggersPart /\ [PartsNext]_partVars => TriggersPart'
  <2> SUFFICES ASSUME TriggersPart, [PartsNext]_partVars, part' \in {"triggers", "leif"} PROVE TriggersInv'
    BY DEF TriggersPart
  <2>1. part \in {"triggers", "leif"}
    BY DEF PartsNext, partVars
  <2>2. T!Next \/ UNCHANGED tVars
    BY <2>1 DEF PartsNext, partVars
  <2>3. [T!Next]_T!vars
    BY <2>2 DEF tVars, T!vars
  <2> QED
    BY <2>1, <2>3, TriggersInduct DEF TriggersPart
<1> QED
  BY <1>1, <1>2, PTL DEF PartsSpec

\* The same of the parts side by side: EndHandedOnce.
THEOREM EndHandedOnceInParts == PartsSpec => []EndHandedOnce
<1>1. TriggersPart => EndHandedOnce
  BY RowsHold DEF TriggersPart, TriggersInv, EndHandedOnce
<1> QED
  BY <1>1, TriggersInParts, PTL

\* LeifWithinDay of the parts side by side.
THEOREM LeifWithinDayInParts == PartsSpec => []LeifWithinDay
<1>1. TriggersPart => LeifWithinDay
  BY DayHolds DEF TriggersPart, TriggersInv, LeifWithinDay
<1> QED
  BY <1>1, TriggersInParts, PTL

\* CeilingHolds of the parts side by side.
THEOREM CeilingHoldsInParts == PartsSpec => CeilingHolds
<1>1. TriggersPart /\ [PartsNext]_partVars => [NoneOver]_T!vars
  <2> SUFFICES ASSUME TriggersPart, [PartsNext]_partVars PROVE NoneOver \/ UNCHANGED T!vars
    OBVIOUS
  <2>1. CASE part \in {"triggers", "leif"}
    <3>1. T!Next \/ UNCHANGED tVars
      BY <2>1 DEF PartsNext, partVars
    <3>2. [T!Next]_T!vars
      BY <3>1 DEF tVars, T!vars
    <3> QED
      BY <2>1, <3>2, CeilingStep DEF TriggersPart, TriggersInv
  <2>2. CASE part \notin {"triggers", "leif"}
    BY <2>2 DEF PartsNext, partVars, tVars, T!vars
  <2> QED
    BY <2>1, <2>2
<1> QED
  BY <1>1, TriggersInParts, PTL DEF PartsSpec, CeilingHolds, T!CeilingHolds, NoneOver

-----------------------------------------------------------------------------
(* The types, within the bounds of the run.                                *)

\* The runs held, and whose end began each.
RunBounds == Len(runs) <= MaxRuns /\ \A i \in T!Ids : runs[i].from \in 0..MaxRuns

\* The midnights are moves.
NightBounds == events \in 0..MaxMoves /\ nights \in 0..events

\* A row more or a row moved is within the bounds.
LEMMA RunBoundsStay ==
  ASSUME RowsInv, RunBounds, [T!Next]_T!vars
  PROVE  RunBounds'
<1> USE PartsAssumption DEF T!TriggersConstants
<1>0. runs \in Seq(Run) /\ Len(runs) \in Nat /\ RowsOK(runs, running, due)
  BY DEF RowsInv, RowsOK
<1>1. ASSUME NEW rows \in Seq(Run), NEW free, NEW a, NEW by, NEW from \in 0..MaxRuns, T!HoldRun(rows, free, a, by, from),
             Len(rows) = Len(runs), \A j \in 1..Len(runs) : rows[j].from = runs[j].from
      PROVE  RunBounds'
  <2> DEFINE r == [agent |-> a, by |-> by, from |-> from, at |-> "held", well |-> FALSE, night |-> 0]
  <2>1. runs' = Append(rows, r) /\ Len(rows) < MaxRuns /\ r.from = from
    BY <1>1 DEF T!HoldRun
  <2> HIDE DEF r
  <2>2. Len(runs') = Len(rows) + 1 /\ runs'[Len(rows) + 1] = r /\ \A j \in 1..Len(rows) : runs'[j] = rows[j]
    BY <2>1
  <2> QED
    BY <1>0, <1>1, <2>1, <2>2 DEF RunBounds, T!Ids
<1>2. ASSUME NEW i \in T!Ids, NEW r, runs' = [runs EXCEPT ![i] = r], r.from = runs[i].from PROVE RunBounds'
  <2>1. Len(runs') = Len(runs) /\ \A j \in 1..Len(runs) : runs'[j] = IF j = i THEN r ELSE runs[j]
    BY <1>0, <1>2 DEF T!Ids
  <2> QED
    BY <1>2, <2>1 DEF RunBounds, T!Ids
<1>3. ASSUME UNCHANGED runs PROVE RunBounds'
  BY <1>3 DEF RunBounds, T!Ids
<1>4. ASSUME NEW a \in Agents, T!Press(a) \/ T!TickSchedule(a) PROVE RunBounds'
  BY <1>0, <1>1, <1>4 DEF T!Press, T!TickSchedule
<1>5. ASSUME NEW f \in Agents, T!TickDue(f) PROVE RunBounds'
  <2>1. due[f] # 0 /\ (T!HoldRun(runs, running, f, "event", due[f]) \/ UNCHANGED runs)
    BY <1>5 DEF T!TickDue
  <2>2. due[f] \in 1..Len(runs)
    BY <1>0, <2>1 DEF RowsOK, DueIsHeard, StartsIt, Past
  <2>3. due[f] \in 0..MaxRuns
    BY <1>0, <2>2 DEF RunBounds
  <2> QED
    BY <1>0, <1>1, <1>3, <2>1, <2>3
<1>6. ASSUME NEW c \in LeifCalls, T!CountHeld(c) \/ T!TakePlace(c) \/ T!Begin(c) PROVE RunBounds'
  BY <1>0, <1>1, <1>3, <1>6 DEF T!CountHeld, T!TakePlace, T!Begin
<1>7. ASSUME NEW i \in T!Ids, T!Discard(i) \/ T!EndsUnstarted(i) \/ T!WriteEnd(i) \/ T!MeetCeiling(i) \/ T!TurnOff(i)
                              \/ T!WriteStart(i)
      PROVE  RunBounds'
  <2>1. runs[i] \in Run
    BY <1>0, RowIsRun DEF T!Ids
  <2>2. ASSUME NEW to, T!Move(i, to) PROVE RunBounds'
    <3> DEFINE r == [runs[i] EXCEPT !.at = to]
    <3>1. runs' = [runs EXCEPT ![i] = r] /\ r.from = runs[i].from
      BY <2>1, <2>2 DEF T!Move, Run
    <3> HIDE DEF r
    <3> QED
      BY <1>2, <3>1
  <2>3. ASSUME NEW well, runs' = [runs EXCEPT ![i].at = "over", ![i].well = well] PROVE RunBounds'
    <3> DEFINE r == [runs[i] EXCEPT !.at = "over", !.well = well]
    <3>1. runs' = [runs EXCEPT ![i] = r] /\ r.from = runs[i].from
      BY <2>1, <2>3 DEF Run
    <3> HIDE DEF r
    <3> QED
      BY <1>2, <3>1
  <2>4. ASSUME NEW night, runs' = [runs EXCEPT ![i].at = "started", ![i].night = night] PROVE RunBounds'
    <3> DEFINE r == [runs[i] EXCEPT !.at = "started", !.night = night]
    <3>1. runs' = [runs EXCEPT ![i] = r] /\ r.from = runs[i].from
      BY <2>1, <2>4 DEF Run
    <3> HIDE DEF r
    <3> QED
      BY <1>2, <3>1
  <2> QED
    BY <1>7, <2>2, <2>3, <2>4 DEF T!Discard, T!EndsUnstarted, T!WriteEnd, T!MeetCeiling, T!TurnOff, T!WriteStart
<1>8. ASSUME NEW i \in T!Ids, T!Release(i) PROVE RunBounds'
  <2> DEFINE to == IF i \in held THEN "gone" ELSE "done"
             r == [runs[i] EXCEPT !.at = to]
             rows == [runs EXCEPT ![i].at = to]
             free == [running EXCEPT ![runs[i].agent] = 0]
  <2>1. runs[i] \in Run /\ to \in {"gone", "done"}
    BY <1>0, RowIsRun DEF T!Ids
  <2>2. rows = [runs EXCEPT ![i] = r] /\ r \in Run /\ r.from = runs[i].from
    BY <2>1 DEF Run
  <2>3. runs' = rows \/ \E f \in T!Hears(i) : T!HoldRun(rows, free, f, "event", i)
    BY <1>8 DEF T!Release, T!LetGo
  <2> HIDE DEF r
  <2>4. /\ rows \in Seq(Run) /\ Len(rows) = Len(runs)
        /\ \A j \in 1..Len(runs) : rows[j] = IF j = i THEN r ELSE runs[j]
    BY <1>0, <2>2, ExceptSeq DEF T!Ids
  <2>5. i \in 0..MaxRuns
    BY <1>0 DEF RunBounds, T!Ids
  <2> HIDE DEF rows, free, to
  <2>6. CASE runs' = rows
    BY <1>2, <2>2, <2>6
  <2>7. \A j \in 1..Len(runs) : rows[j].from = runs[j].from
    BY <2>2, <2>4
  <2> QED
    BY <1>1, <2>3, <2>4, <2>5, <2>6, <2>7
<1>9. CASE T!Crash
  <2>1. runs' = [i \in T!Ids |-> [runs[i] EXCEPT !.at = "done"]]
    BY <1>9 DEF T!Crash
  <2>2. \A i \in T!Ids : runs[i] \in Run
    BY <1>0, RowIsRun DEF T!Ids
  <2>3. Len(runs') = Len(runs)
    BY <1>0, <2>1 DEF T!Ids
  <2>4. \A i \in T!Ids : runs'[i].from = runs[i].from
    BY <2>1, <2>2 DEF Run
  <2> QED
    BY <2>3, <2>4 DEF RunBounds, T!Ids
<1>10. ASSUME (\E a \in Agents : T!Turn(a)) \/ T!Midnight \/ UNCHANGED T!vars PROVE RunBounds'
  BY <1>3, <1>10 DEF T!Turn, T!Midnight, T!vars
<1> QED
  BY <1>4, <1>5, <1>6, <1>7, <1>8, <1>9, <1>10 DEF T!Next

\* A midnight is a move, and no move is taken back.
LEMMA NightBoundsStay ==
  ASSUME NightBounds, [T!Next]_T!vars
  PROVE  NightBounds'
<1> USE PartsAssumption DEF T!TriggersConstants, NightBounds
<1>1. ASSUME T!Moving, nights' \in {nights, nights + 1} PROVE NightBounds'
  BY <1>1 DEF T!Moving
<1>2. ASSUME UNCHANGED <<nights, events>> PROVE NightBounds'
  BY <1>2
<1>3. ASSUME NEW a \in Agents, T!Turn(a) PROVE NightBounds'
  BY <1>1, <1>3 DEF T!Turn
<1>4. CASE T!Crash \/ T!Midnight
  BY <1>1, <1>4 DEF T!Crash, T!Midnight
<1>5. ASSUME NEW a \in Agents, T!Press(a) \/ T!TickSchedule(a) \/ T!TickDue(a) PROVE NightBounds'
  BY <1>2, <1>5 DEF T!Press, T!TickSchedule, T!TickDue
<1>6. ASSUME NEW c \in LeifCalls, T!CountHeld(c) \/ T!TakePlace(c) \/ T!Begin(c) PROVE NightBounds'
  BY <1>2, <1>6 DEF T!CountHeld, T!TakePlace, T!Begin
<1>7. ASSUME NEW i \in T!Ids, T!Discard(i) \/ T!EndsUnstarted(i) \/ T!WriteEnd(i) \/ T!MeetCeiling(i) \/ T!TurnOff(i)
                              \/ T!WriteStart(i) \/ T!Release(i)
      PROVE  NightBounds'
  BY <1>2, <1>7
     DEF T!Discard, T!EndsUnstarted, T!WriteEnd, T!MeetCeiling, T!TurnOff, T!WriteStart, T!Release
<1>8. CASE UNCHANGED T!vars
  BY <1>2, <1>8 DEF T!vars
<1> QED
  BY <1>3, <1>4, <1>5, <1>6, <1>7, <1>8 DEF T!Next

TriggersBounded == TriggersInv /\ RunBounds /\ NightBounds

\* Rows within the bounds, and the agents held by runs of theirs, are the types of Triggers.
LEMMA TriggersAreTyped == TriggersBounded => T!TypeOK
<1> SUFFICES ASSUME TriggersBounded PROVE T!TypeOK
  OBVIOUS
<1>0. /\ runs \in Seq(Run) /\ Len(runs) \in Nat /\ RowsOK(runs, running, due) /\ MaxMoves \in Nat
  BY PartsAssumption DEF TriggersBounded, TriggersInv, RowsInv, RowsOK, T!TriggersConstants
<1>1. enabled \in [Agents -> BOOLEAN] /\ over \subseteq Agents /\ held \subseteq LeifCalls \cup T!Ids
  BY DEF TriggersBounded, TriggersInv, RowsInv, DayInv, PlacesHeld
<1>2. ASSUME NEW i \in T!Ids PROVE runs[i] \in T!Row
  <2>1. runs[i] \in Run /\ runs[i].from \in 0..MaxRuns /\ runs[i].night <= nights + 1
    BY <1>0, RowIsRun DEF T!Ids, TriggersBounded, RunBounds, TriggersInv, DayInv, PlacesHeld
  <2>2. runs[i].night \in 0..(MaxMoves + 1)
    BY <1>0, <2>1 DEF TriggersBounded, NightBounds, Run
  <2> QED
    BY <2>1, <2>2 DEF T!Row, Run
<1>3. ASSUME NEW a \in Agents
      PROVE  /\ running[a] \in 0..Len(runs) /\ due[a] \in 0..Len(runs)
             /\ running[a] # 0 => runs[running[a]].agent = a /\ T!Going(running[a])
  BY <1>0 DEF RowsOK, Holds, DueIsHeard, StartsIt, Past, T!Going, GoingOn
<1>4. running \in [Agents -> 0..Len(runs)] /\ due \in [Agents -> 0..Len(runs)]
  BY <1>0, <1>3 DEF RowsOK
<1> QED
  BY <1>1, <1>2, <1>3, <1>4 DEF T!TypeOK

\* The rows, the agents held and due and Leif's callers stay within their types where the triggers are the
\* part at work.
LEMMA TriggersAreTypedInParts == PartsSpec => [](part \in {"triggers", "leif"} => T!TypeOK)
<1> DEFINE Kept == part \in {"triggers", "leif"} => TriggersBounded
<1>1. PartsInit => Kept
  <2>1. T!Init => RunBounds /\ NightBounds
    BY PartsAssumption DEF T!Init, RunBounds, NightBounds, T!Ids, T!TriggersConstants
  <2> QED
    BY <2>1, TriggersInduct DEF PartsInit, TriggersBounded
<1>2. Kept /\ [PartsNext]_partVars => Kept'
  <2> SUFFICES ASSUME Kept, [PartsNext]_partVars, part' \in {"triggers", "leif"} PROVE TriggersBounded'
    OBVIOUS
  <2>1. part \in {"triggers", "leif"}
    BY DEF PartsNext, partVars
  <2>2. T!Next \/ UNCHANGED tVars
    BY <2>1 DEF PartsNext, partVars
  <2>3. [T!Next]_T!vars
    BY <2>2 DEF tVars, T!vars
  <2> QED
    BY <2>1, <2>3, TriggersInduct, RunBoundsStay, NightBoundsStay DEF TriggersBounded, TriggersInv
<1>3. Kept => (part \in {"triggers", "leif"} => T!TypeOK)
  BY TriggersAreTyped
<1> HIDE DEF Kept
<1> QED
  BY <1>1, <1>2, <1>3, PTL DEF PartsSpec
=============================================================================
