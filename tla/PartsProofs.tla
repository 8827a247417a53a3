---------------------------- MODULE PartsProofs -----------------------------
(***************************************************************************)
(* Theorems about parts that MCParts sets side by side, each of its own    *)
(* module first (B is Boards, A Autopilot, I Integrations) and then of the *)
(* composition the run checks, for every number of askers, changes, wakes, *)
(* moves and commits.                                                      *)
(***************************************************************************)
EXTENDS MCParts, FetchesProofs, LoopProofs, TriggersProofs, WheelsProofs, TLAPS

-----------------------------------------------------------------------------
(* Boards: a read is under way while somebody waits, and it began late     *)
(* enough or is to be made again.                                          *)

BoardTypes ==
  /\ changes \in Nat /\ saw \in Nat /\ told \in Nat /\ board \in [is : BOOLEAN, shows : Nat]
  /\ read \in {"none", "asked", "reads"} /\ again \in BOOLEAN
  /\ asker \in [Askers -> {"away", "waits"}] /\ need \in [Askers -> Nat] /\ handed \in [Askers -> Nat]

\* Nothing is of a change to come, and what is told is of a board held.
NotAhead ==
  /\ saw <= changes /\ told <= changes /\ board.shows <= changes
  /\ \A a \in Askers : need[a] <= changes
  /\ ~board.is => told = 0
  /\ again => read # "none"
  /\ read = "reads" => board.shows <= saw

\* Who waits waits for a read that will show what it asked for.
WaitIsForNew ==
  \A a \in Askers : asker[a] = "waits" =>
    read # "none" /\ (read = "reads" => again \/ need[a] <= saw)

BoardInv == BoardTypes /\ NotAhead /\ WaitIsForNew /\ B!BoardIsCurrent

\* The boards begin with it.
LEMMA BoardInit == B!Init => BoardInv
<1> SUFFICES ASSUME B!Init PROVE BoardInv
  OBVIOUS
<1> USE DEF B!Init
<1>1. BoardTypes
  BY DEF BoardTypes
<1>2. NotAhead
  BY DEF NotAhead
<1>3. WaitIsForNew
  BY DEF WaitIsForNew
<1>4. B!BoardIsCurrent
  BY DEF B!BoardIsCurrent
<1> QED
  BY <1>1, <1>2, <1>3, <1>4 DEF BoardInv

\* Every step of an asker, of a reader or of the bus keeps it.
LEMMA BoardStep == BoardInv /\ [B!Next]_B!vars => BoardInv'
<1> SUFFICES ASSUME BoardInv, [B!Next]_B!vars PROVE BoardInv'
  OBVIOUS
<1> USE DEF BoardInv, BoardTypes, NotAhead, WaitIsForNew, B!BoardIsCurrent
<1>1. ASSUME NEW a \in Askers, NEW anew \in BOOLEAN, B!Ask(a, anew) PROVE BoardInv'
  BY <1>1 DEF B!Ask, B!Refresh
<1>2. CASE B!Change
  BY <1>2 DEF B!Change, B!Refresh
<1>3. CASE B!BeginRead
  BY <1>3 DEF B!BeginRead
<1>4. CASE B!EndRead
  <2> USE <1>4 DEF B!EndRead, B!Away
  <2>1. BoardTypes'
    OBVIOUS
  <2>2. NotAhead'
    OBVIOUS
  <2>3. WaitIsForNew'
    OBVIOUS
  <2>4. B!BoardIsCurrent'
    OBVIOUS
  <2> QED
    BY <2>1, <2>2, <2>3, <2>4
<1>5. CASE B!FailRead
  <2> USE <1>5 DEF B!FailRead, B!Away
  <2>1. BoardTypes'
    OBVIOUS
  <2>2. NotAhead'
    OBVIOUS
  <2>3. WaitIsForNew'
    OBVIOUS
  <2>4. B!BoardIsCurrent'
    OBVIOUS
  <2> QED
    BY <2>1, <2>2, <2>3, <2>4
<1>6. CASE UNCHANGED B!vars
  BY <1>6 DEF B!vars
<1> QED
  BY <1>1, <1>2, <1>3, <1>4, <1>5, <1>6 DEF B!Next

\* In any behaviour of Boards (board_hold.py), who asked for a board read since is handed none older,
\* and a change told of is shown or being read.
THEOREM BoardsAreCurrent == B!Spec => []B!BoardIsCurrent
<1>1. BoardInv => B!BoardIsCurrent
  BY DEF BoardInv
<1> QED
  BY <1>1, BoardInit, BoardStep, PTL DEF B!Spec

BoardPart == part = "boards" => BoardInv

\* BoardIsCurrent of the parts side by side.
THEOREM BoardIsCurrentInParts == PartsSpec => []BoardIsCurrent
<1>1. PartsInit => BoardPart
  BY BoardInit DEF PartsInit, BoardPart
<1>2. BoardPart /\ [PartsNext]_partVars => BoardPart'
  BY BoardStep DEF BoardPart, PartsNext, partVars, bVars, B!vars
<1>3. BoardPart => BoardIsCurrent
  BY DEF BoardPart, BoardInv, BoardIsCurrent
<1> QED
  BY <1>1, <1>2, <1>3, PTL DEF PartsSpec

-----------------------------------------------------------------------------
(* Autopilot: what is unread has a pass to come, and what a pass read in   *)
(* the run log is at most one step of the autopilot behind.                *)

WakeFlags == on \in BOOLEAN /\ wake \in BOOLEAN /\ unread \in BOOLEAN
WakeCounts == asked \in Nat /\ taken \in Nat

Passes == [at : {"none", "begins", "log", "running", "picks", "picked"}, by : {"none", "wake", "poll"},
           pick : [unit : Units \cup {"none"}, note : BOOLEAN]]
PassTypes ==
  /\ pass \in Passes
  /\ log \in [Units -> [last : {"none", "done", "failed"}, tries : Nat]]
  /\ here \subseteq Units /\ chosen \subseteq [unit : Units, note : BOOLEAN]

StepTypes ==
  /\ step \in [Units -> [at : {"idle", "queued", "runs"}, by : {"none", "autopilot", "person"}]]
  /\ last \in [Units -> {"none", "done", "failed"}]
  /\ tries \in [Units -> Nat] /\ blind \in [Units -> Nat]
  /\ noted \subseteq Units

\* While the autopilot is off there is nothing it was told of.
OffIsDeaf == ~on => ~unread

\* A step of the autopilot, and one whose start counts as a try.
Own(u) == step[u].at # "idle" /\ step[u].by = "autopilot"
Counts(u) == step[u].at = "queued" /\ step[u].by = "autopilot" /\ u \in noted

\* A note is of a unit that has a try left, or one more.
NotedHasTry == \A u \in noted : tries[u] <= MaxTries

\* No step went blind before the last one failed.
BlindAfterFailure == \A u \in Units : last[u] # "failed" => blind[u] = 0

\* What a pass read of a unit it may still pick, against what is so now.
ReadIsRecent ==
  \A u \in Units :
    /\ pass.at \in {"log", "running"} =>
         /\ tries[u] + (IF Counts(u) THEN 1 ELSE 0) <= log[u].tries + 1
         /\ log[u].last # "failed" => blind[u] = 0
    /\ pass.at = "running" /\ u \notin here => ~Own(u)

\* A unit chosen, until its step is queued: the autopilot has nothing under way for it.
MayQueue(c) ==
  /\ ~Own(c.unit) /\ blind[c.unit] = 0
  /\ c.note => tries[c.unit] <= MaxTries

ChoiceIsSound ==
  /\ pass.at \in {"picks", "picked"} =>
       /\ \A c \in chosen : MayQueue(c)
       /\ \A c, d \in chosen : c.unit = d.unit => c = d
  /\ pass.at = "picked" =>
       pass.pick.unit \in Units /\ MayQueue(pass.pick) /\ \A c \in chosen : c.unit # pass.pick.unit

AutoInv ==
  /\ WakeFlags /\ WakeCounts /\ PassTypes /\ StepTypes /\ OffIsDeaf /\ NotedHasTry /\ BlindAfterFailure
  /\ ReadIsRecent /\ ChoiceIsSound
  /\ A!WakeIsServed /\ A!RetriesBounded

AutoPart == part = "autopilot" => AutoInv

\* The autopilot begins with it, on or off.
LEMMA AutoInit == A!Init => AutoInv
<1> SUFFICES ASSUME A!Init PROVE AutoInv
  OBVIOUS
<1> USE PartsAssumption DEF A!Init, A!AutopilotConstants, A!NoPass, A!NoPick, A!Idle, A!Named, Own, Counts
<1>1. WakeFlags
  BY DEF WakeFlags
<1>11. WakeCounts
  BY DEF WakeCounts
<1>9. PassTypes
  BY DEF PassTypes, Passes
<1>10. StepTypes
  BY DEF StepTypes
<1>2. OffIsDeaf
  BY DEF OffIsDeaf
<1>3. NotedHasTry
  BY DEF NotedHasTry
<1>4. BlindAfterFailure
  BY DEF BlindAfterFailure
<1>5. ReadIsRecent
  BY DEF ReadIsRecent
<1>6. ChoiceIsSound
  BY DEF ChoiceIsSound
<1>7. A!WakeIsServed
  BY DEF A!WakeIsServed
<1>8. A!RetriesBounded
  BY DEF A!RetriesBounded
<1> QED
  BY <1>1, <1>2, <1>3, <1>4, <1>5, <1>6, <1>7, <1>8, <1>9, <1>10, <1>11 DEF AutoInv

\* Every wake, setting, start, result and step of a pass keeps it.
LEMMA AutoStep == AutoInv /\ [A!Next]_A!vars => AutoInv'
<1> SUFFICES ASSUME AutoInv, [A!Next]_A!vars PROVE AutoInv'
  OBVIOUS
<1> USE PartsAssumption DEF A!AutopilotConstants, AutoInv, WakeFlags, WakeCounts, Passes, PassTypes, StepTypes,
OffIsDeaf, NotedHasTry, BlindAfterFailure,
    ReadIsRecent, ChoiceIsSound, A!WakeIsServed, A!RetriesBounded, MayQueue, Own, Counts,
    A!NoPass, A!NoPick, A!Idle, A!Named, A!wakes, A!passing, A!work
<1>1. CASE A!TakeWake
  <2> USE <1>1 DEF A!TakeWake
  <2>1. (WakeFlags /\ PassTypes)'
    OBVIOUS
  <2>2. (WakeCounts /\ StepTypes)'
    OBVIOUS
  <2>3. (OffIsDeaf /\ A!WakeIsServed /\ NotedHasTry /\ BlindAfterFailure /\ A!RetriesBounded)'
    OBVIOUS
  <2>4. (ReadIsRecent /\ ChoiceIsSound)'
    OBVIOUS
  <2> QED
    BY <2>1, <2>2, <2>3, <2>4
<1>2. ASSUME NEW by \in {"wake", "poll"}, A!BeginPass(by) PROVE AutoInv'
  <2> USE <1>2 DEF A!BeginPass
  <2>1. (WakeFlags /\ PassTypes)'
    OBVIOUS
  <2>2. (WakeCounts /\ StepTypes)'
    OBVIOUS
  <2>3. (OffIsDeaf /\ A!WakeIsServed /\ NotedHasTry /\ BlindAfterFailure /\ A!RetriesBounded)'
    OBVIOUS
  <2>4. (ReadIsRecent /\ ChoiceIsSound)'
    OBVIOUS
  <2> QED
    BY <2>1, <2>2, <2>3, <2>4
<1>3. CASE A!TurnOff
  <2> USE <1>3 DEF A!TurnOff, A!Moving
  <2>1. WakeFlags'
    OBVIOUS
  <2>11. WakeCounts'
    OBVIOUS
  <2>9. PassTypes'
    <3>1. A!NoPass \in Passes
      OBVIOUS
    <3>2. CASE pass.by = "poll"
      BY <3>1, <3>2
    <3>3. CASE pass.by # "poll"
      BY <3>3
    <3> QED
      BY <3>2, <3>3
  <2>10. StepTypes'
    OBVIOUS
  <2>2. OffIsDeaf'
    OBVIOUS
  <2>3. NotedHasTry'
    OBVIOUS
  <2>4. BlindAfterFailure'
    OBVIOUS
  <2>5. ReadIsRecent'
    OBVIOUS
  <2>6. ChoiceIsSound'
    OBVIOUS
  <2>7. A!WakeIsServed'
    OBVIOUS
  <2>8. A!RetriesBounded'
    OBVIOUS
  <2> QED
    BY <2>1, <2>2, <2>3, <2>4, <2>5, <2>6, <2>7, <2>8, <2>9, <2>10, <2>11
<1>4. CASE A!TurnOn
  <2> USE <1>4 DEF A!TurnOn
  <2>1. (WakeFlags /\ PassTypes)'
    OBVIOUS
  <2>2. (WakeCounts /\ StepTypes)'
    OBVIOUS
  <2>3. (OffIsDeaf /\ A!WakeIsServed /\ NotedHasTry /\ BlindAfterFailure /\ A!RetriesBounded)'
    OBVIOUS
  <2>4. (ReadIsRecent /\ ChoiceIsSound)'
    OBVIOUS
  <2> QED
    BY <2>1, <2>2, <2>3, <2>4
<1>5. CASE A!ReadLog
  <2> USE <1>5 DEF A!ReadLog
  <2>1. (WakeFlags /\ PassTypes)'
    OBVIOUS
  <2>2. (WakeCounts /\ StepTypes)'
    OBVIOUS
  <2>3. (OffIsDeaf /\ A!WakeIsServed /\ NotedHasTry /\ BlindAfterFailure /\ A!RetriesBounded)'
    OBVIOUS
  <2>4. (ReadIsRecent /\ ChoiceIsSound)'
    OBVIOUS
  <2> QED
    BY <2>1, <2>2, <2>3, <2>4
<1>6. CASE A!FailPass
  <2> USE <1>6 DEF A!FailPass, A!Moving
  <2>1. (WakeFlags /\ PassTypes)'
    OBVIOUS
  <2>2. (WakeCounts /\ StepTypes)'
    OBVIOUS
  <2>3. (OffIsDeaf /\ A!WakeIsServed /\ NotedHasTry /\ BlindAfterFailure /\ A!RetriesBounded)'
    OBVIOUS
  <2>4. (ReadIsRecent /\ ChoiceIsSound)'
    OBVIOUS
  <2> QED
    BY <2>1, <2>2, <2>3, <2>4
<1>7. CASE A!ReadRunning
  <2> USE <1>7 DEF A!ReadRunning, A!Busy
  <2>1. (WakeFlags /\ PassTypes)'
    OBVIOUS
  <2>2. (WakeCounts /\ StepTypes)'
    OBVIOUS
  <2>3. (OffIsDeaf /\ A!WakeIsServed /\ NotedHasTry /\ BlindAfterFailure /\ A!RetriesBounded)'
    OBVIOUS
  <2>4. (ReadIsRecent /\ ChoiceIsSound)'
    OBVIOUS
  <2> QED
    BY <2>1, <2>2, <2>3, <2>4
<1>8. CASE A!Choose
  <2> DEFINE Chosen(c) == {[unit |-> u, note |-> named[u] = "again"] : u \in c}
  <2>a. pass.at = "running" /\ UNCHANGED <<A!wakes, log, here, A!work>>
    BY <1>8 DEF A!Choose
  <2>b. PICK c \in SUBSET {u \in Units : A!Candidate(u)} :
          IF c = {} \/ ~on THEN pass' = A!NoPass /\ UNCHANGED chosen
          ELSE pass' = [pass EXCEPT !.at = "picks"] /\ chosen' = Chosen(c)
    BY <1>8 DEF A!Choose
  <2> USE <2>a
  <2>1. WakeFlags'
    OBVIOUS
  <2>11. WakeCounts'
    OBVIOUS
  <2>9. PassTypes'
    <3>1. A!NoPass \in Passes
      OBVIOUS
    <3>2. ASSUME NEW u \in c PROVE [unit |-> u, note |-> named[u] = "again"] \in [unit : Units, note : BOOLEAN]
      <4>1. u \in Units /\ (named[u] = "again") \in BOOLEAN
        OBVIOUS
      <4> QED
        BY <4>1, Zenon
    <3>3. ASSUME NEW d \in Chosen(c) PROVE d \in [unit : Units, note : BOOLEAN]
      <4>1. PICK u \in c : d = [unit |-> u, note |-> named[u] = "again"]
        OBVIOUS
      <4> QED
        BY <4>1, <3>2, Zenon
    <3> HIDE DEF Chosen
    <3> QED
      BY <2>b, <3>1, <3>3
  <2>10. StepTypes'
    OBVIOUS
  <2>2. OffIsDeaf'
    OBVIOUS
  <2>3. NotedHasTry'
    OBVIOUS
  <2>4. BlindAfterFailure'
    OBVIOUS
  <2>5. ReadIsRecent'
    OBVIOUS
  <2>6. ChoiceIsSound'
    <3>1. CASE c = {} \/ ~on
      BY <2>b, <3>1
    <3>2. CASE ~(c = {} \/ ~on)
      <4>1. pass'.at = "picks" /\ chosen' = Chosen(c)
        BY <2>b, <3>2
      <4>2. ASSUME NEW d \in chosen' PROVE MayQueue(d)'
        <5>1. PICK u \in c : d = [unit |-> u, note |-> named[u] = "again"]
          BY <4>1
        <5>2. A!Candidate(u) /\ u \in Units
          OBVIOUS
        <5>3. ~Own(u) /\ blind[u] = 0
          BY <5>2 DEF A!Candidate
        <5>4. named[u] = "again" => tries[u] <= MaxTries
          BY <5>2, <5>3 DEF A!Candidate, A!TriesLeft
        <5>5. d.unit = u /\ (d.note <=> named[u] = "again")
          BY <5>1
        <5> QED
          BY <5>3, <5>4, <5>5
      <4>3. ASSUME NEW d \in chosen', NEW e \in chosen', d.unit = e.unit PROVE d = e
        BY <4>1, <4>3
      <4> QED
        BY <4>1, <4>2, <4>3
    <3> QED
      BY <3>1, <3>2
  <2>7. A!WakeIsServed'
    OBVIOUS
  <2>8. A!RetriesBounded'
    OBVIOUS
  <2> QED
    BY <2>1, <2>2, <2>3, <2>4, <2>5, <2>6, <2>7, <2>8, <2>9, <2>10, <2>11
<1>9. ASSUME NEW c \in chosen, A!RecordPick(c) PROVE AutoInv'
  <2> USE <1>9 DEF A!RecordPick
  <2>1. (WakeFlags /\ PassTypes)'
    OBVIOUS
  <2>2. (WakeCounts /\ StepTypes)'
    OBVIOUS
  <2>3. (OffIsDeaf /\ A!WakeIsServed /\ NotedHasTry /\ BlindAfterFailure /\ A!RetriesBounded)'
    OBVIOUS
  <2>4. (ReadIsRecent /\ ChoiceIsSound)'
    OBVIOUS
  <2> QED
    BY <2>1, <2>2, <2>3, <2>4
<1>10. CASE A!Queue
  <2> USE <1>10 DEF A!Queue, A!PassOn, A!Busy
  <2>1. WakeFlags'
    OBVIOUS
  <2>11. WakeCounts'
    OBVIOUS
  <2>9. PassTypes'
    OBVIOUS
  <2>10. StepTypes'
    <3>1. CASE ~on \/ pass.pick.unit \in A!Busy
      BY <3>1
    <3>2. CASE ~(~on \/ pass.pick.unit \in A!Busy)
      <4>1. PICK u \in Units : u = pass.pick.unit
        OBVIOUS
      <4>2. /\ step' = [step EXCEPT ![u] = [at |-> "queued", by |-> "autopilot"]]
            /\ blind' = [blind EXCEPT ![u] = @ + (IF last[u] = "failed" THEN 1 ELSE 0)]
            /\ UNCHANGED <<last, tries, noted>>
        BY <3>2, <4>1
      <4> HIDE DEF Own, Counts, ChoiceIsSound, ReadIsRecent
      <4> QED
        BY <4>2
    <3> QED
      BY <3>1, <3>2
  <2>2. OffIsDeaf'
    OBVIOUS
  <2>3. NotedHasTry'
    OBVIOUS
  <2>4. BlindAfterFailure'
    OBVIOUS
  <2>5. ReadIsRecent'
    OBVIOUS
  <2>6. ChoiceIsSound'
    OBVIOUS
  <2>7. A!WakeIsServed'
    OBVIOUS
  <2>8. A!RetriesBounded'
    <3>1. tries' = tries
      OBVIOUS
    <3>2. ASSUME NEW v \in Units PROVE blind'[v] <= 1
      <4>1. blind[pass.pick.unit] = 0 /\ pass.pick.unit \in Units
        OBVIOUS
      <4>2. \/ blind' = blind
            \/ blind' = [blind EXCEPT ![pass.pick.unit] = @ + 1]
            \/ blind' = [blind EXCEPT ![pass.pick.unit] = @ + 0]
        BY <4>1
      <4> QED
        BY <4>1, <4>2
    <3> QED
      BY <3>1, <3>2
  <2> QED
    BY <2>1, <2>2, <2>3, <2>4, <2>5, <2>6, <2>7, <2>8, <2>9, <2>10, <2>11
<1>11. ASSUME NEW u \in Units, A!Click(u) PROVE AutoInv'
  <2> USE <1>11 DEF A!Click, A!Moving
  <2>1. (WakeFlags /\ PassTypes)'
    OBVIOUS
  <2>2. (WakeCounts /\ StepTypes)'
    OBVIOUS
  <2>3. (OffIsDeaf /\ A!WakeIsServed /\ NotedHasTry /\ BlindAfterFailure /\ A!RetriesBounded)'
    OBVIOUS
  <2>4. (ReadIsRecent /\ ChoiceIsSound)'
    OBVIOUS
  <2> QED
    BY <2>1, <2>2, <2>3, <2>4
<1>12. ASSUME NEW u \in Units, A!Start(u) PROVE AutoInv'
  <2> USE <1>12 DEF A!Start
  <2>1. (WakeFlags /\ PassTypes)'
    OBVIOUS
  <2>2. (WakeCounts /\ StepTypes)'
    OBVIOUS
  <2>3. (OffIsDeaf /\ A!WakeIsServed /\ NotedHasTry /\ BlindAfterFailure /\ A!RetriesBounded)'
    OBVIOUS
  <2>4. (ReadIsRecent /\ ChoiceIsSound)'
    OBVIOUS
  <2> QED
    BY <2>1, <2>2, <2>3, <2>4
<1>13. ASSUME NEW u \in Units, A!Refuse(u) PROVE AutoInv'
  <2> USE <1>13 DEF A!Refuse, A!Nudge
  <2>1. (WakeFlags /\ PassTypes)'
    OBVIOUS
  <2>2. (WakeCounts /\ StepTypes)'
    OBVIOUS
  <2>3. (OffIsDeaf /\ A!WakeIsServed /\ NotedHasTry /\ BlindAfterFailure /\ A!RetriesBounded)'
    OBVIOUS
  <2>4. (ReadIsRecent /\ ChoiceIsSound)'
    OBVIOUS
  <2> QED
    BY <2>1, <2>2, <2>3, <2>4
<1>14. ASSUME NEW u \in Units, A!End(u) PROVE AutoInv'
  <2> USE <1>14 DEF A!End, A!Nudge
  <2>1. (WakeFlags /\ PassTypes)'
    OBVIOUS
  <2>2. (WakeCounts /\ StepTypes)'
    OBVIOUS
  <2>3. (OffIsDeaf /\ A!WakeIsServed /\ NotedHasTry /\ BlindAfterFailure /\ A!RetriesBounded)'
    OBVIOUS
  <2>4. (ReadIsRecent /\ ChoiceIsSound)'
    OBVIOUS
  <2> QED
    BY <2>1, <2>2, <2>3, <2>4
<1>15. ASSUME NEW u \in Units, A!LoopMoves(u) PROVE AutoInv'
  <2> USE <1>15 DEF A!LoopMoves, A!Nudge, A!Moving
  <2>1. (WakeFlags /\ PassTypes)'
    OBVIOUS
  <2>2. (WakeCounts /\ StepTypes)'
    OBVIOUS
  <2>3. (OffIsDeaf /\ A!WakeIsServed /\ NotedHasTry /\ BlindAfterFailure /\ A!RetriesBounded)'
    OBVIOUS
  <2>4. (ReadIsRecent /\ ChoiceIsSound)'
    OBVIOUS
  <2> QED
    BY <2>1, <2>2, <2>3, <2>4
<1>16. CASE UNCHANGED A!vars
  BY <1>16 DEF A!vars
<1> QED
  BY <1>1, <1>2, <1>3, <1>4, <1>5, <1>6, <1>7, <1>8, <1>9, <1>10, <1>11, <1>12, <1>13, <1>14, <1>15, <1>16 DEF A!Next

\* In any behaviour of Autopilot (autopilot.py), what a wake told of that no pass has read is left to
\* a pass still to begin, whenever the setting is on.
THEOREM WakesAreServed == A!Spec => []A!WakeIsServed
<1>1. AutoInv => A!WakeIsServed
  BY DEF AutoInv
<1> QED
  BY <1>1, AutoInit, AutoStep, PTL DEF A!Spec

\* In any behaviour of Autopilot, on one head it begins a step with its own note at most once more than
\* `MAX_TRIES`, and queues at most one step after one that did not end done, whoever else starts steps.
THEOREM RetriesAreBounded == A!Spec => []A!RetriesBounded
<1>1. AutoInv => A!RetriesBounded
  BY DEF AutoInv
<1> QED
  BY <1>1, AutoInit, AutoStep, PTL DEF A!Spec

\* The invariant of Autopilot where it is the part at work.
LEMMA AutoInvInParts == PartsSpec => []AutoPart
<1>1. PartsInit => AutoPart
  BY AutoInit DEF PartsInit, AutoPart
<1>2. AutoPart /\ [PartsNext]_partVars => AutoPart'
  <2> SUFFICES ASSUME AutoPart, [PartsNext]_partVars, part' = "autopilot" PROVE AutoInv'
    BY DEF AutoPart
  <2>1. part = "autopilot"
    BY DEF PartsNext, partVars
  <2>2. A!Next \/ UNCHANGED aVars
    BY <2>1 DEF PartsNext, partVars
  <2>3. [A!Next]_A!vars
    BY <2>2 DEF aVars, A!vars, A!wakes, A!passing, A!work
  <2> QED
    BY <2>1, <2>3, AutoStep DEF AutoPart
<1> QED
  BY <1>1, <1>2, PTL DEF PartsSpec

\* WakeIsServed of the parts side by side.
THEOREM WakeIsServedInParts == PartsSpec => []WakeIsServed
<1>1. AutoPart => WakeIsServed
  BY DEF AutoPart, AutoInv, WakeIsServed
<1> QED
  BY <1>1, AutoInvInParts, PTL

\* RetriesBounded of the parts side by side.
THEOREM RetriesBoundedInParts == PartsSpec => []RetriesBounded
<1>1. AutoPart => RetriesBounded
  BY DEF AutoPart, AutoInv, RetriesBounded
<1> QED
  BY <1>1, AutoInvInParts, PTL

-----------------------------------------------------------------------------
(* A branch being integrated.                                               *)

\* A head, of the first `t` commits of `main` and of the first `c` commits made on the branch.
HeadsOf(t, c) == {h \in [on : 0..t, work : Seq(1..c), by : {"none", "unit", "gebo", "github"}] : I!IsInjective(h.work)}
Heads == HeadsOf(trunk, commits)
Rebases == {"none", "stopped", "stuck"}
Gots(t, c) == [pr : HeadsOf(t, c), origin : 0..t, state : {"unknown", "behind", "current", "conflicting", "red"},
               local : HeadsOf(t, c), completing : BOOLEAN, after : HeadsOf(t, c)]

CountTypes ==
  /\ trunk \in 0..MaxTrunk /\ main \in 0..trunk /\ commits \in 0..MaxMade
  /\ mine \subseteq 1..commits /\ swept \subseteq 1..commits
PullTypes == tip \in Heads /\ owed \in BOOLEAN /\ pushed \in Heads
TreeTypes == tree \in [head : Heads, rebase : Rebases]
GotTypes == got \in Gots(trunk, commits)
Ats == {"idle", "reads", "decides", "opens", "updates", "refused", "polls", "follows", "gebo", "judges", "suspended",
        "down"}
AtTypes == at \in Ats /\ opened \in BOOLEAN

\* The tree has no rebase open on the road to a record, and one stopped is onto a later `main`.
Clear == at \in {"opens", "updates", "polls", "refused", "follows"} => tree.rebase = "none"
StoppedIsOnto == tree.rebase = "stopped" => tree.head.on < main

\* `g` was the head before `h`: nothing it had is gone, and it stands on no later `main`.
Before(g, h) == g.on <= h.on /\ I!Has(g) \subseteq I!Has(h)

\* The head a press read is an old one of the pull request, and the one it reads after is later.
Reads ==
  /\ Before(got.pr, tip)
  /\ at \in {"follows", "judges"} => Before(got.pr, got.after) /\ Before(got.after, tip)

\* What the press decided about the tree: it is the head read, on the mechanical road; a completion is on
\* a `main` as late; and what Gebo does to another is on top of the head read.
Decided ==
  /\ at \in {"decides", "updates", "polls", "refused"} => ~got.completing
  /\ at \in {"updates", "polls", "refused", "follows"} => tree.head = got.pr
  /\ at \in {"opens", "gebo", "suspended"} =>
       /\ got.pr.on <= tree.head.on
       /\ ~got.completing => I!Has(got.pr) \subseteq I!Has(tree.head)

\* In a tree that Gebo is rebasing, all that the unit's steps made is of the head read.
OnlyReadWork ==
  at \in {"opens", "gebo", "suspended", "judges"} /\ ~got.completing => mine \cap I!Has(tree.head) \subseteq I!Has(got.pr)

BranchInv ==
  /\ CountTypes /\ PullTypes /\ TreeTypes /\ GotTypes /\ AtTypes
  /\ Clear /\ StoppedIsOnto /\ Reads /\ Decided /\ OnlyReadWork /\ I!LocalWorkKept
\* Heads stay heads as `main` and the branch grow.
LEMMA HeadsGrow ==
  ASSUME NEW t \in Nat, NEW c \in Nat, NEW t2 \in Nat, NEW c2 \in Nat, t <= t2, c <= c2
  PROVE  HeadsOf(t, c) \subseteq HeadsOf(t2, c2)
<1>1. Seq(1..c) \subseteq Seq(1..c2) /\ 0..t \subseteq 0..t2  OBVIOUS
<1> QED  BY <1>1 DEF HeadsOf

\* What a commit makes of a head.
LEMMA CommitIs ==
  ASSUME commits \in Nat, NEW t \in Nat, NEW h \in HeadsOf(t, commits)
  PROVE  /\ I!CommitOn(h) \in HeadsOf(t, commits + 1) /\ I!CommitOn(h).on = h.on
         /\ I!Has(I!CommitOn(h)) = I!Has(h) \cup {commits + 1}
<1> DEFINE c == commits
<1>0. c \in Nat  OBVIOUS
<1> DEFINE g == I!CommitOn(h)
<1>1. h.on \in 0..t /\ h.work \in Seq(1..c) /\ h.by \in {"none", "unit", "gebo", "github"} /\ I!IsInjective(h.work)
  BY DEF HeadsOf
<1>2. g = [on |-> h.on, work |-> Append(h.work, c + 1), by |-> h.by]
  <2> DEFINE a == Append(h.work, c + 1)
  <2>1. g = [h EXCEPT !.work = a]  BY DEF I!CommitOn
  <2>2. h \in [on : 0..t, work : Seq(1..c), by : {"none", "unit", "gebo", "github"}]  BY DEF HeadsOf
  <2> HIDE DEF a, g
  <2>3. g = [on |-> h.on, work |-> a, by |-> h.by]  BY <2>1, <2>2
  <2> QED  BY <2>3 DEF a
<1> DEFINE w == Append(h.work, c + 1)
<1>3. /\ Len(w) = Len(h.work) + 1 /\ DOMAIN w = 1..(Len(h.work) + 1) /\ Len(h.work) \in Nat
      /\ \A i \in 1..Len(h.work) : w[i] = h.work[i] /\ w[i] \in 1..c
      /\ w[Len(h.work) + 1] = c + 1 /\ DOMAIN h.work = 1..Len(h.work)
  BY <1>1
<1>4. w \in Seq(1..(c + 1))
  <2>1. 1..c \subseteq 1..(c + 1)  OBVIOUS
  <2>2. h.work \in Seq(1..(c + 1)) /\ c + 1 \in 1..(c + 1)  BY <1>1, <2>1
  <2> QED  BY <2>2
<1> HIDE DEF w, c
<1>5. I!IsInjective(w)
  <2>1. \A i \in DOMAIN w : i \in 1..Len(h.work) \/ i = Len(h.work) + 1  BY <1>3
  <2>2. \A i, j \in 1..Len(h.work) : h.work[i] = h.work[j] => i = j  BY <1>1, <1>3 DEF I!IsInjective
  <2>3. ASSUME NEW i \in DOMAIN w, NEW j \in DOMAIN w, w[i] = w[j] PROVE i = j
    BY <1>0, <1>3, <2>1, <2>2, <2>3
  <2> QED  BY <2>3 DEF I!IsInjective
<1>6. {w[i] : i \in DOMAIN w} = {h.work[i] : i \in DOMAIN h.work} \cup {c + 1}
  <2>1. \A i \in DOMAIN w : i \in 1..Len(h.work) \/ i = Len(h.work) + 1  BY <1>3
  <2> QED  BY <1>3, <2>1
<1>7. g.work = w /\ g.on = h.on /\ g.by = h.by  BY <1>2 DEF w
<1>8. g \in [on : 0..t, work : Seq(1..(c + 1)), by : {"none", "unit", "gebo", "github"}]  BY <1>1, <1>2, <1>4 DEF w
<1> HIDE DEF g
<1>9. I!Has(g) = I!Has(h) \cup {c + 1}  BY <1>6, <1>7 DEF I!Has, I!ToSet
<1> QED  BY <1>5, <1>7, <1>8, <1>9 DEF HeadsOf, g, c

\* A rebase keeps the commits and takes the base it is given.
LEMMA RebasedIs ==
  ASSUME NEW t \in Nat, NEW c \in Nat, NEW h \in HeadsOf(t, c), NEW b \in 0..t, NEW who \in {"gebo", "github"}
  PROVE  /\ I!Rebased(h, b, who) \in HeadsOf(t, c)
         /\ I!Rebased(h, b, who).on = b /\ I!Has(I!Rebased(h, b, who)) = I!Has(h)
<1> DEFINE g == I!Rebased(h, b, who)
<1>1. /\ h \in [on : 0..t, work : Seq(1..c), by : {"none", "unit", "gebo", "github"}]
      /\ I!IsInjective(h.work)
  BY DEF HeadsOf
<1>2. /\ g \in [on : 0..t, work : Seq(1..c), by : {"none", "unit", "gebo", "github"}]
      /\ g.on = b /\ g.work = h.work
  BY <1>1 DEF I!Rebased
<1> HIDE DEF g
<1> QED  BY <1>1, <1>2 DEF HeadsOf, I!Has, g

\* An ancestor stands on the same commit of `main` and has no commit its descendant lacks.
LEMMA AncestorIs ==
  ASSUME NEW t \in Nat, NEW c \in Nat, NEW g \in HeadsOf(t, c), NEW h \in HeadsOf(t, c), I!Ancestor(g, h)
  PROVE  g.on = h.on /\ I!Has(g) \subseteq I!Has(h)
<1>1. g.work \in Seq(1..c) /\ h.work \in Seq(1..c)  BY DEF HeadsOf
<1>2. Len(g.work) <= Len(h.work) /\ SubSeq(g.work, 1, Len(g.work)) = SubSeq(h.work, 1, Len(g.work)) /\ g.on = h.on
  BY DEF I!Ancestor, I!IsPrefix
<1>3. \A i \in 1..Len(g.work) : g.work[i] = h.work[i] /\ i \in DOMAIN h.work
  <2> TAKE i \in 1..Len(g.work)
  <2>1. SubSeq(g.work, 1, Len(g.work))[i] = g.work[i] /\ SubSeq(h.work, 1, Len(g.work))[i] = h.work[i]
    BY <1>1, <1>2
  <2> QED  BY <1>1, <1>2, <2>1
<1>4. DOMAIN g.work = 1..Len(g.work)  BY <1>1
<1> QED  BY <1>2, <1>3, <1>4 DEF I!Has, I!ToSet

\* The head that stands for none is one.
LEMMA NoneIs ==
  ASSUME NEW t \in Nat, NEW c \in Nat
  PROVE  /\ I!None \in HeadsOf(t, c) /\ I!NoGot \in Gots(t, c)
         /\ I!None.on = 0 /\ I!Has(I!None) = {} /\ I!NoGot.pr = I!None /\ ~I!NoGot.completing
<1>1. /\ I!None.work = <<>> /\ I!None.on = 0
      /\ I!None \in [on : 0..t, work : Seq(1..c), by : {"none", "unit", "gebo", "github"}]
  BY DEF I!None
<1>2. I!IsInjective(<<>>) /\ {<<>>[i] : i \in DOMAIN <<>>} = {}  BY DEF I!IsInjective
<1>3. I!None \in HeadsOf(t, c)  BY <1>1, <1>2 DEF HeadsOf
<1>4. I!NoGot.pr = I!None /\ ~I!NoGot.completing  BY DEF I!NoGot
<1>5. I!NoGot \in Gots(t, c)  BY <1>3 DEF I!NoGot, Gots
<1>6. I!Has(I!None) = {}  BY <1>1, <1>2 DEF I!Has, I!ToSet
<1> QED  BY <1>1, <1>3, <1>4, <1>5, <1>6


\* A head has commits made on the branch only.
LEMMA HasIsMade ==
  ASSUME NEW t, NEW c, NEW h \in HeadsOf(t, c)
  PROVE  h.on \in 0..t /\ I!Has(h) \subseteq 1..c
<1> DEFINE w == h.work
           made == 1..c
<1>1. h.on \in 0..t /\ w \in Seq(made)  BY DEF HeadsOf
<1> HIDE DEF w, made
<1>2. ASSUME NEW i \in DOMAIN w PROVE w[i] \in made
  <2>1. i \in 1..Len(w)  BY <1>1, <1>2
  <2> QED  BY <1>1, <2>1
<1>3. {w[i] : i \in DOMAIN w} \subseteq made  BY <1>2
<1> QED  BY <1>1, <1>3 DEF I!Has, I!ToSet, w, made

\* The counts go up, and a head has commits made so far.
LEMMA CountsKept ==
  ASSUME BranchInv, I!Next
  PROVE  /\ CountTypes' /\ Heads \subseteq Heads' /\ Gots(trunk, commits) \subseteq Gots(trunk', commits')
         /\ trunk \in Nat /\ main \in Nat /\ commits \in Nat /\ trunk' \in Nat /\ main' \in Nat /\ commits' \in Nat
         /\ trunk <= trunk' /\ main <= main' /\ commits <= commits'
         /\ \A h \in Heads : h.on \in 0..trunk /\ I!Has(h) \subseteq 1..commits
<1>1. CountTypes /\ TreeTypes  BY DEF BranchInv
<1>2. /\ trunk \in Nat /\ main \in Nat /\ commits \in Nat /\ main <= trunk /\ trunk <= MaxTrunk /\ commits <= MaxMade
      /\ MaxTrunk \in Nat /\ MaxMade \in Nat
  BY <1>1, PartsAssumption DEF CountTypes, I!IntegrationsConstants
<1>3. \A h \in Heads : h.on \in 0..trunk /\ I!Has(h) \subseteq 1..commits
  BY HasIsMade DEF Heads
<1>4. trunk' = trunk \/ (trunk' = trunk + 1 /\ trunk < MaxTrunk)
  BY DEF I!Next, I!Press, I!Read, I!Leaves, I!Decide, I!UpdateBranch, I!AfterRefused, I!Poll, I!Follow, I!Opens,
    I!GeboRebases, I!GeboCommits, I!GeboPushes, I!GeboEnds, I!Judge, I!Suspended, I!Resumed, I!NotResumed, I!GoesDown,
    I!Start, I!GitHubRebases, I!Elsewhere, I!Commit, I!Push, I!github
<1>5. main' = main \/ (main' = trunk /\ trunk' = trunk)
  BY DEF I!Next, I!Press, I!Read, I!Leaves, I!Decide, I!UpdateBranch, I!AfterRefused, I!Poll, I!Follow, I!Opens,
    I!GeboRebases, I!GeboCommits, I!GeboPushes, I!GeboEnds, I!Judge, I!Suspended, I!Resumed, I!NotResumed, I!GoesDown,
    I!Start, I!GitHubRebases, I!Elsewhere, I!Commit, I!Push, I!github
<1>6. /\ commits' = commits \/ (commits' = commits + 1 /\ commits < MaxMade)
      /\ mine' = mine \/ (mine' = mine \cup {commits + 1} /\ commits' = commits + 1)
  BY DEF I!Next, I!Press, I!Read, I!Leaves, I!Decide, I!UpdateBranch, I!AfterRefused, I!Poll, I!Follow, I!Opens,
    I!GeboRebases, I!GeboCommits, I!GeboPushes, I!GeboEnds, I!Judge, I!Suspended, I!Resumed, I!NotResumed, I!GoesDown,
    I!Start, I!GitHubRebases, I!Elsewhere, I!Commit, I!Push, I!history
<1>7. swept' = swept \/ swept' = swept \cup (I!Has(tree.head) \ I!Has(tree'.head))
  BY DEF I!Next, I!Press, I!Read, I!Leaves, I!Decide, I!UpdateBranch, I!AfterRefused, I!Poll, I!Follow, I!Opens,
    I!GeboRebases, I!GeboCommits, I!GeboPushes, I!GeboEnds, I!Judge, I!Suspended, I!Resumed, I!NotResumed, I!GoesDown,
    I!Start, I!GitHubRebases, I!Elsewhere, I!Commit, I!Push, I!history
<1>8. /\ trunk' \in 0..MaxTrunk /\ main' \in 0..trunk' /\ commits' \in 0..MaxMade
      /\ trunk <= trunk' /\ main <= main' /\ commits <= commits'
  BY <1>2, <1>4, <1>5, <1>6
<1>9. mine' \subseteq 1..commits'
  <2>1. mine \subseteq 1..commits  BY <1>1 DEF CountTypes
  <2>2. mine' = mine \/ (mine' = mine \cup {commits + 1} /\ commits' = commits + 1)  BY <1>6
  <2>3. 1..commits \subseteq 1..commits' /\ commits' \in Nat  BY <1>2, <1>8
  <2>4. CASE mine' = mine  BY <2>1, <2>3, <2>4
  <2>5. CASE mine' = mine \cup {commits + 1} /\ commits' = commits + 1
    <3>1. commits + 1 \in 1..commits'  BY <1>2, <2>5
    <3> QED  BY <2>1, <2>3, <2>5, <3>1
  <2> QED  BY <2>2, <2>4, <2>5
<1>10. swept' \subseteq 1..commits'
  <2>1. tree.head \in Heads  BY <1>1 DEF TreeTypes
  <2>2. I!Has(tree.head) \subseteq 1..commits  BY <1>3, <2>1
  <2>3. 1..commits \subseteq 1..commits'  BY <1>2, <1>8
  <2>4. swept \subseteq 1..commits  BY <1>1 DEF CountTypes
  <2> QED  BY <1>7, <2>2, <2>3, <2>4
<1>11. Heads \subseteq Heads'
  <2>1. trunk' \in Nat /\ commits' \in Nat  BY <1>8
  <2> QED  BY <1>2, <1>8, <2>1, HeadsGrow DEF Heads
<1>12. Gots(trunk, commits) \subseteq Gots(trunk', commits')
  <2>1. HeadsOf(trunk, commits) \subseteq HeadsOf(trunk', commits')  BY <1>11 DEF Heads
  <2>2. 0..trunk \subseteq 0..trunk'  BY <1>2, <1>8
  <2> QED  BY <2>1, <2>2 DEF Gots
<1> QED  BY <1>2, <1>3, <1>8, <1>9, <1>10, <1>11, <1>12 DEF CountTypes

\* No step takes the pull request back, and its types stay.
LEMMA PullGoesOn ==
  ASSUME BranchInv, I!Next
  PROVE  PullTypes' /\ Before(tip, tip')
<1>1. /\ tip \in Heads /\ tree.head \in Heads /\ got.pr \in Heads /\ got.after \in Heads /\ pushed \in Heads
      /\ owed \in BOOLEAN /\ tip \in HeadsOf(trunk, commits) /\ tree.head \in HeadsOf(trunk, commits)
  BY DEF BranchInv, PullTypes, TreeTypes, GotTypes, Gots, Heads
<1>2. /\ trunk \in Nat /\ commits \in Nat /\ Heads \subseteq Heads' /\ Heads = HeadsOf(trunk, commits)
      /\ tip.on \in 0..trunk /\ tree.head.on \in 0..trunk
  BY <1>1, CountsKept DEF Heads
<1>3. tip' \in Heads' /\ Before(tip, tip')
  <2>1. CASE tip' = tip  BY <1>1, <1>2, <2>1 DEF Before
  <2>2. CASE I!GeboPushes
    <3>1. at = "gebo" /\ tip = got.pr /\ tip' = tree.head
          /\ (got.completing => I!Ancestor(tip, tree.head) \/ tree.head.work = tip.work)
      BY <2>2 DEF I!GeboPushes
    <3>2. tip.on <= tree.head.on /\ (~got.completing => I!Has(tip) \subseteq I!Has(tree.head))
      BY <3>1 DEF BranchInv, Decided
    <3>3. I!Ancestor(tip, tree.head) => I!Has(tip) \subseteq I!Has(tree.head)  BY <1>1, <1>2, AncestorIs
    <3>4. tree.head.work = tip.work => I!Has(tip) \subseteq I!Has(tree.head)  BY DEF I!Has
    <3> QED  BY <1>1, <1>2, <3>1, <3>2, <3>3, <3>4 DEF Before
  <2>3. CASE I!Push
    <3>1. I!Ancestor(tip, tree.head) /\ tip' = tree.head  BY <2>3 DEF I!Push
    <3>2. tip.on = tree.head.on /\ I!Has(tip) \subseteq I!Has(tree.head)  BY <1>1, <1>2, <3>1, AncestorIs
    <3> QED  BY <1>1, <1>2, <3>1, <3>2 DEF Before
  <2>4. CASE I!GitHubRebases
    <3>1. CASE tip.on < trunk /\ tip' = I!Rebased(tip, trunk, "github")
      <4> DEFINE new == I!Rebased(tip, trunk, "github")
      <4>1. trunk \in 0..trunk /\ trunk \in Nat /\ commits \in Nat /\ tip \in HeadsOf(trunk, commits)  BY <1>1, <1>2
      <4>2. new \in HeadsOf(trunk, commits) /\ new.on = trunk /\ I!Has(new) = I!Has(tip)  BY <4>1, RebasedIs
      <4>3. tip' = new  BY <3>1
      <4> HIDE DEF new
      <4>4. tip' \in Heads'  BY <1>2, <4>2, <4>3
      <4> QED  BY <1>2, <4>2, <4>3, <4>4 DEF Before
    <3> QED  BY <2>1, <2>4, <3>1 DEF I!GitHubRebases
  <2>5. CASE I!Elsewhere
    <3>1. CASE tip' = I!CommitOn(tip) /\ commits' = commits + 1 /\ trunk' = trunk
      <4> DEFINE new == I!CommitOn(tip)
      <4>1. tip' = new  BY <3>1
      <4>2. new \in HeadsOf(trunk, commits + 1) /\ new.on = tip.on /\ I!Has(new) = I!Has(tip) \cup {commits + 1}
        <5>1. trunk \in Nat /\ commits \in Nat /\ tip \in HeadsOf(trunk, commits)  BY <1>1, <1>2
        <5> QED  BY <5>1, CommitIs
      <4> HIDE DEF new
      <4>3. tip' \in Heads'  BY <3>1, <4>1, <4>2 DEF Heads
      <4> QED  BY <1>2, <4>1, <4>2, <4>3 DEF Before
    <3> QED  BY <2>1, <2>5, <3>1 DEF I!Elsewhere
  <2> QED
    BY <2>1, <2>2, <2>3, <2>4, <2>5 DEF I!Next, I!Press, I!Read, I!Leaves, I!Decide, I!UpdateBranch, I!AfterRefused,
      I!Poll, I!Follow, I!Opens, I!GeboRebases, I!GeboCommits, I!GeboEnds, I!Judge, I!Suspended, I!Resumed,
      I!NotResumed, I!GoesDown, I!Start, I!Commit, I!github
<1>4. owed' \in BOOLEAN
  BY <1>1 DEF I!Next, I!Press, I!Read, I!Leaves, I!Decide, I!UpdateBranch, I!AfterRefused, I!Poll, I!Follow, I!Opens,
    I!GeboRebases, I!GeboCommits, I!GeboPushes, I!GeboEnds, I!Judge, I!Suspended, I!Resumed, I!NotResumed, I!GoesDown,
    I!Start, I!GitHubRebases, I!Elsewhere, I!Commit, I!Push, I!github
<1>5. pushed' \in {pushed, I!None, got.after}
  BY DEF I!Next, I!Press, I!Read, I!Leaves, I!Decide, I!UpdateBranch, I!AfterRefused, I!Poll, I!Follow, I!Opens,
    I!GeboRebases, I!GeboCommits, I!GeboPushes, I!GeboEnds, I!Judge, I!Suspended, I!Resumed, I!NotResumed, I!GoesDown,
    I!Start, I!GitHubRebases, I!Elsewhere, I!Commit, I!Push, I!Record, I!Moved
<1>6. I!None \in Heads  BY <1>2, NoneIs
<1> QED  BY <1>1, <1>2, <1>3, <1>4, <1>5, <1>6 DEF PullTypes


\* What the relation of two heads says of them.
LEMMA RelationIs ==
  ASSUME NEW t \in Nat, NEW c \in Nat, NEW l \in HeadsOf(t, c), NEW h \in HeadsOf(t, c), NEW o \in 0..t
  PROVE  /\ I!Relation(l, h, o) \in {"same", "behind", "ahead", "diverged", "stale"}
         /\ I!Relation(l, h, o) = "same" => l = h
         /\ I!Relation(l, h, o) = "behind" => I!Has(l) \subseteq I!Has(h)
         /\ I!Relation(l, h, o) = "ahead" => h.on = l.on
         /\ I!Relation(l, h, o) = "diverged" => h.on < l.on
<1>1. l.on \in 0..t /\ h.on \in 0..t  BY DEF HeadsOf
<1>2. I!Ancestor(l, h) => I!Has(l) \subseteq I!Has(h)  BY AncestorIs
<1>3. I!Ancestor(h, l) => h.on = l.on  BY DEF I!Ancestor
<1>4. I!NewerBase(l, h, o) => h.on < l.on  BY <1>1 DEF I!NewerBase, I!OlderOf
<1>5. \/ l = h /\ I!Relation(l, h, o) = "same"
      \/ l # h /\ I!Ancestor(l, h) /\ I!Relation(l, h, o) = "behind"
      \/ l # h /\ I!Ancestor(h, l) /\ I!Relation(l, h, o) = "ahead"
      \/ I!NewerBase(l, h, o) /\ I!Relation(l, h, o) = "diverged"
      \/ I!Relation(l, h, o) = "stale"
  BY DEF I!Relation
<1> QED  BY <1>2, <1>3, <1>4, <1>5

\* The tree as the press clears it: its head is the one it had.
LEMMA ClearedIs ==
  ASSUME TreeTypes, NEW t \in I!Cleared
  PROVE  t \in [head : Heads, rebase : Rebases] /\ t.head = tree.head /\ (t.rebase = "stopped" => t = tree)
<1>1. tree \in [head : Heads, rebase : Rebases]  BY DEF TreeTypes
<1>2. CASE t = tree  BY <1>1, <1>2
<1>3. CASE \E r \in {"none", "stuck"} : t = [tree EXCEPT !.rebase = r]
  <2>1. PICK r \in {"none", "stuck"} : t = [tree EXCEPT !.rebase = r]  BY <1>3
  <2>2. t \in [head : Heads, rebase : Rebases] /\ t.head = tree.head /\ t.rebase = r  BY <1>1, <2>1 DEF Rebases
  <2> QED  BY <2>2
<1> QED  BY <1>2, <1>3 DEF I!Cleared

\* What the press decided: the head it goes on with has what the steps made, and is the head read on the
\* mechanical road.
LEMMA DecidesIs ==
  ASSUME BranchInv, I!Decide
  PROVE  /\ tree' \in [head : Heads, rebase : Rebases]
         /\ tree'.rebase = "stopped" => tree' = tree
         /\ I!Has(tree.head) \subseteq I!Has(tree'.head)
         /\ \/ at' = "idle" /\ got' = I!NoGot
            \/ /\ at' \in {"opens", "updates"} /\ tree'.rebase = "none"
               /\ got' \in Gots(trunk, commits) /\ got'.pr = got.pr
               /\ ~got'.completing => tree'.head = got.pr
               /\ got'.completing => at' = "opens" /\ got.pr.on <= tree'.head.on
<1>1. PICK t \in I!Cleared :
        \/ tree' = t /\ I!Record(I!None)
        \/ /\ t.rebase = "none"
           /\ LET how == I!Relation(t.head, got.pr, got.origin)
                  to == IF how = "behind" THEN got.pr ELSE t.head IN
             /\ how # "stale" /\ tree' = [t EXCEPT !.head = to]
             /\ \/ at' = "opens" /\ got' = [got EXCEPT !.local = to, !.completing = how \in I!Completion]
                \/ how \notin I!Completion /\ at' = "updates" /\ got' = [got EXCEPT !.local = to]
                \/ I!Record(I!None)
                \/ at' = "idle" /\ got' = I!NoGot
  BY DEF I!Decide
<1>2. t \in [head : Heads, rebase : Rebases] /\ t.head = tree.head /\ (t.rebase = "stopped" => t = tree)
  BY ClearedIs DEF BranchInv
<1>3. CASE tree' = t /\ I!Record(I!None)  BY <1>2, <1>3 DEF I!Record
<1>4. CASE tree' # t \/ ~I!Record(I!None)
  <2> DEFINE how == I!Relation(t.head, got.pr, got.origin)
             kept == IF how = "behind" THEN got.pr ELSE t.head
  <2>1. /\ t.rebase = "none" /\ how # "stale" /\ tree' = [t EXCEPT !.head = kept]
        /\ \/ at' = "opens" /\ got' = [got EXCEPT !.local = kept, !.completing = how \in I!Completion]
           \/ how \notin I!Completion /\ at' = "updates" /\ got' = [got EXCEPT !.local = kept]
           \/ at' = "idle" /\ got' = I!NoGot
    BY <1>1, <1>4 DEF I!Record
  <2>2. /\ trunk \in Nat /\ commits \in Nat /\ t.head \in HeadsOf(trunk, commits) /\ got.pr \in HeadsOf(trunk, commits)
        /\ got.origin \in 0..trunk /\ got \in Gots(trunk, commits)
    BY <1>2, PartsAssumption DEF BranchInv, CountTypes, GotTypes, Gots, Heads, I!IntegrationsConstants
  <2>3. /\ how \in {"same", "behind", "ahead", "diverged", "stale"}
        /\ how = "same" => t.head = got.pr
        /\ how = "behind" => I!Has(t.head) \subseteq I!Has(got.pr)
        /\ how = "ahead" => got.pr.on = t.head.on
        /\ how = "diverged" => got.pr.on < t.head.on
    BY <2>2, RelationIs
  <2> HIDE DEF how
  <2>4. kept \in Heads /\ I!Has(t.head) \subseteq I!Has(kept)  BY <2>2, <2>3 DEF Heads
  <2>5. how \notin I!Completion => kept = got.pr  BY <2>1, <2>3 DEF I!Completion
  <2>6. how \in I!Completion => got.pr.on <= kept.on
    <3>1. got.pr.on \in Nat /\ t.head.on \in Nat  BY <2>2 DEF HeadsOf
    <3> QED  BY <2>3, <3>1 DEF I!Completion
  <2> HIDE DEF kept
  <2>7. tree' \in [head : Heads, rebase : Rebases] /\ tree'.head = kept /\ tree'.rebase = "none"
    BY <1>2, <2>1, <2>4
  <2>8. CASE at' = "opens" /\ got' = [got EXCEPT !.local = kept, !.completing = how \in I!Completion]
    <3> DEFINE done == how \in I!Completion
    <3>1. done \in BOOLEAN  OBVIOUS
    <3>2. got' = [got EXCEPT !.local = kept, !.completing = done]  BY <2>8
    <3>3. done => got.pr.on <= kept.on  BY <2>6
    <3>4. ~done => kept = got.pr  BY <2>5
    <3> HIDE DEF done
    <3>5. got' \in Gots(trunk, commits) /\ got'.pr = got.pr /\ got'.completing = done
      BY <2>2, <2>4, <3>1, <3>2 DEF Gots, Heads
    <3> QED  BY <1>2, <2>4, <2>7, <2>8, <3>3, <3>4, <3>5
  <2>9. CASE how \notin I!Completion /\ at' = "updates" /\ got' = [got EXCEPT !.local = kept]
    <3>1. got' \in Gots(trunk, commits) /\ got'.pr = got.pr /\ got'.completing = got.completing
      BY <2>2, <2>4, <2>9 DEF Gots, Heads
    <3>2. ~got.completing  BY DEF BranchInv, Decided, I!Decide
    <3> QED  BY <1>2, <2>4, <2>5, <2>7, <2>9, <3>1, <3>2
  <2> QED  BY <1>2, <2>1, <2>4, <2>7, <2>8, <2>9
<1> QED  BY <1>3, <1>4

\* The tree stays one: a rebase stopped in it is onto a later `main`, and what the steps made in it is on
\* the branch, on the pull request, or of those a completion's end moved it away from.
LEMMA TreeStays ==
  ASSUME BranchInv, I!Next
  PROVE  TreeTypes' /\ StoppedIsOnto' /\ I!LocalWorkKept'
<1> DEFINE Move == /\ tree'.head \in Heads' /\ tree' \in [head : Heads', rebase : Rebases]
                   /\ tree'.rebase = "stopped" => tree'.head.on < main'
                   /\ mine' \subseteq I!Has(tree'.head) \cup I!Has(tip') \cup swept'
<1>1. /\ tree \in [head : Heads, rebase : Rebases] /\ tree.head \in HeadsOf(trunk, commits)
      /\ tree.rebase = "stopped" => tree.head.on < main
      /\ mine \subseteq I!Has(tree.head) \cup I!Has(tip) \cup swept
  BY DEF BranchInv, TreeTypes, StoppedIsOnto, I!LocalWorkKept, Heads
<1>2. I!Has(tip) \subseteq I!Has(tip') /\ I!Has(got.pr) \subseteq I!Has(tip)
  BY PullGoesOn DEF Before, BranchInv, Reads
<1>3. /\ Heads \subseteq Heads' /\ Heads = HeadsOf(trunk, commits) /\ Heads' = HeadsOf(trunk', commits')
      /\ trunk \in Nat /\ main \in Nat /\ commits \in Nat /\ main <= main' /\ main' \in Nat
      /\ tree.head.on \in 0..trunk
  BY <1>1, CountsKept DEF Heads
<1>4. ASSUME UNCHANGED <<tree, mine, swept>> PROVE Move  BY <1>1, <1>2, <1>3, <1>4
<1>5. ASSUME I!Decide PROVE Move
  <2>1. /\ tree' \in [head : Heads, rebase : Rebases] /\ (tree'.rebase = "stopped" => tree' = tree)
        /\ I!Has(tree.head) \subseteq I!Has(tree'.head)
    BY <1>5, DecidesIs
  <2>2. mine' = mine /\ swept' = swept  BY <1>5 DEF I!Decide, I!history
  <2> QED  BY <1>1, <1>2, <1>3, <2>1, <2>2
<1>6. ASSUME I!Follow PROVE Move
  <2>1. /\ mine' = mine /\ swept' = swept /\ tree.head = got.pr
        /\ (tree' = tree \/ (tree.rebase = "none" /\ tree' = [tree EXCEPT !.head = got.after]))
    BY <1>6 DEF I!Follow, I!history, I!ResetBranch, BranchInv, Decided
  <2>2. got.after \in Heads  BY DEF BranchInv, GotTypes, Gots, Heads
  <2>3. CASE tree' = [tree EXCEPT !.head = got.after] /\ tree.rebase = "none"
    <3>1. tree' = [head |-> got.after, rebase |-> "none"]  BY <1>1, <2>3
    <3> QED  BY <1>1, <1>2, <1>3, <2>1, <2>2, <3>1 DEF Rebases
  <2> QED  BY <1>4, <2>1, <2>3
<1>7. ASSUME I!GeboRebases PROVE Move
  <2>1. mine' = mine /\ swept' = swept /\ trunk' = trunk /\ commits' = commits /\ tip' = tip
    BY <1>7 DEF I!GeboRebases, I!history, I!github
  <2>2. \A b \in 0..trunk : I!Rebased(tree.head, b, "gebo") \in Heads
                            /\ I!Has(I!Rebased(tree.head, b, "gebo")) = I!Has(tree.head)
    <3> TAKE b \in 0..trunk
    <3>1. trunk \in Nat /\ commits \in Nat /\ tree.head \in HeadsOf(trunk, commits) /\ Heads = HeadsOf(trunk, commits)
      BY <1>1, <1>3
    <3>2. /\ I!Rebased(tree.head, b, "gebo") \in HeadsOf(trunk, commits)
          /\ I!Has(I!Rebased(tree.head, b, "gebo")) = I!Has(tree.head)
      BY <3>1, RebasedIs
    <3> QED  BY <3>1, <3>2
  <2>3. main \in 0..trunk /\ trunk \in 0..trunk  BY <1>3 DEF BranchInv, CountTypes
  <2>4. \/ tree' = [tree EXCEPT !.rebase = "stopped"] /\ tree.head.on < trunk /\ main' = trunk
        \/ tree' = [tree EXCEPT !.head = I!Rebased(tree.head, trunk, "gebo")] /\ tree.rebase = "none"
        \/ tree' = [tree EXCEPT !.rebase = "none"]
        \/ tree' = [head |-> I!Rebased(tree.head, main, "gebo"), rebase |-> "none"]
    BY <1>7 DEF I!GeboRebases
  <2>5. CASE tree' = [tree EXCEPT !.rebase = "stopped"] /\ tree.head.on < trunk /\ main' = trunk
    <3>1. tree' = [head |-> tree.head, rebase |-> "stopped"]  BY <1>1, <2>5
    <3> QED  BY <1>1, <1>2, <1>3, <2>1, <2>5, <3>1 DEF Rebases
  <2>6. CASE tree' = [tree EXCEPT !.head = I!Rebased(tree.head, trunk, "gebo")] /\ tree.rebase = "none"
    <3> DEFINE new == I!Rebased(tree.head, trunk, "gebo")
    <3>1. tree' = [head |-> new, rebase |-> "none"]  BY <1>1, <2>6
    <3>2. new \in Heads /\ I!Has(new) = I!Has(tree.head)  BY <2>2, <2>3
    <3> HIDE DEF new
    <3> QED  BY <1>1, <1>2, <1>3, <2>1, <3>1, <3>2 DEF Rebases
  <2>7. CASE tree' = [tree EXCEPT !.rebase = "none"]
    <3>1. tree' = [head |-> tree.head, rebase |-> "none"]  BY <1>1, <2>7
    <3> QED  BY <1>1, <1>2, <1>3, <2>1, <3>1 DEF Rebases
  <2>8. CASE tree' = [head |-> I!Rebased(tree.head, main, "gebo"), rebase |-> "none"]
    <3> DEFINE new == I!Rebased(tree.head, main, "gebo")
    <3>1. tree' = [head |-> new, rebase |-> "none"]  BY <2>8
    <3>2. new \in Heads /\ I!Has(new) = I!Has(tree.head)  BY <2>2, <2>3
    <3> HIDE DEF new
    <3> QED  BY <1>1, <1>2, <1>3, <2>1, <3>1, <3>2 DEF Rebases
  <2> QED  BY <2>4, <2>5, <2>6, <2>7, <2>8
<1>8. ASSUME I!GeboCommits \/ I!Commit PROVE Move
  <2> DEFINE new == I!CommitOn(tree.head)
  <2>1. /\ tree.rebase = "none" /\ tree' = [tree EXCEPT !.head = new] /\ commits' = commits + 1 /\ trunk' = trunk
        /\ mine' \subseteq mine \cup {commits + 1} /\ swept' = swept
    BY <1>8 DEF I!GeboCommits, I!Commit, I!github, I!CommitOn
  <2>2. new \in HeadsOf(trunk, commits + 1) /\ I!Has(new) = I!Has(tree.head) \cup {commits + 1}
    BY <1>1, <1>3, CommitIs
  <2> HIDE DEF new
  <2>3. tree' = [head |-> new, rebase |-> "none"]  BY <1>1, <2>1
  <2>4. new \in Heads'  BY <2>1, <2>2 DEF Heads
  <2> QED  BY <1>1, <1>2, <2>1, <2>2, <2>3, <2>4 DEF Rebases
<1>9. ASSUME I!GeboEnds PROVE Move
  <2>1. mine' = mine /\ swept' = swept /\ (tree' = tree \/ \E r \in {"none", "stuck"} : tree' = [tree EXCEPT !.rebase = r])
    BY <1>9 DEF I!GeboEnds, I!history
  <2>2. ASSUME NEW r \in {"none", "stuck"}, tree' = [tree EXCEPT !.rebase = r] PROVE Move
    <3>1. tree' = [head |-> tree.head, rebase |-> r] /\ r \in Rebases /\ r # "stopped"  BY <1>1, <2>2 DEF Rebases
    <3> QED  BY <1>1, <1>2, <1>3, <2>1, <3>1
  <2> QED  BY <1>4, <2>1, <2>2
<1>10. ASSUME I!Judge PROVE Move
  <2>1. /\ mine' = mine /\ at = "judges"
        /\ (tree' = tree \/ (tree.rebase = "none" /\ tree' = [tree EXCEPT !.head = got.after]))
        /\ swept' = IF got.completing THEN swept \cup (I!Has(tree.head) \ I!Has(tree'.head)) ELSE swept
    BY <1>10 DEF I!Judge, I!ResetBranch
  <2>2. got.after \in Heads /\ got.completing \in BOOLEAN  BY DEF BranchInv, GotTypes, Gots, Heads
  <2>3. tree' \in [head : Heads, rebase : Rebases] /\ (tree'.rebase = "stopped" => tree' = tree)
    <3>1. CASE tree' = [tree EXCEPT !.head = got.after] /\ tree.rebase = "none"
      <4>1. tree' = [head |-> got.after, rebase |-> "none"]  BY <1>1, <3>1
      <4> QED  BY <2>2, <4>1 DEF Rebases
    <3> QED  BY <1>1, <2>1, <3>1
  <2>4. mine \subseteq I!Has(tree'.head) \cup I!Has(tip) \cup swept'
    <3>1. CASE got.completing
      <4>1. swept' = swept \cup (I!Has(tree.head) \ I!Has(tree'.head))  BY <2>1, <3>1
      <4> QED  BY <1>1, <4>1
    <3>2. CASE ~got.completing
      <4>1. mine \cap I!Has(tree.head) \subseteq I!Has(got.pr)  BY <2>1, <3>2 DEF BranchInv, OnlyReadWork
      <4>2. swept' = swept  BY <2>1, <3>2
      <4> QED  BY <1>1, <1>2, <4>1, <4>2
    <3> QED  BY <3>1, <3>2
  <2> QED  BY <1>1, <1>2, <1>3, <2>1, <2>3, <2>4
<1>11. Move
  BY <1>4, <1>5, <1>6, <1>7, <1>8, <1>9, <1>10 DEF I!Next, I!Press, I!Read, I!Leaves, I!UpdateBranch, I!AfterRefused,
    I!Poll, I!Opens, I!GeboPushes, I!Suspended, I!Resumed, I!NotResumed, I!GoesDown, I!Start, I!GitHubRebases,
    I!Elsewhere, I!Push, I!history
<1> QED  BY <1>11 DEF TreeTypes, StoppedIsOnto, I!LocalWorkKept

\* Whatever the press goes on to, what it read and decided stays true of the tree and the pull request.
LEMMA PressGoesOn ==
  ASSUME BranchInv, I!Next
  PROVE  GotTypes' /\ AtTypes' /\ Clear' /\ Reads' /\ Decided' /\ OnlyReadWork'
<1> DEFINE Was == /\ got' \in Gots(trunk', commits') /\ Before(got'.pr, tip')
                  /\ at' \in Ats /\ Clear' /\ Decided' /\ OnlyReadWork'
                  /\ at' \in {"follows", "judges"} => Before(got'.pr, got'.after) /\ Before(got'.after, tip')
<1>1. /\ got \in Gots(trunk, commits) /\ got.pr \in HeadsOf(trunk, commits) /\ got.after \in HeadsOf(trunk, commits)
      /\ tip \in HeadsOf(trunk, commits) /\ tree.head \in HeadsOf(trunk, commits) /\ at \in Ats
      /\ Before(got.pr, tip) /\ Before(tip, tip')
  BY PullGoesOn DEF BranchInv, GotTypes, PullTypes, TreeTypes, AtTypes, Reads, Gots, Heads
<1>2. /\ trunk \in Nat /\ commits \in Nat /\ trunk' \in Nat /\ commits' \in Nat
      /\ Gots(trunk, commits) \subseteq Gots(trunk', commits')
  BY CountsKept
<1>3. /\ got.pr.on \in Nat /\ got.after.on \in Nat /\ tip.on \in Nat /\ tree.head.on \in Nat /\ tip'.on \in Nat
      /\ tip' \in HeadsOf(trunk', commits') /\ tree'.head.on \in Nat
  <2>1. tip' \in HeadsOf(trunk', commits') /\ tree'.head \in HeadsOf(trunk', commits')
    BY PullGoesOn, TreeStays DEF PullTypes, TreeTypes, Heads
  <2>2. tip'.on \in 0..trunk' /\ tree'.head.on \in 0..trunk'  BY <2>1 DEF HeadsOf
  <2>3. {got.pr.on, got.after.on, tip.on, tree.head.on} \subseteq 0..trunk  BY <1>1 DEF HeadsOf
  <2> QED  BY <2>1, <2>2, <2>3
<1>4. Before(got.pr, tip')  BY <1>1, <1>3 DEF Before
<1>5. /\ I!NoGot \in Gots(trunk', commits') /\ Before(I!NoGot.pr, tip') /\ I!NoGot.pr = I!None /\ ~I!NoGot.completing
  BY <1>2, <1>3, NoneIs DEF Before
<1>6. ASSUME got' \in {got, I!NoGot}, at' \in {"idle", "reads", "down"} PROVE Was
  <2>1. got' \in Gots(trunk', commits') /\ Before(got'.pr, tip')  BY <1>1, <1>2, <1>4, <1>5, <1>6
  <2> QED  BY <1>6, <2>1 DEF Ats, Clear, Decided, OnlyReadWork
<1>7. ASSUME UNCHANGED <<got, at, tree, mine>> PROVE Was
  <2>1. Clear /\ Decided /\ OnlyReadWork  BY DEF BranchInv
  <2>2. Clear' /\ Decided' /\ OnlyReadWork'  BY <1>7, <2>1 DEF Clear, Decided, OnlyReadWork
  <2>3. at \in {"follows", "judges"} => Before(got.pr, got.after) /\ Before(got.after, tip)
    BY DEF BranchInv, Reads
  <2>4. Before(got.after, tip) => Before(got.after, tip')  BY <1>1, <1>3 DEF Before
  <2> QED  BY <1>1, <1>2, <1>4, <1>7, <2>2, <2>3, <2>4
<1>8. ASSUME UNCHANGED <<got, tree, mine>>, at \in {"opens", "gebo", "suspended"}, at' \in {"gebo", "suspended"} PROVE Was
  <2>1. Decided' /\ OnlyReadWork'  BY <1>8 DEF BranchInv, Decided, OnlyReadWork
  <2> QED  BY <1>1, <1>2, <1>4, <1>8, <2>1 DEF Ats, Clear
<1>9. ASSUME I!Read PROVE Was
  <2>1. at' = "decides" /\ tip' = tip /\ trunk' = trunk /\ commits' = commits /\ main' = main
    BY <1>9 DEF I!Read, I!github, I!history
  <2>2. I!NoGot \in Gots(trunk, commits) /\ main \in 0..trunk /\ tip \in HeadsOf(trunk, commits)
    BY <1>1, <1>2, NoneIs DEF BranchInv, CountTypes
  <2>3. I!Classes \subseteq {"unknown", "behind", "current", "conflicting", "red"}  BY DEF I!Classes
  <2>4. CASE got' = [I!NoGot EXCEPT !.origin = main]
    <3>1. got' \in Gots(trunk, commits) /\ got'.pr = I!NoGot.pr /\ got'.completing = I!NoGot.completing
      BY <2>2, <2>4 DEF Gots
    <3> QED  BY <1>2, <1>5, <2>1, <3>1 DEF Ats, Clear, Decided, OnlyReadWork
  <2>5. ASSUME NEW s \in I!Classes, got' = [I!NoGot EXCEPT !.pr = tip, !.origin = main, !.state = s] PROVE Was
    <3>1. got' \in Gots(trunk, commits) /\ got'.pr = tip /\ got'.completing = I!NoGot.completing
      BY <2>2, <2>3, <2>5 DEF Gots
    <3> QED  BY <1>1, <1>2, <1>5, <2>1, <3>1 DEF Ats, Clear, Decided, OnlyReadWork
  <2> QED  BY <1>9, <2>4, <2>5 DEF I!Read
<1>10. ASSUME I!Decide PROVE Was
  <2>1. \/ at' = "idle" /\ got' = I!NoGot
        \/ /\ at' \in {"opens", "updates"} /\ tree'.rebase = "none"
           /\ got' \in Gots(trunk, commits) /\ got'.pr = got.pr
           /\ ~got'.completing => tree'.head = got.pr
           /\ got'.completing => at' = "opens" /\ got.pr.on <= tree'.head.on
    BY <1>10, DecidesIs
  <2>2. CASE at' = "idle" /\ got' = I!NoGot  BY <1>6, <2>2
  <2>3. CASE at' \in {"opens", "updates"}
    <3>1. /\ tree'.rebase = "none" /\ got' \in Gots(trunk, commits) /\ got'.pr = got.pr
          /\ ~got'.completing => tree'.head = got.pr
          /\ got'.completing => at' = "opens" /\ got.pr.on <= tree'.head.on
      BY <2>1, <2>3
    <3>2. Clear' /\ Decided' /\ OnlyReadWork'  BY <1>3, <2>3, <3>1 DEF Clear, Decided, OnlyReadWork
    <3> QED  BY <1>2, <1>4, <2>3, <3>1, <3>2 DEF Ats
  <2> QED  BY <2>1, <2>2, <2>3
<1>11. ASSUME I!UpdateBranch, got' = got, at' \in {"polls", "refused"} PROVE Was
  <2>1. tree' = tree /\ at = "updates"  BY <1>11 DEF I!UpdateBranch
  <2>2. Clear' /\ Decided' /\ OnlyReadWork'  BY <1>11, <2>1 DEF BranchInv, Clear, Decided, OnlyReadWork
  <2> QED  BY <1>1, <1>2, <1>4, <1>11, <2>2 DEF Ats
<1>12. ASSUME I!AfterRefused \/ I!Poll, I!Moved PROVE Was
  <2>1. /\ tree' = tree /\ at \in {"polls", "refused"} /\ at' = "follows" /\ got' = [got EXCEPT !.after = tip]
        /\ tip' = tip
    BY <1>12 DEF I!AfterRefused, I!Poll, I!Moved, I!github
  <2>2. got' \in Gots(trunk, commits) /\ got'.pr = got.pr /\ got'.after = tip  BY <1>1, <2>1 DEF Gots
  <2>3. Clear' /\ Decided' /\ OnlyReadWork'  BY <2>1, <2>2 DEF BranchInv, Clear, Decided, OnlyReadWork
  <2> QED  BY <1>1, <1>2, <1>4, <2>1, <2>2, <2>3 DEF Ats
<1>13. ASSUME I!AfterRefused, at' = "opens", got' = got PROVE Was
  <2>1. tree' = tree /\ at = "refused"  BY <1>13 DEF I!AfterRefused
  <2>2. tree.head = got.pr /\ ~got.completing /\ tree.rebase = "none"  BY <2>1 DEF BranchInv, Decided, Clear
  <2>3. Clear' /\ Decided' /\ OnlyReadWork'  BY <1>3, <1>13, <2>1, <2>2 DEF Clear, Decided, OnlyReadWork
  <2> QED  BY <1>1, <1>2, <1>4, <1>13, <2>3 DEF Ats
<1>14. ASSUME I!GeboRebases \/ I!GeboCommits PROVE Was
  <2>1. got' = got /\ at' = at /\ at = "gebo" /\ mine' = mine
    BY <1>14 DEF I!GeboRebases, I!GeboCommits, I!history
  <2>2. /\ got.pr.on <= tree.head.on
        /\ ~got.completing => I!Has(got.pr) \subseteq I!Has(tree.head) /\ mine \cap I!Has(tree.head) \subseteq I!Has(got.pr)
    BY <2>1 DEF BranchInv, Decided, OnlyReadWork
  <2>3. tree.head.on <= tree'.head.on /\ I!Has(tree.head) \subseteq I!Has(tree'.head)
        /\ mine \cap I!Has(tree'.head) \subseteq I!Has(tree.head)
    <3>1. CASE I!GeboRebases
      <4>1. \A b \in 0..trunk : I!Rebased(tree.head, b, "gebo").on = b
                                /\ I!Has(I!Rebased(tree.head, b, "gebo")) = I!Has(tree.head)
        <5>1. trunk \in Nat /\ commits \in Nat /\ tree.head \in HeadsOf(trunk, commits)  BY <1>1, <1>2
        <5> QED  BY <5>1, RebasedIs
      <4>2. main \in 0..trunk /\ trunk \in 0..trunk  BY <1>2 DEF BranchInv, CountTypes
      <4>3. (tree.rebase = "stopped" => tree.head.on < main) /\ tree \in [head : Heads, rebase : Rebases]
        BY DEF BranchInv, StoppedIsOnto, TreeTypes
      <4>4. \/ tree'.head = tree.head
            \/ tree'.head = I!Rebased(tree.head, trunk, "gebo") /\ tree.head.on < trunk
            \/ tree'.head = I!Rebased(tree.head, main, "gebo") /\ tree.head.on < main
        <5>1. \/ tree' \in {[tree EXCEPT !.rebase = "stopped"], [tree EXCEPT !.rebase = "none"]}
              \/ tree' = [tree EXCEPT !.head = I!Rebased(tree.head, trunk, "gebo")] /\ tree.head.on < trunk
              \/ tree' = [head |-> I!Rebased(tree.head, main, "gebo"), rebase |-> "none"] /\ tree.rebase = "stopped"
          BY <3>1 DEF I!GeboRebases
        <5> QED  BY <4>3, <5>1
      <4>5. CASE tree'.head = tree.head  BY <1>3, <4>5
      <4>6. CASE tree'.head = I!Rebased(tree.head, trunk, "gebo") /\ tree.head.on < trunk
        <5>1. tree'.head.on = trunk /\ I!Has(tree'.head) = I!Has(tree.head)  BY <4>1, <4>2, <4>6
        <5> QED  BY <1>2, <1>3, <4>6, <5>1
      <4>7. CASE tree'.head = I!Rebased(tree.head, main, "gebo") /\ tree.head.on < main
        <5>1. tree'.head.on = main /\ I!Has(tree'.head) = I!Has(tree.head)  BY <4>1, <4>2, <4>7
        <5> QED  BY <1>3, <4>2, <4>7, <5>1
      <4> QED  BY <4>4, <4>5, <4>6, <4>7
    <3>2. CASE I!GeboCommits
      <4> DEFINE new == I!CommitOn(tree.head)
      <4>1. tree' = [tree EXCEPT !.head = new]  BY <3>2 DEF I!GeboCommits, I!CommitOn
      <4>2. new.on = tree.head.on /\ I!Has(new) = I!Has(tree.head) \cup {commits + 1}  BY <1>1, <1>2, CommitIs
      <4>3. mine \subseteq 1..commits /\ tree \in [head : Heads, rebase : Rebases]
        BY DEF BranchInv, CountTypes, TreeTypes
      <4>4. commits + 1 \notin mine  BY <1>2, <4>3
      <4> HIDE DEF new
      <4>5. tree'.head = new  BY <4>1, <4>3
      <4> QED  BY <1>3, <4>2, <4>4, <4>5
    <3> QED  BY <1>14, <3>1, <3>2
  <2>4. Clear' /\ Decided' /\ OnlyReadWork'
    BY <1>3, <2>1, <2>2, <2>3 DEF Clear, Decided, OnlyReadWork
  <2> QED  BY <1>1, <1>2, <1>4, <2>1, <2>4
<1>15. ASSUME I!GeboEnds PROVE Was
  <2>1. /\ at = "gebo" /\ at' = "judges" /\ tip' = tip /\ mine' = mine
        /\ got' = [got EXCEPT !.after = tip] \/ got' = [got EXCEPT !.after = got.pr]
    BY <1>15 DEF I!GeboEnds, I!github, I!history
  <2>2. /\ got' \in Gots(trunk, commits) /\ got'.pr = got.pr /\ got'.completing = got.completing
        /\ got'.after \in {tip, got.pr}
    BY <1>1, <2>1 DEF Gots
  <2>3. tree'.head = tree.head
    <3>1. tree \in [head : Heads, rebase : Rebases]  BY DEF BranchInv, TreeTypes
    <3> QED  BY <1>15, <3>1 DEF I!GeboEnds
  <2>4. Before(got.pr, got'.after) /\ Before(got'.after, tip)  BY <1>1, <1>3, <2>2 DEF Before
  <2>5. OnlyReadWork'  BY <2>1, <2>2, <2>3 DEF BranchInv, OnlyReadWork
  <2> QED  BY <1>2, <1>4, <2>1, <2>2, <2>4, <2>5 DEF Ats, Clear, Decided
<1>16. ASSUME I!Follow \/ I!Judge \/ I!Commit \/ I!Press \/ I!Leaves \/ I!NotResumed \/ I!GoesDown \/ I!Start PROVE Was
  BY <1>6, <1>16 DEF I!Follow, I!Judge, I!Commit, I!Press, I!Leaves, I!NotResumed, I!GoesDown, I!Start, I!Record
<1>17. ASSUME I!UpdateBranch \/ I!AfterRefused \/ I!Poll PROVE Was
  BY <1>6, <1>11, <1>12, <1>13, <1>17 DEF I!UpdateBranch, I!AfterRefused, I!Poll, I!Record
<1>18. ASSUME I!Opens \/ I!Suspended \/ I!Resumed PROVE Was
  BY <1>8, <1>18 DEF I!Opens, I!Suspended, I!Resumed, I!history
<1>19. ASSUME I!GeboPushes \/ I!GitHubRebases \/ I!Elsewhere \/ I!Push PROVE Was
  BY <1>7, <1>19 DEF I!GeboPushes, I!GitHubRebases, I!Elsewhere, I!Push, I!history
<1>20. opened' \in BOOLEAN
  <2>1. opened \in BOOLEAN  BY DEF BranchInv, AtTypes
  <2> QED
    BY <2>1 DEF I!Next, I!Press, I!Read, I!Leaves, I!Decide, I!UpdateBranch, I!AfterRefused, I!Poll, I!Follow,
      I!Opens,
      I!GeboRebases, I!GeboCommits, I!GeboPushes, I!GeboEnds, I!Judge, I!Suspended, I!Resumed, I!NotResumed,
      I!GoesDown, I!Start, I!GitHubRebases, I!Elsewhere, I!Commit, I!Push, I!Record, I!Moved
<1>21. Was
  BY <1>9, <1>10, <1>14, <1>15, <1>16, <1>17, <1>18, <1>19 DEF I!Next
<1> QED  BY <1>20, <1>21 DEF GotTypes, AtTypes, Reads

\* The branch as the model begins with it.
LEMMA BranchInit == I!Init => BranchInv
<1> SUFFICES ASSUME I!Init PROVE BranchInv  OBVIOUS
<1> DEFINE first == [on |-> 0, work |-> <<>>, by |-> "unit"]
<1>1. /\ trunk = 0 /\ main = 0 /\ commits = 0 /\ owed = FALSE /\ tip = first /\ tree = [head |-> first, rebase |-> "none"]
      /\ opened = FALSE /\ pushed = I!None /\ at = "idle" /\ got = I!NoGot /\ mine = {} /\ swept = {}
  BY DEF I!Init
<1>2. first \in HeadsOf(0, 0)
  <2>1. I!IsInjective(<<>>)  BY DEF I!IsInjective
  <2> QED  BY <2>1 DEF HeadsOf
<1>3. 0 \in 0..MaxTrunk /\ 0 \in 0..MaxMade /\ 0 \in 0..0
  BY PartsAssumption DEF I!IntegrationsConstants
<1>4. /\ I!None \in HeadsOf(0, 0) /\ I!NoGot \in Gots(0, 0) /\ I!NoGot.pr = I!None /\ I!None.on = 0
      /\ I!Has(I!None) = {}
  BY NoneIs
<1>5. first.on = 0  OBVIOUS
<1> HIDE DEF first
<1>6. CountTypes /\ PullTypes /\ TreeTypes /\ GotTypes /\ AtTypes
  BY <1>1, <1>2, <1>3, <1>4 DEF CountTypes, PullTypes, TreeTypes, GotTypes, AtTypes, Ats, Heads, Rebases
<1>7. Clear /\ StoppedIsOnto /\ Decided /\ OnlyReadWork  BY <1>1 DEF Clear, StoppedIsOnto, Decided, OnlyReadWork
<1>8. Reads /\ I!LocalWorkKept  BY <1>1, <1>4, <1>5 DEF Reads, Before, I!LocalWorkKept
<1> QED  BY <1>6, <1>7, <1>8 DEF BranchInv

\* The branch's invariant is kept by every step.
LEMMA BranchStep == BranchInv /\ [I!Next]_I!vars => BranchInv'
<1>1. ASSUME BranchInv, I!Next PROVE BranchInv'
  <2>1. CountTypes' /\ PullTypes'  BY <1>1, CountsKept, PullGoesOn
  <2>2. TreeTypes' /\ StoppedIsOnto' /\ I!LocalWorkKept'  BY <1>1, TreeStays
  <2>3. GotTypes' /\ AtTypes' /\ Clear' /\ Reads' /\ Decided' /\ OnlyReadWork'  BY <1>1, PressGoesOn
  <2> QED  BY <2>1, <2>2, <2>3 DEF BranchInv
<1>2. ASSUME BranchInv, UNCHANGED I!vars PROVE BranchInv'
  BY <1>2 DEF I!vars, BranchInv, CountTypes, PullTypes, TreeTypes, GotTypes, AtTypes, Heads, Clear, StoppedIsOnto,
    Reads,
    Decided, OnlyReadWork, I!LocalWorkKept
<1> QED  BY <1>1, <1>2

\* Each step of a branch keeps what is on its pull request.
LEMMA PushesOn ==
  BranchInv /\ [I!Next]_I!vars => [tip'.on >= tip.on /\ I!Has(tip) \subseteq I!Has(tip')]_I!vars
<1>1. ASSUME BranchInv, I!Next PROVE tip'.on >= tip.on /\ I!Has(tip) \subseteq I!Has(tip')
  <2>1. Before(tip, tip') /\ PullTypes'  BY <1>1, PullGoesOn
  <2>2. tip.on \in 0..trunk /\ trunk \in Nat /\ trunk' \in Nat  BY <1>1, CountsKept DEF BranchInv, PullTypes
  <2>3. tip'.on \in 0..trunk'  BY <2>1 DEF PullTypes, Heads, HeadsOf
  <2> QED  BY <2>1, <2>2, <2>3 DEF Before
<1> QED  BY <1>1

\* No push takes the pull request back, whatever was rebased or pushed since the press read its head: what
\* `--force-with-lease` and the relation of the two heads are there for.
THEOREM PushesGoOn == I!Spec => I!NothingPushedBack
<1> QED  BY BranchInit, BranchStep, PushesOn, PTL DEF I!Spec, I!NothingPushedBack

\* A commit made in the tree is on the branch or the pull request, through every reset, rebase and abort of an
\* integration, but for what the end of a completion moves the tree away from.
THEOREM LocalWorkStays == I!Spec => []I!LocalWorkKept
<1>1. BranchInv => I!LocalWorkKept  BY DEF BranchInv
<1> QED  BY <1>1, BranchInit, BranchStep, PTL DEF I!Spec

\* A step of the parts is one of the branch or leaves it as it is.
LEMMA BranchInParts == [PartsNext]_partVars => [I!Next]_I!vars
<1>1. [PartsNext]_partVars => I!Next \/ UNCHANGED iVars  BY DEF PartsNext, partVars
<1>2. UNCHANGED iVars => UNCHANGED I!vars  BY DEF iVars, I!vars
<1> QED  BY <1>1, <1>2

\* NothingPushedBack of the parts side by side.
THEOREM NothingPushedBackInParts == PartsSpec => NothingPushedBack
<1>1. PartsInit => BranchInv  BY BranchInit DEF PartsInit
<1>2. BranchInv /\ [PartsNext]_partVars => BranchInv'  BY BranchInParts, BranchStep
<1>3. BranchInv /\ [PartsNext]_partVars => [tip'.on >= tip.on /\ I!Has(tip) \subseteq I!Has(tip')]_I!vars
  BY BranchInParts, PushesOn
<1> QED  BY <1>1, <1>2, <1>3, PTL DEF PartsSpec, NothingPushedBack, I!NothingPushedBack

\* LocalWorkKept of the parts side by side.
THEOREM LocalWorkKeptInParts == PartsSpec => []LocalWorkKept
<1>1. PartsInit => BranchInv  BY BranchInit DEF PartsInit
<1>2. BranchInv /\ [PartsNext]_partVars => BranchInv'  BY BranchInParts, BranchStep
<1>3. BranchInv => LocalWorkKept  BY DEF BranchInv, LocalWorkKept
<1> QED  BY <1>1, <1>2, <1>3, PTL DEF PartsSpec

-----------------------------------------------------------------------------
(* The types, part by part.                                                *)

\* The changes and the failed reads of Boards, and what was handed.
BoardBounds ==
  /\ changes <= MaxChanges /\ fails \in 0..MaxFails
  /\ \A a \in Askers : handed[a] <= changes

\* No read shows a change to come.
LEMMA BoardBoundsStay == BoardInv /\ BoardBounds /\ [B!Next]_B!vars => BoardBounds'
<1> SUFFICES ASSUME BoardInv, BoardBounds, [B!Next]_B!vars PROVE BoardBounds'
  OBVIOUS
<1> USE PartsAssumption DEF B!BoardsConstants, BoardInv, BoardTypes, NotAhead, BoardBounds
<1>1. ASSUME NEW a \in Askers, NEW anew \in BOOLEAN, B!Ask(a, anew) PROVE BoardBounds'
  BY <1>1 DEF B!Ask
<1>2. CASE B!Change
  BY <1>2 DEF B!Change
<1>3. CASE B!BeginRead
  BY <1>3 DEF B!BeginRead
<1>4. CASE B!EndRead
  BY <1>4 DEF B!EndRead
<1>5. CASE B!FailRead
  BY <1>5 DEF B!FailRead
<1>6. CASE UNCHANGED B!vars
  BY <1>6 DEF B!vars
<1> QED
  BY <1>1, <1>2, <1>3, <1>4, <1>5, <1>6 DEF B!Next

\* A board that is within the bounds has the types of Boards.
LEMMA BoardIsTyped == BoardInv /\ BoardBounds => B!TypeOK
<1> SUFFICES ASSUME BoardInv, BoardBounds PROVE B!TypeOK
  OBVIOUS
<1> USE PartsAssumption DEF B!BoardsConstants, BoardInv, BoardTypes, NotAhead, BoardBounds
<1>1. {changes, saw, board.shows, told} \subseteq 0..MaxChanges /\ {again, board.is} \subseteq BOOLEAN
  OBVIOUS
<1>2. \A a \in Askers : need[a] \in 0..MaxChanges /\ handed[a] \in 0..MaxChanges
  OBVIOUS
<1>3. handed \in [Askers -> 0..MaxChanges] /\ {need[a] : a \in Askers} \subseteq 0..MaxChanges
  BY <1>2
<1> QED
  BY <1>1, <1>3 DEF B!TypeOK

\* The starts of Autopilot, and what it counts of them.
AutoBounds ==
  /\ refused \subseteq Units /\ named \in [Units -> A!Named]
  /\ starts \in [Units -> 0..MaxStarts] /\ \A u \in Units : tries[u] <= starts[u]

\* A try is counted with its start.
LEMMA AutoBoundsStay == AutoInv /\ AutoBounds /\ [A!Next]_A!vars => AutoBounds'
<1> SUFFICES ASSUME AutoInv, AutoBounds, [A!Next]_A!vars PROVE AutoBounds'
  OBVIOUS
<1>0. MaxStarts \in Nat /\ tries \in [Units -> Nat]
  BY PartsAssumption DEF A!AutopilotConstants, AutoInv, StepTypes
<1> USE <1>0 DEF AutoBounds
<1>1. ASSUME UNCHANGED <<named, starts, tries>>, refused' \subseteq refused \cup Units PROVE AutoBounds'
  BY <1>1
<1>2. CASE A!TakeWake \/ (\E by \in {"wake", "poll"} : A!BeginPass(by)) \/ A!TurnOff \/ A!TurnOn
           \/ A!ReadLog \/ A!FailPass \/ A!ReadRunning \/ A!Choose \/ (\E c \in chosen : A!RecordPick(c))
  BY <1>1, <1>2 DEF A!TakeWake, A!BeginPass, A!TurnOff, A!TurnOn, A!ReadLog, A!FailPass, A!ReadRunning, A!Choose,
    A!RecordPick, A!work
<1>3. CASE A!Queue
  BY <1>1, <1>3 DEF A!Queue
<1>4. ASSUME NEW u \in Units, A!Click(u) \/ A!Refuse(u) PROVE AutoBounds'
  BY <1>1, <1>4 DEF A!Click, A!Refuse
<1>5. ASSUME NEW u \in Units, A!Start(u) PROVE AutoBounds'
  BY <1>5 DEF A!Start
<1>6. ASSUME NEW u \in Units, A!End(u) \/ A!LoopMoves(u) PROVE AutoBounds'
  <2>1. PICK to \in A!Named, t \in {0, tries[u]} :
          named' = [named EXCEPT ![u] = to] /\ tries' = [tries EXCEPT ![u] = t] /\ UNCHANGED <<refused, starts>>
    BY <1>6 DEF A!End, A!LoopMoves
  <2> QED
    BY <2>1
<1>7. CASE UNCHANGED A!vars
  BY <1>1, <1>7 DEF A!vars, A!work
<1> QED
  BY <1>2, <1>3, <1>4, <1>5, <1>6, <1>7 DEF A!Next

\* An autopilot within the bounds has the types of Autopilot.
LEMMA AutoIsTyped == AutoInv /\ AutoBounds => A!TypeOK
<1> SUFFICES ASSUME AutoInv, AutoBounds PROVE A!TypeOK
  OBVIOUS
<1>1. {on, wake, unread} \subseteq BOOLEAN /\ {asked, taken} \subseteq Nat
  BY DEF AutoInv, WakeFlags, WakeCounts
<1>2. /\ pass.at \in {"none", "begins", "log", "running", "picks", "picked"} /\ pass.by \in {"none", "wake", "poll"}
      /\ here \subseteq Units /\ chosen \subseteq [unit : Units, note : BOOLEAN]
  BY DEF AutoInv, PassTypes, Passes
<1>3. /\ step \in [Units -> [at : {"idle", "queued", "runs"}, by : {"none", "autopilot", "person"}]]
      /\ last \in [Units -> {"none", "done", "failed"}] /\ noted \subseteq Units /\ tries \in [Units -> Nat]
  BY DEF AutoInv, StepTypes
<1>4. \A u \in Units : starts[u] \in 0..MaxStarts /\ tries[u] \in 0..MaxStarts
  BY <1>3, PartsAssumption DEF AutoBounds, A!AutopilotConstants
<1>5. refused \subseteq Units /\ named \in [Units -> A!Named]
  BY DEF AutoBounds
<1> QED
  BY <1>1, <1>2, <1>3, <1>4, <1>5 DEF A!TypeOK

\* The branch's invariant has the types of Integrations.
LEMMA BranchIsTyped == BranchInv => I!TypeOK
<1> SUFFICES ASSUME BranchInv PROVE I!TypeOK
  OBVIOUS
<1>1. CountTypes /\ PullTypes /\ TreeTypes /\ GotTypes /\ AtTypes /\ Clear
  BY DEF BranchInv
<1>2. tip \in Heads /\ pushed \in Heads /\ owed \in BOOLEAN
  BY <1>1 DEF PullTypes
<1>3. tree.head \in Heads
  BY <1>1 DEF TreeTypes
<1>4. /\ got.pr \in Heads /\ got.local \in Heads /\ got.after \in Heads
      /\ got.origin \in 0..trunk /\ got.completing \in BOOLEAN
  BY <1>1 DEF GotTypes, Gots, Heads
<1>5. \A h \in Heads : h.on \in 0..trunk /\ I!Has(h) \subseteq 1..commits /\ I!IsInjective(h.work)
  BY HasIsMade DEF Heads, HeadsOf
<1>6. \A h \in {tip, tree.head, pushed, got.pr, got.local, got.after} : h \in Heads
  BY <1>2, <1>3, <1>4
<1>7. opened \in BOOLEAN
  BY <1>1 DEF AtTypes
<1>8. /\ trunk \in 0..MaxTrunk /\ main \in 0..trunk /\ commits \in 0..MaxMade
      /\ mine \subseteq 1..commits /\ swept \subseteq 1..commits
  BY <1>1 DEF CountTypes
<1> QED
  BY <1>1, <1>2, <1>4, <1>5, <1>6, <1>7, <1>8 DEF I!TypeOK, Clear

\* The invariants of the parts that this module is about, where each is at work.
PartsBounded ==
  /\ part = "fetches" => Inv /\ Bounds
  /\ part = "boards" => BoardInv /\ BoardBounds
  /\ part = "autopilot" => AutoInv /\ AutoBounds
  /\ BranchInv

\* They hold at first, and a part that is not at work does not move.
LEMMA PartsStayBounded == PartsSpec => []PartsBounded
<1>1. PartsInit => PartsBounded
  <2>1. B!Init => BoardBounds
    BY PartsAssumption DEF B!Init, BoardBounds, B!BoardsConstants
  <2>2. A!Init => AutoBounds
    BY PartsAssumption DEF A!Init, AutoBounds, A!AutopilotConstants
  <2> QED
    BY <2>1, <2>2, InitInv, TypesKept, BoardInit, AutoInit, BranchInit DEF PartsInit, PartsBounded
<1>2. PartsBounded /\ [PartsNext]_partVars => PartsBounded'
  <2> SUFFICES ASSUME PartsBounded, [PartsNext]_partVars PROVE PartsBounded'
    OBVIOUS
  <2>1. part' = part
    BY DEF PartsNext, partVars
  <2>2. ASSUME part = "fetches" PROVE Inv' /\ Bounds'
    <3>1. [Next]_vars
      BY <2>2 DEF PartsNext, partVars
    <3> QED
      BY <2>2, <3>1, NextInv, BoundsStay DEF PartsBounded
  <2>3. ASSUME part = "boards" PROVE BoardInv' /\ BoardBounds'
    <3>1. B!Next \/ UNCHANGED bVars
      BY <2>3 DEF PartsNext, partVars
    <3>2. [B!Next]_B!vars
      BY <3>1 DEF bVars, B!vars
    <3> QED
      BY <2>3, <3>2, BoardStep, BoardBoundsStay DEF PartsBounded
  <2>4. ASSUME part = "autopilot" PROVE AutoInv' /\ AutoBounds'
    <3>1. A!Next \/ UNCHANGED aVars
      BY <2>4 DEF PartsNext, partVars
    <3>2. [A!Next]_A!vars
      BY <3>1 DEF aVars, A!vars, A!wakes, A!passing, A!work
    <3> QED
      BY <2>4, <3>2, AutoStep, AutoBoundsStay DEF PartsBounded
  <2>5. BranchInv'
    BY BranchInParts, BranchStep DEF PartsBounded
  <2> QED
    BY <2>1, <2>2, <2>3, <2>4, <2>5 DEF PartsBounded
<1> QED
  BY <1>1, <1>2, PTL DEF PartsSpec

\* PartsTypeOK: every part keeps the types of its module, for any values of its constants and bounds.
THEOREM PartsAreTyped == PartsSpec => []PartsTypeOK
<1> DEFINE LoopTyped == part = "loop" => L!TypeOK
           TriggersTyped == part \in {"triggers", "leif"} => T!TypeOK
           OnePart == part \in {"loop", "autopilot", "triggers", "leif", "fetches", "boards", "wheels", "integration"}
<1>1. PartsInit => OnePart
  BY DEF PartsInit
<1>2. OnePart /\ [PartsNext]_partVars => OnePart'
  BY DEF PartsNext, partVars
<1>3. PartsBounded => /\ part = "fetches" => TypeOK
                      /\ part = "boards" => B!TypeOK
                      /\ part = "autopilot" => A!TypeOK
                      /\ I!TypeOK
  BY TypesKept, BoardIsTyped, AutoIsTyped, BranchIsTyped DEF PartsBounded
<1>4. OnePart /\ LoopTyped /\ TriggersTyped /\ W!TypeOK /\ PartsBounded => PartsTypeOK
  BY <1>3 DEF PartsTypeOK
<1>5. PartsSpec => []LoopTyped
  BY LoopIsTypedInParts
<1>6. PartsSpec => []TriggersTyped
  BY TriggersAreTypedInParts
<1> HIDE DEF LoopTyped, TriggersTyped, OnePart
<1> QED
  BY <1>1, <1>2, <1>4, <1>5, <1>6, WheelsAreTypedInParts, PartsStayBounded, PTL DEF PartsSpec
=============================================================================
