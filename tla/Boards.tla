------------------------------- MODULE Boards -------------------------------
(***************************************************************************)
(* The board read and held for one workspace (coscc/units/read.py): one    *)
(* read at a time, asked for again while it runs, and a read for every     *)
(* change told once a board is held.  What a board shows is the number of  *)
(* the changes before its read began; a turn of the event loop is one      *)
(* action.  Reads that wait on `gh` anew, and the stop, are left out.      *)
(***************************************************************************)
EXTENDS Naturals

CONSTANTS Askers,
          MaxChanges, \* bound: changes of what a board shows
          MaxFails    \* bound: reads that raise

\* What the constants are.
BoardsConstants == MaxChanges \in Nat /\ MaxFails \in Nat

VARIABLES changes, \* made so far
          read,    \* the task of the read: none, asked for, or at its read
          saw,     \* the changes before that read began
          again,   \* `_again`
          held,    \* the board held: whether there is one, and the changes it shows
          asker,   \* of each asker: away, or waiting for the read
          need,    \* ... and the changes made before it asked for a new one
          handed,  \* the changes the board shows that each was handed last
          told,    \* history: changes told while a board was held
          fails    \* history: reads that raised
vars == <<changes, read, saw, again, held, asker, need, handed, told, fails>>

\* `refresh`, for who wants a board read after the call (anew) or any read that runs now.
\* Mutant of Refresh: a read that runs is good enough.
RefreshJoined(anew) ==
  /\ read' = IF read = "none" THEN "asked" ELSE read
  /\ UNCHANGED again
Refresh(anew) ==
  /\ read' = IF read = "none" THEN "asked" ELSE read
  /\ again' = (again \/ (anew /\ read # "none"))

Ask(a, anew) ==
  /\ asker[a] = "away" /\ Refresh(anew)
  /\ asker' = [asker EXCEPT ![a] = "waits"]
  /\ need' = [need EXCEPT ![a] = IF anew THEN changes ELSE 0]
  /\ UNCHANGED <<changes, saw, held, handed, told, fails>>

\* Something a board shows changes and is told on the bus (`changed`).
Change ==
  /\ changes < MaxChanges /\ changes' = changes + 1
  /\ IF held.is THEN Refresh(TRUE) /\ told' = changes' ELSE UNCHANGED <<read, again, told>>
  /\ UNCHANGED <<saw, held, asker, need, handed, fails>>

BeginRead ==
  /\ read = "asked" /\ read' = "reads" /\ saw' = changes
  /\ UNCHANGED <<changes, again, held, asker, need, handed, told, fails>>

Away == asker' = [a \in Askers |-> "away"]

\* A read ends: its board is held, and read once more when that was asked for (`_read_held`).
EndRead ==
  /\ read = "reads" /\ held' = [is |-> TRUE, shows |-> saw] /\ again' = FALSE
  /\ IF again
     THEN saw' = changes /\ UNCHANGED <<read, asker, handed>>
     ELSE /\ read' = "none" /\ Away /\ UNCHANGED saw
          /\ handed' = [a \in Askers |-> IF asker[a] = "waits" THEN saw ELSE handed[a]]
  /\ UNCHANGED <<changes, need, told, fails>>

\* It raises, for all who wait; the read asked for again goes with it (`_read_ended`).
FailRead ==
  /\ read = "reads" /\ fails < MaxFails /\ fails' = fails + 1
  /\ read' = "none" /\ again' = FALSE /\ Away
  /\ need' = [a \in Askers |-> IF asker[a] = "waits" THEN 0 ELSE need[a]]
  /\ told' = IF held.is THEN held.shows ELSE told
  /\ UNCHANGED <<changes, saw, held, handed>>

Init ==
  /\ changes = 0 /\ read = "none" /\ saw = 0 /\ again = FALSE /\ held = [is |-> FALSE, shows |-> 0]
  /\ asker = [a \in Askers |-> "away"] /\ need = [a \in Askers |-> 0] /\ handed = [a \in Askers |-> 0]
  /\ told = 0 /\ fails = 0

Next ==
  \/ \E a \in Askers, anew \in BOOLEAN : Ask(a, anew)
  \/ Change \/ BeginRead \/ EndRead \/ FailRead

Spec == Init /\ [][Next]_vars

-----------------------------------------------------------------------------

\* The task, the board held and those who wait have the shape the reader keeps.
TypeOK ==
  /\ {changes, saw, held.shows, told} \subseteq 0..MaxChanges /\ fails \in 0..MaxFails
  /\ read \in {"none", "asked", "reads"} /\ {again, held.is} \subseteq BOOLEAN
  /\ asker \in [Askers -> {"away", "waits"}] /\ {need[a] : a \in Askers} \subseteq 0..MaxChanges
  /\ handed \in [Askers -> 0..MaxChanges]

\* Who asked for a new board is handed one that shows all that had changed when it asked; and a
\* board held longer than a change it was told of is being read again, however asks, changes and
\* reads fall together.  A read that raises takes the changes told before it along.
BoardIsCurrent ==
  /\ \A a \in Askers : asker[a] = "away" => handed[a] >= need[a]
  /\ held.shows < told => read = "asked" \/ again \/ (read = "reads" /\ saw >= told)
=============================================================================
