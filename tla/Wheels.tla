-------------------------------- MODULE Wheels -------------------------------
(***************************************************************************)
(* The wheels of an update on disk (coscc/update/__init__.py and           *)
(* updater.py): what the check, a local build and an apply write under     *)
(* `updates/`, the lock the first and the last share, what `finish`        *)
(* installs once the server stopped, and what the next start promotes.     *)
(* The process may be killed between any two renames.                      *)
(*                                                                         *)
(* The check runs in a thread; a local build's writes and every other step *)
(* are turns of the event loop.  What an apply waits for and the sessions  *)
(* it pauses are in Update.  A wheel is its public version and, of a local *)
(* build, a number for its commit: its name, its version and its sha256    *)
(* tell no more.  The latest release is any there has ever been.           *)
(***************************************************************************)
EXTENDS Naturals

CONSTANTS MaxPublic, \* bound: public versions, all of them released
          Locals     \* bound: the wheels local builds are of, each with a number of its own

WheelsConstants == MaxPublic \in Nat \ {0} /\ Locals \subseteq [public : Nat, build : Nat \ {0}]

None == [public |-> 0, build |-> 0]
Release(n) == [public |-> n, build |-> 0]
Wheel == {Release(n) : n \in 1..MaxPublic} \union Locals
Channels == {"release", "local"}

VARIABLES disk,      \* of each directory: its wheels, the wheel `SHA256SUMS` names, the manifest's
          fetch,     \* the `fetch_into` that is past its checksum
          lock,      \* `_fetch_lock`: "free", or whose
          check,     \* the check's thread
          shown,     \* the wheel each channel last said is ready
          building,  \* the local build under way
          apply,     \* where an apply, then `finish`, is
          channel, target, \* of that apply, and what it read from disk
          rebuilt,   \* history: a local build ended since Apply was pressed
          running,   \* the version of this process
          installed, \* the version `uv` installed; None where the install is broken
          boot,      \* "down", "promoting", "promoted", "up"
          lastRow,   \* `last.json`: the version applied, None when there is nothing to promote
          unsaid     \* history: versions a `finish` left installed without saying they were applied
vars == <<disk, fetch, lock, check, shown, building, apply, channel, target, rebuilt, running,
          installed, boot, lastRow, unsaid>>

files == <<disk, fetch>>
pressed == <<channel, target, rebuilt>>
process == <<running, installed, boot, lastRow, unsaid>>

Empty == [wheels |-> {}, sums |-> None, manifest |-> None]
Idle == [dir |-> "none", wheel |-> None, stage |-> "none"]

\* `verified_wheel`: the one wheel, where the manifest or else `SHA256SUMS` is of it.
Verified(dir) ==
  LET d == disk[dir] IN
  IF \E w \in Wheel : d.wheels = {w} /\ w \in {d.manifest, d.sums}
  THEN CHOOSE w \in Wheel : d.wheels = {w}
  ELSE None

Refetchable(w) == w.build = 0

CurrentMatches == Verified("current") = running

\* `rollback` finds a way back.
HasWayBack == Refetchable(running) \/ CurrentMatches

Newer(w, than) == w.public > than.public
LocalReady(w, than) == w # None /\ w.public >= than.public /\ w # than

\* A channel that downloads or builds is not ready.
Offered(c) == IF c = "release" THEN check # "downloading" ELSE building = None

-----------------------------------------------------------------------------
(* `fetch_into`, once the wheel's sha256 is the one `SHA256SUMS` names.     *)

BeginFetch(dir, w) == fetch' = [dir |-> dir, wheel |-> w, stage |-> "sums"]

\* One rename or removal, of whoever fetches.
FetchStep ==
  /\ boot = "up" /\ fetch # Idle
  /\ LET dir == fetch.dir  w == fetch.wheel IN
     \/ fetch.stage = "sums" /\ disk' = [disk EXCEPT ![dir].sums = w]
        /\ fetch' = [fetch EXCEPT !.stage = "wheel"]
     \/ fetch.stage = "wheel" /\ disk' = [disk EXCEPT ![dir].wheels = @ \union {w}]
        /\ fetch' = [fetch EXCEPT !.stage = "old"]
     \/ fetch.stage = "old" /\ disk' = [disk EXCEPT ![dir].wheels = {w}]
        /\ fetch' = [fetch EXCEPT !.stage = "manifest"]
     \/ fetch.stage = "manifest" /\ disk' = [disk EXCEPT ![dir].manifest = None]
        /\ fetch' = Idle
  /\ UNCHANGED <<lock, check, shown, building, apply, pressed, process>>

-----------------------------------------------------------------------------
(* The check: `check_once`.  Its thread lives until the process ends.       *)

\* GitHub answered, and no apply waits or runs.
CheckBegins ==
  /\ boot = "up" /\ check = "away" /\ apply = "idle" /\ check' = "tested"
  /\ UNCHANGED <<files, lock, shown, building, apply, pressed, process>>

CheckLocks ==
  /\ boot = "up" /\ check = "tested"
  /\ IF lock = "free" THEN lock' = "check" /\ check' = "current"
                      ELSE check' = "away" /\ UNCHANGED lock
  /\ UNCHANGED <<files, shown, building, apply, pressed, process>>

\* `_ensure_current`: a release keeps its own wheel; a download that fails is tried next time.
EnsureCurrent ==
  /\ boot = "up" /\ check = "current" /\ check' = "take"
  /\ \/ UNCHANGED fetch
     \/ ~CurrentMatches /\ Refetchable(running) /\ BeginFetch("current", running)
  /\ UNCHANGED <<disk, lock, shown, building, apply, pressed, process>>

Unlocks == lock' = "free" /\ check' = "away"

\* `_take`, of the release GitHub names.
Take ==
  /\ boot = "up" /\ check = "take" /\ fetch = Idle
  /\ \E n \in 1..MaxPublic :
       \/ ~Newer(Release(n), running) /\ Unlocks /\ UNCHANGED <<fetch, shown>>
       \/ Newer(Release(n), running) /\ Verified("release") = Release(n)
          /\ shown' = [shown EXCEPT !["release"] = Release(n)] /\ Unlocks /\ UNCHANGED fetch
       \/ Newer(Release(n), running) /\ Verified("release") # Release(n)
          /\ \/ check' = "downloading" /\ BeginFetch("release", Release(n)) /\ UNCHANGED <<lock, shown>>
             \/ Unlocks /\ shown' = [shown EXCEPT !["release"] = None] /\ UNCHANGED fetch \* the checksum
             \/ Unlocks /\ UNCHANGED <<fetch, shown>>                      \* the download
  /\ UNCHANGED <<disk, building, apply, pressed, process>>

TakeEnds ==
  /\ boot = "up" /\ check = "downloading" /\ fetch = Idle
  /\ shown' = [shown EXCEPT !["release"] = Verified("release")] /\ Unlocks
  /\ UNCHANGED <<files, building, apply, pressed, process>>

-----------------------------------------------------------------------------
(* A local build: it takes no lock.                                         *)

\* The window opens with the trial.
Window == apply \notin {"idle", "pending", "asked", "fetching"}

BuildBegins ==
  /\ boot = "up" /\ ~Window /\ building = None
  /\ building' \in Locals
  /\ UNCHANGED <<files, lock, check, shown, apply, pressed, process>>

\* The wheel, its manifest, then the removal of what was there, in one turn.
BuildEnds ==
  /\ boot = "up" /\ building # None /\ building' = None
  /\ disk' = [disk EXCEPT !["local"] = [@ EXCEPT !.wheels = {building}, !.manifest = building]]
  /\ shown' = [shown EXCEPT !["local"] = IF LocalReady(building, running) THEN building ELSE None]
  /\ rebuilt' = (apply # "idle")
  /\ UNCHANGED <<fetch, lock, check, apply, channel, target, process>>

BuildFails ==
  /\ boot = "up" /\ building # None /\ building' = None
  /\ shown' = [shown EXCEPT !["local"] = None]
  /\ UNCHANGED <<files, lock, check, apply, pressed, process>>

-----------------------------------------------------------------------------
(* An apply.                                                                *)

\* Pressed; "pending" while a mechanical integration or a retake runs.
Press(c) ==
  /\ boot = "up" /\ apply \in {"idle", "pending"}
  /\ shown[c] # None /\ Offered(c) /\ HasWayBack
  /\ apply' \in {"pending", "asked"} /\ channel' = c /\ rebuilt' = FALSE
  /\ UNCHANGED <<files, lock, check, shown, building, target, process>>

\* What it waited for is over (`_maybe_apply`), or somebody cancels.
WaitEnds ==
  /\ boot = "up" /\ apply = "pending" /\ apply' \in {"asked", "idle"}
  /\ UNCHANGED <<files, lock, check, shown, building, pressed, process>>

\* `_fail`, and the `finally`.
Fails == apply' = "idle" /\ lock' = "free" /\ UNCHANGED <<fetch, target>>

\* Step 1, under the lock: the target, and a wheel to go back to, fetched where it can be.
ApplyReads ==
  /\ boot = "up" /\ apply = "asked" /\ lock = "free"
  /\ \/ Fails
     \/ /\ Verified(channel) # None /\ target' = Verified(channel) /\ lock' = "apply"
        /\ \/ CurrentMatches /\ apply' = "trial" /\ UNCHANGED fetch
           \/ ~CurrentMatches /\ Refetchable(running) /\ apply' = "fetching"
              /\ BeginFetch("current", running)
  /\ UNCHANGED <<disk, check, shown, building, channel, rebuilt, process>>

\* Another download did not end in time.
ApplyGivesUp ==
  /\ boot = "up" /\ apply = "asked" /\ lock # "free" /\ apply' = "idle"
  /\ UNCHANGED <<files, lock, check, shown, building, pressed, process>>

ApplyFetched ==
  /\ boot = "up" /\ apply = "fetching" /\ fetch = Idle
  /\ IF CurrentMatches THEN apply' = "trial" /\ UNCHANGED <<lock, target, fetch>> ELSE Fails
  /\ UNCHANGED <<disk, check, shown, building, channel, rebuilt, process>>

\* Step 2: the trial installs the target beside this version, and tries it.
Trial ==
  /\ boot = "up" /\ apply = "trial"
  /\ \/ target \in disk[channel].wheels /\ apply' = "tried" /\ UNCHANGED <<lock, target, fetch>>
     \/ Fails
  /\ UNCHANGED <<disk, check, shown, building, channel, rebuilt, process>>

\* Step 3: it failed, or there is something to wait for again, or the build is cancelled and the
\* sessions are paused.
Tried ==
  /\ boot = "up" /\ apply = "tried"
  /\ \/ Fails /\ UNCHANGED <<building, shown>>
     \/ apply' = "pending" /\ lock' = "free" /\ UNCHANGED <<building, shown, target, fetch>>
     \/ apply' = "pausing" /\ building' = None /\ UNCHANGED <<lock, target, fetch>>
        /\ shown' = IF building = None THEN shown ELSE [shown EXCEPT !["local"] = None]
  /\ UNCHANGED <<disk, check, channel, rebuilt, process>>

\* Steps 4 to 7: handed to `finish`, the lock stays held.
\* Mutant of HandOff: the lock is let go of with the hand-off.
HandOffUnlocked ==
  /\ boot = "up" /\ apply = "pausing"
  /\ apply' \in {"handed", "idle"} /\ lock' = "free"
  /\ UNCHANGED <<files, check, shown, building, pressed, process>>
HandOff ==
  /\ boot = "up" /\ apply = "pausing"
  /\ apply' \in {"handed", "idle"} /\ lock' = IF apply' = "handed" THEN lock ELSE "free"
  /\ UNCHANGED <<files, check, shown, building, pressed, process>>

-----------------------------------------------------------------------------
(* `finish`, in the same process, the server gone.                          *)

\* The target is installed, or the install failed and left the old version or a broken one; one
\* that ran out of time may be whole all the same.
Install ==
  /\ boot = "up" /\ apply = "handed"
  /\ \/ target \in disk[channel].wheels /\ installed' = target /\ apply' \in {"applied", "goback"}
     \/ UNCHANGED installed /\ apply' = "failed"
     \/ installed' = None /\ apply' = "goback"
  /\ UNCHANGED <<files, lock, check, shown, building, pressed, running, boot, lastRow, unsaid>>

GoBack ==
  /\ boot = "up" /\ apply = "goback"
  /\ \/ running \in disk["current"].wheels /\ installed' = running /\ apply' = "failed"
     \/ UNCHANGED installed /\ apply' = "broken"
  /\ UNCHANGED <<files, lock, check, shown, building, pressed, running, boot, lastRow, unsaid>>

\* The process is gone, and what only it knew.
Gone ==
  /\ boot' = "down" /\ apply' = "idle" /\ lock' = "free" /\ check' = "away" /\ fetch' = Idle
  /\ shown' = [c \in Channels |-> None] /\ building' = None
  /\ channel' = "release" /\ target' = None /\ rebuilt' = FALSE

\* `last.json` is written and the process exits.
Exit ==
  /\ boot = "up" /\ apply \in {"applied", "failed", "broken"} /\ Gone
  /\ lastRow' = IF apply = "applied" THEN target ELSE None
  /\ unsaid' = IF apply = "broken" THEN unsaid \union {installed} ELSE unsaid
  /\ UNCHANGED <<disk, running, installed>>

-----------------------------------------------------------------------------
(* The process dies, and starts.                                            *)

\* In the middle of anything; a build's writes may be cut too.
Killed ==
  /\ boot # "down" /\ Gone
  /\ \/ UNCHANGED disk
     \/ /\ building # None
        /\ \E m \in {disk["local"].manifest, building} :
             disk' = [disk EXCEPT !["local"].wheels = @ \union {building}, !["local"].manifest = m]
  /\ unsaid' = IF apply \in {"applied", "goback", "broken"} THEN unsaid \union {installed} ELSE unsaid
  /\ UNCHANGED <<running, installed, lastRow>>

\* `_read_channels`: only what is newer is offered.
ReadChannels ==
  shown' = [c \in Channels |->
              IF IF c = "release" THEN Newer(Verified(c), installed)
                                  ELSE LocalReady(Verified(c), installed)
              THEN Verified(c) ELSE None]

\* The channel `_promote` takes the wheel applied from.
Applied == {c \in Channels : lastRow # None /\ Verified(c) = lastRow}

\* `_report_last`: `current/` is removed first.
\* Mutant of PromoteBegins: `last.json` is renamed before the wheel is moved.
PromoteBeginsReported ==
  /\ boot = "down" /\ installed # None /\ Applied # {} /\ boot' = "promoting"
  /\ disk' = [disk EXCEPT !["current"] = Empty] /\ running' = installed
  /\ channel' \in Applied /\ lastRow' = None
  /\ UNCHANGED <<fetch, lock, check, shown, building, apply, target, rebuilt, installed, unsaid>>
PromoteBegins ==
  /\ boot = "down" /\ installed # None /\ Applied # {} /\ boot' = "promoting"
  /\ disk' = [disk EXCEPT !["current"] = Empty] /\ running' = installed /\ channel' \in Applied
  /\ UNCHANGED <<fetch, lock, check, shown, building, apply, target, rebuilt, installed, lastRow, unsaid>>

\* ... then the channel becomes it.
Promote ==
  /\ boot = "promoting" /\ boot' = "promoted"
  /\ disk' = [disk EXCEPT !["current"] = disk[channel], ![channel] = Empty]
  /\ channel' = "release"
  /\ UNCHANGED <<fetch, lock, check, shown, building, apply, target, rebuilt, running, installed, lastRow, unsaid>>

\* `last.json` becomes `last-reported.json`, and the channels are read.
Starts ==
  /\ installed # None /\ (boot = "promoted" \/ (boot = "down" /\ Applied = {}))
  /\ boot' = "up" /\ running' = installed /\ lastRow' = None /\ ReadChannels
  /\ UNCHANGED <<files, lock, check, building, apply, pressed, installed, unsaid>>

Init ==
  /\ disk = [d \in Channels \union {"current"} |-> Empty] /\ fetch = Idle
  /\ lock = "free" /\ check = "away" /\ shown = [c \in Channels |-> None] /\ building = None
  /\ apply = "idle" /\ channel = "release" /\ target = None /\ rebuilt = FALSE
  /\ running = Release(1) /\ installed = Release(1) /\ boot = "down" /\ lastRow = None /\ unsaid = {}

Next ==
  \/ FetchStep
  \/ CheckBegins \/ CheckLocks \/ EnsureCurrent \/ Take \/ TakeEnds
  \/ BuildBegins \/ BuildEnds \/ BuildFails
  \/ \E c \in Channels : Press(c)
  \/ WaitEnds \/ ApplyReads \/ ApplyGivesUp \/ ApplyFetched \/ Trial \/ Tried \/ HandOff
  \/ Install \/ GoBack \/ Exit \/ Killed
  \/ PromoteBegins \/ Promote \/ Starts

Spec == Init /\ [][Next]_vars

-----------------------------------------------------------------------------

\* Versions are versions, a directory holds wheels, and the check holds the lock while it writes.
TypeOK ==
  /\ \A d \in DOMAIN disk : disk[d].wheels \subseteq Wheel /\ {disk[d].sums, disk[d].manifest} \subseteq Wheel \union {None}
  /\ {shown[c] : c \in Channels} \union {building, target, installed, lastRow, fetch.wheel} \subseteq Wheel \union {None}
  /\ running \in Wheel /\ unsaid \subseteq Wheel \union {None} /\ channel \in Channels /\ rebuilt \in BOOLEAN
  /\ boot \in {"down", "promoting", "promoted", "up"}
  /\ lock = "check" <=> check \in {"current", "take", "downloading"}

\* What `finish` was handed is what it finds, until it is through with it: the target and the wheel to
\* go back to are on disk, checked, though a check may have been under way since before the press;
\* and the target is newer, or a local build neither older nor the one that runs, however long its
\* wheel was there.  Excepted is a target that a local build, ended since the press, has replaced.
HandedIsSound ==
  /\ apply \in {"pausing", "handed"} /\ ~rebuilt =>
       /\ Verified(channel) = target
       /\ Newer(target, running) \/ (target.build > 0 /\ LocalReady(target, running))
  /\ apply \in {"pausing", "handed", "goback"} => Verified("current") = running

\* Wherever the process died, a local build that runs has its own wheel to go back to, which nothing
\* could fetch again; excepted is one whose `finish` was killed before it wrote `last.json`, or could
\* not go back.
WayBack == boot = "up" /\ running.build > 0 /\ running \notin unsaid => HasWayBack
=============================================================================
