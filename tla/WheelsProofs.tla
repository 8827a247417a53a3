----------------------------- MODULE WheelsProofs -----------------------------
(***************************************************************************)
(* Theorems about Wheels, for any public versions and local builds, and    *)
(* about MCParts, whose part it is.  The inductive invariant says who may  *)
(* write under `updates/` (Locks), what a channel that is offered or       *)
(* applied holds (Offers), what an apply was handed (Applies), and where   *)
(* the wheel of the installed version is, across a start that is promoting *)
(* it (Ways).                                                              *)
(***************************************************************************)
EXTENDS MCParts, TLAPS

Dirs == {"release", "local", "current"}
Some == W!Wheel \cup {W!None}
Dir == [wheels : SUBSET W!Wheel, sums : Some, manifest : Some]

\* `verified_wheel`, of a directory rather than of its name.
Checked(d) ==
  IF \E w \in W!Wheel : d.wheels = {w} /\ w \in {d.manifest, d.sums} THEN CHOOSE w \in W!Wheel : d.wheels = {w} ELSE W!None

\* What is under `updates/`: local builds in their directory, releases in theirs.
DiskTypes ==
  /\ disk \in [Dirs -> Dir]
  /\ \A w \in disk["local"].wheels : w.build > 0
  /\ \A w \in disk["release"].wheels : w.build = 0

MemoryTypes ==
  /\ shown \in [W!Channels -> Some] /\ building \in Locals \cup {W!None} /\ target \in Some /\ channel \in W!Channels
  /\ version \in W!Wheel /\ installed \in Some /\ lastRow \in Some
  /\ fetch \in [dir : {"none", "release", "current"}, wheel : Some, stage : {"none", "sums", "wheel", "old", "manifest"}]

\* A process that is not up has nothing of an update in its memory.
Down ==
  boot # "up" => /\ apply = "idle" /\ lock = "free" /\ check = "away" /\ fetch = W!Idle /\ building = W!None
                 /\ \A c \in W!Channels : shown[c] = W!None

\* An apply that read its target, up to the process's exit, has the lock.
Locking == {"fetching", "trial", "tried", "pausing", "handed", "applied", "goback", "failed", "broken"}

\* Who fetches has the lock, and only a release is fetched: the one that runs, or a newer one.
Locks ==
  /\ lock = "check" <=> check \in {"current", "take", "downloading"}
  /\ apply \in Locking => lock = "apply"
  /\ fetch # W!Idle =>
       /\ fetch.wheel \in W!Wheel /\ fetch.wheel.build = 0
       /\ \/ lock = "check" /\ check = "take" /\ fetch.dir = "current"
          \/ lock = "check" /\ check = "downloading" /\ fetch.dir = "release"
          \/ apply = "fetching" /\ fetch.dir = "current"
       /\ fetch.dir = "current" => version.build = 0
       /\ fetch.dir = "release" => W!Newer(fetch.wheel, version)
       /\ fetch.stage = "manifest" => disk[fetch.dir].wheels = {fetch.wheel}

ReleaseOK == Checked(disk["release"]) = W!None \/ W!Newer(Checked(disk["release"]), version)
LocalOK == Checked(disk["local"]) = W!None \/ W!LocalReady(Checked(disk["local"]), version)

\* A channel that is offered, or that is applied, holds what may be applied.
Offers ==
  /\ \/ shown["release"] # W!None
     \/ apply # "idle" /\ channel = "release" /\ boot = "up"
     \/ check = "downloading" /\ fetch = W!Idle
     => ReleaseOK
  /\ shown["local"] # W!None \/ (apply # "idle" /\ channel = "local" /\ ~rebuilt) => LocalOK

\* What an apply read is there, unless a local build replaced it, and so is the way back.
Applies ==
  /\ apply \in {"fetching", "trial", "tried", "pausing", "handed"} =>
       /\ target \in W!Wheel /\ (channel = "release" => target.build = 0)
       /\ ~rebuilt => Checked(disk[channel]) = target
       /\ channel = "local" /\ target \in disk["local"].wheels => Checked(disk["local"]) = target
  /\ apply \in {"trial", "tried", "pausing", "handed", "goback"} => Checked(disk["current"]) = version
  /\ apply \in {"pausing", "handed", "applied", "goback", "failed", "broken"} => building = W!None

\* The wheel of a local build that runs or is to run is in `current/`, or about to be moved there.
IsLocal(w) == w.build > 0 /\ w \notin unsaid

Ways ==
  /\ boot \in {"down", "promoting", "promoted", "up"}
  /\ boot = "up" =>
       /\ lastRow = W!None
       /\ apply \notin {"applied", "goback", "broken"} => installed = version
       /\ apply = "applied" => installed = target /\ (target.build > 0 => Checked(disk["local"]) = target)
       /\ IsLocal(version) => Checked(disk["current"]) = version
  /\ boot # "up" =>
       /\ lastRow \in {W!None, installed}
       /\ IsLocal(installed) => \/ Checked(disk["current"]) = installed
                                \/ boot # "promoted" /\ lastRow = installed /\ Checked(disk["local"]) = installed
  /\ boot = "promoting" => Checked(disk[channel]) = installed /\ installed # W!None

WheelsInv == DiskTypes /\ MemoryTypes /\ Down /\ Locks /\ Offers /\ Applies /\ Ways

-----------------------------------------------------------------------------
(* What a directory holds.                                                 *)

\* `verified_wheel` of a directory is a matter of what is in it.
LEMMA VerifiedIs == \A d : W!Verified(d) = Checked(disk[d])
BY DEF W!Verified, Checked

\* A wheel is checked where it is the only one and one of the two files names it.
LEMMA CheckedIs ==
  ASSUME NEW d \in Dir
  PROVE  /\ Checked(d) \in Some
         /\ Checked(d) # W!None => d.wheels = {Checked(d)} /\ Checked(d) \in {d.manifest, d.sums}
         /\ \A w \in W!Wheel : d.wheels = {w} /\ w \in {d.manifest, d.sums} => Checked(d) = w
<1>1. ASSUME NEW w \in W!Wheel, d.wheels = {w} PROVE (CHOOSE x \in W!Wheel : d.wheels = {x}) = w
  <2>1. \A x \in W!Wheel : d.wheels = {x} => x = w
    BY <1>1
  <2> QED
    BY <1>1, <2>1
<1>2. CASE \E w \in W!Wheel : d.wheels = {w} /\ w \in {d.manifest, d.sums}
  <2>1. PICK w \in W!Wheel : d.wheels = {w} /\ w \in {d.manifest, d.sums}
    BY <1>2
  <2>2. Checked(d) = w
    BY <1>1, <1>2, <2>1 DEF Checked
  <2> QED
    BY <2>1, <2>2 DEF Some
<1>3. CASE ~\E w \in W!Wheel : d.wheels = {w} /\ w \in {d.manifest, d.sums}
  BY <1>3 DEF Checked, Some
<1> QED
  BY <1>2, <1>3

\* No wheel is the wheel there is not.
LEMMA WheelsAre ==
  /\ \A w \in W!Wheel : w # W!None /\ w.public \in Nat /\ w.build \in Nat
  /\ \A n \in 1..MaxPublic : W!Release(n) \in W!Wheel /\ W!Release(n).build = 0 /\ W!Release(n).public = n
  /\ \A w \in Locals : w \in W!Wheel /\ w.build > 0
  /\ W!None.build = 0 /\ W!None.public = 0 /\ W!Release(1) \in W!Wheel /\ W!Release(1).build = 0
BY PartsAssumption DEF W!WheelsConstants, W!Wheel, W!Release, W!None

\* What the directories hold, as far as they are what they should be.
LEMMA DirsAre ==
  ASSUME DiskTypes
  PROVE  /\ \A dir \in Dirs : LET c == Checked(disk[dir])
                              IN /\ disk[dir] \in Dir /\ c \in Some
                                 /\ c # W!None => disk[dir].wheels = {c} /\ c \in {disk[dir].manifest, disk[dir].sums}
         /\ Checked(disk["release"]).build = 0
<1>1. \A dir \in Dirs : disk[dir] \in Dir
  BY DEF DiskTypes
<1>2. \A dir \in Dirs : LET c == Checked(disk[dir])
                        IN c \in Some /\ (c # W!None => disk[dir].wheels = {c} /\ c \in {disk[dir].manifest, disk[dir].sums})
  BY <1>1, CheckedIs
<1>3. Checked(disk["release"]).build = 0
  BY <1>2, WheelsAre DEF DiskTypes, Dirs
<1> QED
  BY <1>1, <1>2, <1>3

-----------------------------------------------------------------------------
(* The steps that leave the directories.                                   *)

\* The check: it writes with the lock only, and nothing but a release.
LEMMA CheckSteps ==
  ASSUME WheelsInv
  PROVE  /\ W!CheckBegins => WheelsInv'
         /\ W!CheckLocks => WheelsInv'
         /\ W!EnsureCurrent => WheelsInv'
         /\ W!Take => WheelsInv'
         /\ W!TakeEnds => WheelsInv'
<1> USE WheelsAre, VerifiedIs
    DEF W!files, W!pressed, W!process, W!Unlocks, W!Fails, W!BeginFetch, W!Gone, W!ReadChannels, W!Window, W!Offered,
        W!CurrentMatches, W!Refetchable, W!HasWayBack, W!Applied, W!Channels, Some, Locking, ReleaseOK, LocalOK,
        IsLocal, Dirs
<1>0. /\ \A dir \in Dirs : LET c == Checked(disk[dir])
                           IN /\ disk[dir] \in Dir /\ c \in Some
                              /\ c # W!None => disk[dir].wheels = {c} /\ c \in {disk[dir].manifest, disk[dir].sums}
      /\ Checked(disk["release"]).build = 0
  BY DirsAre DEF WheelsInv
<1>1. ASSUME W!CheckBegins PROVE WheelsInv'
  BY <1>0, <1>1 DEF WheelsInv, DiskTypes, MemoryTypes, Down, Locks, Offers, Applies, Ways, W!Idle, W!CheckBegins
<1>2. ASSUME W!CheckLocks PROVE WheelsInv'
  BY <1>0, <1>2 DEF WheelsInv, DiskTypes, MemoryTypes, Down, Locks, Offers, Applies, Ways, W!Idle, W!CheckLocks
<1>3. ASSUME W!EnsureCurrent PROVE WheelsInv'
  BY <1>0, <1>3 DEF WheelsInv, DiskTypes, MemoryTypes, Down, Locks, Offers, Applies, Ways, W!Idle, W!EnsureCurrent
<1>4. ASSUME W!Take PROVE WheelsInv'
  BY <1>0, <1>4 DEF WheelsInv, DiskTypes, MemoryTypes, Down, Locks, Offers, Applies, Ways, W!Idle, W!Take
<1>5. ASSUME W!TakeEnds PROVE WheelsInv'
  BY <1>0, <1>5 DEF WheelsInv, DiskTypes, MemoryTypes, Down, Locks, Offers, Applies, Ways, W!Idle, W!TakeEnds
<1> QED
  BY <1>1, <1>2, <1>3, <1>4, <1>5

\* A press, and an apply up to its hand-off: it goes on with what the channel holds.
LEMMA ApplySteps ==
  ASSUME WheelsInv
  PROVE  /\ W!BuildBegins => WheelsInv'
         /\ W!BuildFails => WheelsInv'
         /\ \A c \in W!Channels : W!Press(c) => WheelsInv'
         /\ W!WaitEnds => WheelsInv'
         /\ W!ApplyReads => WheelsInv'
         /\ W!ApplyGivesUp => WheelsInv'
         /\ W!ApplyFetched => WheelsInv'
         /\ W!Trial => WheelsInv'
         /\ W!Tried => WheelsInv'
         /\ W!HandOff => WheelsInv'
<1> USE WheelsAre, VerifiedIs
    DEF W!files, W!pressed, W!process, W!Unlocks, W!Fails, W!BeginFetch, W!Gone, W!ReadChannels, W!Window, W!Offered,
        W!CurrentMatches, W!Refetchable, W!HasWayBack, W!Applied, W!Channels, Some, Locking, ReleaseOK, LocalOK,
        IsLocal, Dirs
<1>0. /\ \A dir \in Dirs : LET c == Checked(disk[dir])
                           IN /\ disk[dir] \in Dir /\ c \in Some
                              /\ c # W!None => disk[dir].wheels = {c} /\ c \in {disk[dir].manifest, disk[dir].sums}
      /\ Checked(disk["release"]).build = 0
  BY DirsAre DEF WheelsInv
<1>1. ASSUME W!BuildBegins PROVE WheelsInv'
  BY <1>0, <1>1 DEF WheelsInv, DiskTypes, MemoryTypes, Down, Locks, Offers, Applies, Ways, W!Idle, W!BuildBegins
<1>2. ASSUME W!BuildFails PROVE WheelsInv'
  BY <1>0, <1>2 DEF WheelsInv, DiskTypes, MemoryTypes, Down, Locks, Offers, Applies, Ways, W!Idle, W!BuildFails
<1>3. ASSUME NEW c \in W!Channels, W!Press(c) PROVE WheelsInv'
  BY <1>0, <1>3 DEF WheelsInv, DiskTypes, MemoryTypes, Down, Locks, Offers, Applies, Ways, W!Idle, W!Press
<1>4. ASSUME W!WaitEnds PROVE WheelsInv'
  BY <1>0, <1>4 DEF WheelsInv, DiskTypes, MemoryTypes, Down, Locks, Offers, Applies, Ways, W!Idle, W!WaitEnds
<1>5. ASSUME W!ApplyReads PROVE WheelsInv'
  BY <1>0, <1>5 DEF WheelsInv, DiskTypes, MemoryTypes, Down, Locks, Offers, Applies, Ways, W!Idle, W!ApplyReads
<1>6. ASSUME W!ApplyGivesUp PROVE WheelsInv'
  BY <1>0, <1>6 DEF WheelsInv, DiskTypes, MemoryTypes, Down, Locks, Offers, Applies, Ways, W!Idle, W!ApplyGivesUp
<1>7. ASSUME W!ApplyFetched PROVE WheelsInv'
  BY <1>0, <1>7 DEF WheelsInv, DiskTypes, MemoryTypes, Down, Locks, Offers, Applies, Ways, W!Idle, W!ApplyFetched
<1>8. ASSUME W!Trial PROVE WheelsInv'
  BY <1>0, <1>8 DEF WheelsInv, DiskTypes, MemoryTypes, Down, Locks, Offers, Applies, Ways, W!Idle, W!Trial
<1>9. ASSUME W!Tried PROVE WheelsInv'
  BY <1>0, <1>9 DEF WheelsInv, DiskTypes, MemoryTypes, Down, Locks, Offers, Applies, Ways, W!Idle, W!Tried
<1>10. ASSUME W!HandOff PROVE WheelsInv'
  BY <1>0, <1>10 DEF WheelsInv, DiskTypes, MemoryTypes, Down, Locks, Offers, Applies, Ways, W!Idle, W!HandOff
<1> QED
  BY <1>1, <1>2, <1>3, <1>4, <1>5, <1>6, <1>7, <1>8, <1>9, <1>10

\* `finish`, its exit, and the start that finds nothing to promote.
LEMMA FinishSteps ==
  ASSUME WheelsInv
  PROVE  /\ W!Install => WheelsInv'
         /\ W!GoBack => WheelsInv'
         /\ W!Exit => WheelsInv'
         /\ W!Starts => WheelsInv'
<1> USE WheelsAre, VerifiedIs
    DEF W!files, W!pressed, W!process, W!Unlocks, W!Fails, W!BeginFetch, W!Gone, W!ReadChannels, W!Window, W!Offered,
        W!CurrentMatches, W!Refetchable, W!HasWayBack, W!Applied, W!Channels, Some, Locking, ReleaseOK, LocalOK,
        IsLocal, Dirs
<1>0. /\ \A dir \in Dirs : LET c == Checked(disk[dir])
                           IN /\ disk[dir] \in Dir /\ c \in Some
                              /\ c # W!None => disk[dir].wheels = {c} /\ c \in {disk[dir].manifest, disk[dir].sums}
      /\ Checked(disk["release"]).build = 0
  BY DirsAre DEF WheelsInv
<1>1. ASSUME W!Install PROVE WheelsInv'
  BY <1>0, <1>1 DEF WheelsInv, DiskTypes, MemoryTypes, Down, Locks, Offers, Applies, Ways, W!Idle, W!Install
<1>2. ASSUME W!GoBack PROVE WheelsInv'
  BY <1>0, <1>2 DEF WheelsInv, DiskTypes, MemoryTypes, Down, Locks, Offers, Applies, Ways, W!Idle, W!GoBack
<1>3. ASSUME W!Exit PROVE WheelsInv'
  BY <1>0, <1>3 DEF WheelsInv, DiskTypes, MemoryTypes, Down, Locks, Offers, Applies, Ways, W!Idle, W!Exit
<1>4. ASSUME W!Starts PROVE WheelsInv'
  BY <1>0, <1>4 DEF WheelsInv, DiskTypes, MemoryTypes, Down, Locks, Offers, Applies, Ways, W!Idle, W!Starts
<1> QED
  BY <1>1, <1>2, <1>3, <1>4

-----------------------------------------------------------------------------
(* The steps that write.                                                   *)

\* A rename of a fetch: in `current/` while the version that runs is a release, or in `release/`,
\* of a newer one.
LEMMA FetchSteps ==
  ASSUME WheelsInv, W!FetchStep
  PROVE  WheelsInv'
<1> USE WheelsAre, VerifiedIs
    DEF W!files, W!pressed, W!process, Some, Locking, ReleaseOK, LocalOK, IsLocal, Dirs, W!Channels
<1> DEFINE dir == fetch.dir  w == fetch.wheel  c == Checked(disk[dir])
<1>1. /\ dir \in {"release", "current"} /\ w \in W!Wheel /\ w.build = 0 /\ disk[dir] \in Dir
      /\ boot = "up" /\ fetch # W!Idle
      /\ c \in Some /\ (c # W!None => disk[dir].wheels = {c} /\ c \in {disk[dir].manifest, disk[dir].sums})
  BY DirsAre DEF WheelsInv, Locks, W!FetchStep
<1>2. PICK d : /\ disk' = [disk EXCEPT ![dir] = d]
               /\ \/ fetch.stage = "sums" /\ d = [disk[dir] EXCEPT !.sums = w] /\ fetch' = [fetch EXCEPT !.stage = "wheel"]
                  \/ fetch.stage = "wheel" /\ d = [disk[dir] EXCEPT !.wheels = @ \union {w}]
                      /\ fetch' = [fetch EXCEPT !.stage = "old"]
                  \/ fetch.stage = "old" /\ d = [disk[dir] EXCEPT !.wheels = {w}]
                      /\ fetch' = [fetch EXCEPT !.stage = "manifest"]
                  \/ fetch.stage = "manifest" /\ d = [disk[dir] EXCEPT !.manifest = W!None] /\ fetch' = W!Idle
  BY DEF W!FetchStep
<1>3. /\ d \in Dir /\ d.wheels \subseteq disk[dir].wheels \cup {w}
      /\ fetch'.stage = "manifest" => d.wheels = {w}
  BY <1>1, <1>2 DEF Dir, W!Idle, WheelsInv, MemoryTypes
<1>4. Checked(d) \in {W!None, w, c} /\ (fetch' = W!Idle => Checked(d) \in {W!None, w})
  <2>1. Checked(d) # W!None => d.wheels = {Checked(d)} /\ Checked(d) \in {d.manifest, d.sums} /\ Checked(d) \in W!Wheel
    BY <1>3, CheckedIs
  <2>2. \A x \in W!Wheel : disk[dir].wheels = {x} /\ x \in {disk[dir].manifest, disk[dir].sums} => c = x
    BY <1>1, CheckedIs
  <2>3. CASE fetch.stage = "sums"
    BY <1>1, <1>2, <2>1, <2>2, <2>3 DEF Dir, W!Idle
  <2>4. CASE fetch.stage \in {"wheel", "old"}
    BY <1>1, <1>2, <2>1, <2>4 DEF Dir, W!Idle
  <2>5. CASE fetch.stage = "manifest"
    <3>1. disk[dir].wheels = {w}
      BY <1>1, <2>5 DEF WheelsInv, Locks
    <3> QED
      BY <1>1, <1>2, <2>1, <2>5, <3>1 DEF Dir
  <2> QED
    BY <1>2, <2>3, <2>4, <2>5
<1>5. /\ disk' \in [Dirs -> Dir] /\ disk'[dir] = d /\ \A o \in Dirs \ {dir} : disk'[o] = disk[o]
      /\ UNCHANGED <<lock, check, shown, building, apply, channel, target, rebuilt, version, installed, boot,
                       lastRow, unsaid>>
  BY <1>1, <1>2, <1>3 DEF WheelsInv, DiskTypes, W!FetchStep
<1> HIDE DEF dir, w, c
<1>6. DiskTypes'
  BY <1>1, <1>3, <1>5 DEF WheelsInv, DiskTypes
<1>7. MemoryTypes' /\ Down'
  BY <1>2, <1>5, <1>1 DEF WheelsInv, MemoryTypes, Down, W!Idle
<1>8. /\ \/ lock = "check" /\ check = "take" /\ dir = "current"
         \/ lock = "check" /\ check = "downloading" /\ dir = "release"
         \/ lock = "apply" /\ apply = "fetching" /\ dir = "current"
      /\ dir = "current" => version.build = 0
      /\ dir = "release" => W!Newer(w, version)
      /\ apply \in Locking => lock = "apply"
  BY <1>1 DEF WheelsInv, Locks, dir, w
<1>9. (fetch'.dir = dir /\ fetch'.wheel = w) \/ fetch' = W!Idle
  BY <1>2 DEF WheelsInv, MemoryTypes, dir, w
<1>10. Locks'
  BY <1>1, <1>3, <1>5, <1>8, <1>9 DEF WheelsInv, Locks, W!Idle
<1>11. Offers'
  <2>1. dir = "release" /\ (ReleaseOK \/ fetch' = W!Idle) => ReleaseOK'
    BY <1>1, <1>4, <1>5, <1>8 DEF c
  <2>2. dir # "release" => (check # "downloading") /\ (ReleaseOK' <=> ReleaseOK)
    BY <1>1, <1>5, <1>8 DEF WheelsInv, Locks
  <2>3. LocalOK' <=> LocalOK
    BY <1>1, <1>5
  <2> QED
    BY <1>1, <1>5, <2>1, <2>2, <2>3 DEF WheelsInv, Offers
<1>12. Applies' /\ Ways'
  BY <1>1, <1>5, <1>8 DEF WheelsInv, Applies, Ways, MemoryTypes
<1> QED
  BY <1>6, <1>7, <1>10, <1>11, <1>12 DEF WheelsInv

\* A local build: what it leaves is what is checked there.
LEMMA BuildSteps ==
  ASSUME WheelsInv, W!BuildEnds
  PROVE  WheelsInv'
<1> USE WheelsAre, VerifiedIs
    DEF W!files, W!pressed, W!process, Some, Locking, ReleaseOK, LocalOK, IsLocal, Dirs, W!Channels
<1> DEFINE d == [disk["local"] EXCEPT !.wheels = {building}, !.manifest = building]
<1>1. building \in Locals /\ building \in W!Wheel /\ disk["local"] \in Dir /\ boot = "up"
  BY DEF WheelsInv, MemoryTypes, DiskTypes, W!BuildEnds
<1>2. d \in Dir /\ d.wheels = {building} /\ d.manifest = building
  BY <1>1 DEF Dir
<1>3. Checked(d) = building
  BY <1>1, <1>2, CheckedIs
<1>4. /\ disk' = [disk EXCEPT !["local"] = d] /\ building' = W!None /\ rebuilt' = (apply # "idle")
      /\ shown' = [shown EXCEPT !["local"] = IF W!LocalReady(building, version) THEN building ELSE W!None]
      /\ UNCHANGED <<fetch, lock, check, apply, channel, target, version, installed, boot, lastRow, unsaid>>
      /\ building # W!None
  BY DEF W!BuildEnds
<1> HIDE DEF d
<1>5. /\ disk' \in [Dirs -> Dir] /\ disk'["local"] = d
      /\ disk'["release"] = disk["release"] /\ disk'["current"] = disk["current"]
  BY <1>2, <1>4 DEF WheelsInv, DiskTypes
<1>6. DiskTypes'
  BY <1>1, <1>2, <1>5 DEF WheelsInv, DiskTypes
<1>7. MemoryTypes' /\ Down'
  BY <1>1, <1>4 DEF WheelsInv, MemoryTypes, Down
<1>8. Locks'
  BY <1>4, <1>5 DEF WheelsInv, Locks, MemoryTypes
<1>9. Offers'
  BY <1>3, <1>4, <1>5 DEF WheelsInv, Offers, MemoryTypes
<1>10. Applies'
  BY <1>1, <1>2, <1>3, <1>4, <1>5 DEF WheelsInv, Applies, MemoryTypes
<1>11. Ways'
  BY <1>1, <1>4, <1>5 DEF WheelsInv, Applies, Ways
<1> QED
  BY <1>6, <1>7, <1>8, <1>9, <1>10, <1>11 DEF WheelsInv

\* The process dies, a build's writes cut perhaps.
LEMMA KillSteps ==
  ASSUME WheelsInv, W!Killed
  PROVE  WheelsInv'
<1> USE WheelsAre, VerifiedIs
    DEF W!files, W!pressed, W!process, W!Gone, Some, Locking, ReleaseOK, LocalOK, IsLocal, Dirs, W!Channels
<1>1. disk["local"] \in Dir /\ disk["local"].manifest \in Some /\ disk \in [Dirs -> Dir]
  BY DEF WheelsInv, DiskTypes, Dir
<1>2. /\ disk' \in [Dirs -> Dir] /\ disk'["release"] = disk["release"] /\ disk'["current"] = disk["current"]
      /\ \/ disk'["local"] = disk["local"]
         \/ building # W!None /\ disk'["local"].wheels = disk["local"].wheels \cup {building}
  <2>1. CASE UNCHANGED disk
    BY <1>1, <2>1
  <2>2. ASSUME building # W!None, NEW m \in {disk["local"].manifest, building},
               disk' = [disk EXCEPT !["local"].wheels = @ \union {building}, !["local"].manifest = m]
        PROVE  /\ disk' \in [Dirs -> Dir] /\ disk'["release"] = disk["release"] /\ disk'["current"] = disk["current"]
               /\ disk'["local"].wheels = disk["local"].wheels \cup {building}
    <3>1. building \in W!Wheel /\ m \in Some
      BY <1>1, <2>2 DEF WheelsInv, MemoryTypes
    <3>2. /\ disk'["local"] \in Dir /\ disk'["local"].wheels = disk["local"].wheels \cup {building}
          /\ DOMAIN disk' = Dirs /\ \A o \in {"release", "current"} : disk'[o] = disk[o]
      BY <1>1, <2>2, <3>1 DEF Dir
    <3> QED
      BY <1>1, <2>2, <3>2
  <2> QED
    BY <2>1, <2>2 DEF W!Killed
<1>3. DiskTypes'
  BY <1>2 DEF WheelsInv, DiskTypes, MemoryTypes
<1>4. MemoryTypes' /\ Down' /\ Locks'
  BY DEF WheelsInv, MemoryTypes, Down, Locks, W!Killed, W!Idle
<1>5. Offers' /\ Applies'
  BY DEF WheelsInv, Offers, Applies, W!Killed, W!Idle
<1>6. Ways'
  BY <1>2 DEF WheelsInv, Ways, Down, W!Killed
<1> QED
  BY <1>3, <1>4, <1>5, <1>6 DEF WheelsInv

\* A start promotes the wheel applied: `current/` is removed, then the channel becomes it.
LEMMA PromoteSteps ==
  ASSUME WheelsInv, W!PromoteBegins \/ W!Promote
  PROVE  WheelsInv'
<1> USE WheelsAre, VerifiedIs
    DEF W!files, W!pressed, W!process, W!Applied, Some, Locking, ReleaseOK, LocalOK, IsLocal, Dirs, W!Channels
<1>1. W!Empty \in Dir /\ W!Empty.wheels = {}
  BY DEF W!Empty, Dir
<1>2. disk \in [Dirs -> Dir] /\ channel \in W!Channels
  BY DEF WheelsInv, DiskTypes, MemoryTypes
<1>3. Checked(disk["release"]).build = 0
  BY DirsAre DEF WheelsInv
<1>4. CASE W!PromoteBegins
  <2>1. disk' \in [Dirs -> Dir] /\ disk'["release"] = disk["release"] /\ disk'["local"] = disk["local"]
    BY <1>1, <1>2, <1>4 DEF W!PromoteBegins
  <2>2. DiskTypes'
    BY <2>1 DEF WheelsInv, DiskTypes
  <2>3. MemoryTypes' /\ Down' /\ Locks' /\ Offers' /\ Applies'
    BY <1>4 DEF WheelsInv, MemoryTypes, Down, Locks, Offers, Applies, W!PromoteBegins, W!Idle
  <2>4. Ways'
    BY <1>3, <1>4, <2>1 DEF WheelsInv, Ways, Down, W!PromoteBegins
  <2> QED
    BY <2>2, <2>3, <2>4 DEF WheelsInv
<1>5. CASE W!Promote
  <2>1. /\ disk' \in [Dirs -> Dir] /\ disk'["current"] = disk[channel]
        /\ \A c \in W!Channels : disk'[c] = disk[c] \/ disk'[c] = W!Empty
    BY <1>1, <1>2, <1>5 DEF W!Promote
  <2>2. DiskTypes'
    BY <1>1, <2>1 DEF WheelsInv, DiskTypes
  <2>3. MemoryTypes' /\ Down' /\ Locks' /\ Offers' /\ Applies'
    BY <1>5 DEF WheelsInv, MemoryTypes, Down, Locks, Offers, Applies, W!Promote, W!Idle
  <2>4. Ways'
    BY <1>5, <2>1 DEF WheelsInv, Ways, W!Promote
  <2> QED
    BY <2>2, <2>3, <2>4 DEF WheelsInv
<1> QED
  BY <1>4, <1>5

-----------------------------------------------------------------------------
(* The theorems.                                                           *)

\* The first start finds nothing under `updates/`.
LEMMA WheelsBegin == W!Init => WheelsInv
<1> SUFFICES ASSUME W!Init PROVE WheelsInv
  OBVIOUS
<1> USE WheelsAre DEF W!Init, Some, Dirs, W!Channels
<1>1. W!Empty \in Dir /\ W!Empty.wheels = {}
  BY DEF W!Empty, Dir
<1>2. DiskTypes
  BY <1>1 DEF DiskTypes
<1>3. MemoryTypes /\ Down /\ Locks
  BY DEF MemoryTypes, Down, Locks, Locking, W!Idle
<1>4. Offers /\ Applies /\ Ways
  BY DEF Offers, Applies, Ways, IsLocal
<1> QED
  BY <1>2, <1>3, <1>4 DEF WheelsInv

\* Every step of a check, a build, an apply or a start keeps the invariant.
LEMMA WheelsStep == WheelsInv /\ [W!Next]_W!vars => WheelsInv'
<1> SUFFICES ASSUME WheelsInv, [W!Next]_W!vars PROVE WheelsInv'
  OBVIOUS
<1>1. CASE UNCHANGED W!vars
  BY <1>1 DEF W!vars, WheelsInv, DiskTypes, MemoryTypes, Down, Locks, Offers, ReleaseOK, LocalOK, Applies, Ways,
    IsLocal
<1> QED
  BY <1>1, CheckSteps, ApplySteps, FinishSteps, FetchSteps, BuildSteps, KillSteps, PromoteSteps DEF W!Next

\* The inductive invariant gives both promises.
LEMMA WheelsPromise == WheelsInv => W!HandedIsSound /\ W!WayBack
<1> SUFFICES ASSUME WheelsInv PROVE W!HandedIsSound /\ W!WayBack
  OBVIOUS
<1> USE WheelsAre, VerifiedIs DEF Dirs, W!Channels
<1>1. ASSUME apply \in {"pausing", "handed"}, ~rebuilt
      PROVE  /\ Checked(disk[channel]) = target
             /\ W!Newer(target, version) \/ (target.build > 0 /\ W!LocalReady(target, version))
  <2>1. Checked(disk[channel]) = target /\ target \in W!Wheel /\ boot = "up" /\ channel \in W!Channels
    BY <1>1 DEF WheelsInv, MemoryTypes, Applies, Down
  <2>2. CASE channel = "release"
    BY <1>1, <2>1, <2>2 DEF WheelsInv, Offers, ReleaseOK
  <2>3. CASE channel = "local"
    <3>1. W!LocalReady(target, version)
      BY <1>1, <2>1, <2>3 DEF WheelsInv, Offers, LocalOK
    <3>2. target \in disk["local"].wheels
      BY <2>1, <2>3, DirsAre DEF WheelsInv
    <3> QED
      BY <2>1, <3>1, <3>2 DEF WheelsInv, DiskTypes
  <2> QED
    BY <2>1, <2>2, <2>3
<1>2. W!HandedIsSound
  BY <1>1 DEF W!HandedIsSound, WheelsInv, Applies
<1>3. W!WayBack
  BY DEF W!WayBack, W!HasWayBack, W!CurrentMatches, WheelsInv, Ways, IsLocal
<1> QED
  BY <1>2, <1>3

\* In any behaviour of Wheels, what `finish` was handed is what it finds: the target and the wheel to go
\* back to are on disk, checked, and the target is not older than what runs.
THEOREM HandedStaysSound == W!Spec => []W!HandedIsSound
BY WheelsBegin, WheelsStep, WheelsPromise, PTL DEF W!Spec

\* And wherever the process dies, a local build that runs has its own wheel to go back to: the lock is
\* held through the hand-off, and a start that promotes keeps `last.json` until the wheel is moved.
THEOREM WayBackStays == W!Spec => []W!WayBack
BY WheelsBegin, WheelsStep, WheelsPromise, PTL DEF W!Spec

\* The wheels keep the invariant among the parts side by side.
LEMMA WheelsInvInParts == PartsSpec => []WheelsInv
<1>1. PartsInit => WheelsInv
  BY WheelsBegin DEF PartsInit
<1>2. WheelsInv /\ [PartsNext]_partVars => WheelsInv'
  BY WheelsStep DEF PartsNext, partVars, wVars, W!vars
<1> QED
  BY <1>1, <1>2, PTL DEF PartsSpec

\* HandedIsSound of the parts side by side.
THEOREM HandedIsSoundInParts == PartsSpec => []HandedIsSound
<1>1. WheelsInv => HandedIsSound
  BY WheelsPromise DEF HandedIsSound
<1> QED
  BY <1>1, WheelsInvInParts, PTL

\* WayBack of the parts side by side.
THEOREM WayBackInParts == PartsSpec => []WayBack
<1>1. WheelsInv => WayBack
  BY WheelsPromise DEF WayBack
<1> QED
  BY <1>1, WheelsInvInParts, PTL

-----------------------------------------------------------------------------
(* The types.                                                              *)

\* Whether a build ended since Apply was pressed, and what a `finish` left unsaid.
HistoryTypes == rebuilt \in BOOLEAN /\ unsaid \subseteq Some

\* A build's end, a press, an exit and a death are all that write them.
LEMMA HistoryTypesStay == WheelsInv /\ HistoryTypes /\ [W!Next]_W!vars => HistoryTypes'
<1> SUFFICES ASSUME WheelsInv, HistoryTypes, [W!Next]_W!vars PROVE HistoryTypes'
  OBVIOUS
<1>1. installed \in Some
  BY DEF WheelsInv, MemoryTypes
<1>2. rebuilt' \in {rebuilt, FALSE, apply # "idle"} \/ UNCHANGED rebuilt
  BY DEF W!Next, W!vars, W!FetchStep, W!CheckBegins, W!CheckLocks, W!EnsureCurrent, W!Take, W!TakeEnds, W!BuildBegins,
    W!BuildEnds, W!BuildFails, W!Press, W!WaitEnds, W!ApplyReads, W!ApplyGivesUp, W!ApplyFetched, W!Trial, W!Tried,
    W!HandOff, W!Install, W!GoBack, W!Exit, W!Killed, W!Gone, W!PromoteBegins, W!Promote, W!Starts, W!pressed
<1>3. UNCHANGED unsaid \/ unsaid' = unsaid \union {installed}
  BY DEF W!Next, W!vars, W!FetchStep, W!CheckBegins, W!CheckLocks, W!EnsureCurrent, W!Take, W!TakeEnds, W!BuildBegins,
    W!BuildEnds, W!BuildFails, W!Press, W!WaitEnds, W!ApplyReads, W!ApplyGivesUp, W!ApplyFetched, W!Trial, W!Tried,
    W!HandOff, W!Install, W!GoBack, W!Exit, W!Killed, W!PromoteBegins, W!Promote, W!Starts, W!process
<1> QED
  BY <1>1, <1>2, <1>3 DEF HistoryTypes

\* The invariant's types are those of Wheels.
LEMMA WheelsAreTyped == WheelsInv /\ HistoryTypes => W!TypeOK
<1> SUFFICES ASSUME WheelsInv, HistoryTypes PROVE W!TypeOK
  OBVIOUS
<1>1. disk \in [Dirs -> Dir]
  BY DEF WheelsInv, DiskTypes
<1>2. \A d \in DOMAIN disk : disk[d].wheels \subseteq W!Wheel /\ disk[d].sums \in Some /\ disk[d].manifest \in Some
  BY <1>1 DEF Dir
<1>3. /\ shown \in [W!Channels -> Some] /\ building \in Some /\ target \in Some /\ channel \in W!Channels
      /\ version \in W!Wheel /\ installed \in Some /\ lastRow \in Some
  BY WheelsAre DEF WheelsInv, MemoryTypes, Some
<1>4. fetch.wheel \in Some
  BY DEF WheelsInv, MemoryTypes
<1>5. boot \in {"down", "promoting", "promoted", "up"}
  BY DEF WheelsInv, Ways
<1>6. lock = "check" <=> check \in {"current", "take", "downloading"}
  BY DEF WheelsInv, Locks
<1>7. {shown[c] : c \in W!Channels} \subseteq Some
  BY <1>3
<1> QED
  BY <1>2, <1>3, <1>4, <1>5, <1>6, <1>7 DEF W!TypeOK, HistoryTypes, Some

\* Among the parts side by side the wheels keep their types.
LEMMA WheelsAreTypedInParts == PartsSpec => []W!TypeOK
<1>1. PartsInit => HistoryTypes
  BY DEF PartsInit, W!Init, HistoryTypes
<1>2. WheelsInv /\ HistoryTypes /\ [PartsNext]_partVars => HistoryTypes'
  <2>1. [PartsNext]_partVars => [W!Next]_W!vars
    BY DEF PartsNext, partVars, wVars, W!vars
  <2> QED
    BY <2>1, HistoryTypesStay
<1> QED
  BY <1>1, <1>2, WheelsInvInParts, WheelsAreTyped, PTL DEF PartsSpec
===============================================================================
