# coscc in TLA+

coscc runs coding agents on the work units of a repository: a person, a trigger or an autopilot
asks for a step of a unit, the step is prepared in a work tree of its own, an agent session does
it, and its artifact opens the gate of the next one. One Python process runs everything on one
asyncio loop; what survives it is one SQLite database (`cos.db`) and the files of the units. This
directory is a model of that program, checked by TLC and, where it matters most, proved by TLAPS.

`PROJECT.json` maps every definition to the lines of the code it stands for.

## 1. The system

| Part | State it keeps | Operations | Talks to |
| --- | --- | --- | --- |
| Attempts and scheduler, `runner/queue.py` | `attempts` and `attempt_moves` in `cos.db`; the flags `closed`, `_waking` | `open`, `move`, `ask_stop`, `wake`, `wake_all` | publishes every move on the bus and listens to its own events; asks the updater whether it may admit |
| Steps, `runner/steps.py`, `agent/steps.py` | `Steps.tasks` (attempt -> `Running`), `stop_requested`, `sealed`, `holds.finishing` | `run_step`, `enqueue`, `raise_step`, `launch`, `_prepare`, `_start`, `drive`, `seal`, `close`, `end_attempt`, `never_driven`, `stop_running`, `adopt`, `resume_step` | moves attempts; runs an agent run; reads board, run log, files |
| The run of an agent, `runner/step.py`, `run.py`, `watch.py` | recorder, turns, ceilings, the judged output | `Runner.run`, `run.run`, `_conclude`, `_repair_opening`, `_repair_submit` | sessions, run log, the unit's files; `seal`s its step |
| Sessions, `agent/sessions.py` | open streams, `paused` | `stream`, `close`, `suspend_all`, `close_all` | the agent's process |
| Integration, `github/integration.py`, `integrate.py` | its attempt, its road, its `integration` rows, the unit's tree | `integrate`, stop points, `_integrate_mechanical`, `integrate_gebo`, `_after_gebo`, `resume` | git, gh; a stop is read between two of them; a Gebo session; Resume |
| Holds, review rounds, estimates, `leif/answers.py`, `leif/backlog.py` | a short attempt | `hold`, `more_rounds`, `propose_estimates` | attempts, run log, files |
| Resume, `runner/resume.py` | the `suspend` rows of the run log | `_recover`, `_end_unclaimed`, `suspend_sessions`, `settle_after_suspend`, `resume_after_update` | attempts, steps, run log |
| Updater, `update/` | idle / pending / applying, the window, the fetch lock, the wheels under `updates/`, `last.json` | `check_once`, `build_local`, `apply`, `cancel`, `_apply`, `_fail`, `finish`, `_report_last` | waits for mechanical work, suspends sessions, shuts the core down, hands off |
| App, `http/app.py` | the `Core` | start, `shutdown` | everything |
| Autopilot, `leif/autopilot.py`, `decide.py` | settings, stops, tasks per workspace | `run_pass`, `nudge`, `set_setting` | board, pull requests, money; queues attempts |
| Pull requests, `github/prmachine.py` | a row per pull request, its checks and merges | `open_pr`, `ship`, `reconcile`, `read`, `record_ci` | gh, git, run log |
| Trunk fetches, `git/fetches.py` | a table of futures | `fetch` | git |
| Units and the loop, `units/`, `loop/` | the unit's files and their meta rows | `submit`, `rerun`, `gate`, `next` | files, run log |
| Held board, `units/read.py` | one board per workspace, its read, `_again` | `changed`, `get`, `refresh` | reads units, run log and git in a thread |
| Run log, `store/journal.py`, `runlog/` | an append-only table | `append`, `append_checked`, `unresumed`, the folds | SQLite |
| Triggers, `runner/triggers.py` | tasks, due rows | `tick`, `start`, `listen`, `stop_run` | agent runs |
| Releases, `features/release/` | one press at a time, its tree, a local branch, its records in the run log | `release_prepare`, `release_publish` | git, gh, the loop's checks of versions |
| The rest | packs, policies, prompts, chat, vault, routes, login, page | text, configuration, I/O | |

What is hard in it, and hard to test:

- **Every await is a gap.** A Stop, a run's end, a refusal in a preparation, a recovery and the
  scheduler all move the same rows. asyncio runs one coroutine at a time, so what runs between two
  awaits is atomic - and everything read before an await may be stale after it.
- **Cancelling a task is not telling it.** A task cancelled before its first turn runs none of its
  code, `finally` included; one cancelled later reads the cancel at its next turn.
- **Moves wake the queue.** A move publishes an event whose listener admits the next attempt and
  makes its task before the publish returns, so any handler may launch work in its middle.
- **The process goes down in three ways**: killed, shut down, or handed over to an update which
  suspends sessions and takes them up again - in the next process, or in this one if the
  hand-off fails.
- **Two sources of truth**: rows in the database, coroutines in memory. Whatever a row says is
  worked on must have a coroutine, and the other way round.

What makes each part correct:

- attempts: one unfinished attempt per unit; only the table's moves; slots in order and within
  capacity; no lost wake.
- steps: a row and its coroutine agree; every attempt ends; a Stop ends what it reaches, shows in
  the outcome, and never cuts what was being finished.
- runs: `done` says the artifact is there and its object is of the files as they are; a Stop before the seal
  leaves the artifact as it was; the ends together say each dollar once.
- recovery: a start ends what nobody works on, keeps the queue, and ends nothing this process
  works on.
- updater and Resume: a suspended session is taken up at most once, and exactly once when the
  hand-off succeeds; a failed hand-off leaves no session paused and no queue closed.
- pull requests: a merge is recorded once, whoever sees it first and whatever died in between.
- fetches: one fetch per key at a time, and nobody joined to one waits for ever.
- units and loop: the stage the loop names is one its gate lets through; what is merged is what a
  review passed; a unit that is not over always stands where somebody can move it on.
- autopilot: no wake is lost to a pass that had already read, and nothing is retried without bound.
- triggers: one run per agent at a time, an end is handed to a follower once, Leif keeps to its
  number a day, an agent that met its ceiling stays off.
- held board: a change told is shown, or a read that began after it is under way.
- integration: no push takes back what the pull request had, and no commit in the tree is lost to a reset.
- releases: what is merged and tagged is what the app made and the checks passed, however old its reads are.
- wheels: what is handed to the install is there, checked and not older; wherever the process died, there is
  a wheel to go back to.

`PROJECT.json` lists the hazards line by line.

## 2. The modules

| Module | What it is |
| --- | --- |
| `UnitLock` | what an attempt promises: a lock on its unit |
| `AttemptStore` | the rows, the table of moves, the scheduler: operators from rows to rows; and the rows as that lock |
| `Attempts` | the state machine: the rows with the coroutines, Stops, updates, shutdown, kill and recovery of one process |
| `MCAttempts` | `Attempts` on small sets |
| `AttemptsProofs` | the theorems about `Attempts` and their proofs |
| `Update` | the updater with the sessions it pauses, the rows it leaves in the run log, and the start or the failed hand-off that takes them up, over the rows of `AttemptStore` |
| `MCUpdate` | `Update` on small sets |
| `UpdateProofs` | the theorems about `Update` and their proofs |
| `Runs` | one run of an agent: what its session says, calls and submits, the artifact, the repairs, the seal and the `end`, over Stops, updates and raised ceilings |
| `PullRequest` | GitHub's pull requests and checks beside the rows, with `open_pr`, `ship`, the reader, the board's asks and the reconcile of a start |
| `Loop` | the loop's rules as operators over what they read, with sessions, the owner, GitHub and other people that change it |
| `Autopilot` | wakes and passes of one workspace, from their reads to what they queue |
| `Triggers` | runs of agents that are no stage: presses, Leif's calls, ends that start others, schedules |
| `TrunkReads` | what `fetch` promises its callers |
| `Fetches`, `FetchesProofs` | the coordinator of `git fetch`, and the proof that it keeps that promise |
| `Boards` | the one board a workspace holds and the reads that renew it |
| `Wheels` | the wheels of an update on disk: what checks, local builds and applies write, the lock, the install, the promotion of the next start |
| `Integrations` | a branch integrated with `main`: the tree, the pull request and `origin/main`, each moved by others |
| `Releases` | the two presses of a release, call by call, with the repository and GitHub others work in |
| `MCWork` | `Runs`, `PullRequest` and `Releases` side by side on small sets: they share no state, so a behaviour is one of one of them |
| `WorkProofs` | the theorems about those three, and about `MCWork` |
| `MCLive` | `Attempts` and `PullRequest` in the same way, with the fairness of each |
| `MCParts` | eight parts (`Loop` to `Integrations`) in the same way |
| `LoopProofs`, `TriggersProofs`, `WheelsProofs` | the theorems about these three parts |
| `PartsProofs` | the theorems about `Boards`, `Autopilot` and `Integrations`, and the types of all eight in `MCParts` |

How they compose: `AttemptStore` is the rows `Attempts` and `Update` both move. The others meet the
code only through what they read, so each stands for the others by a choice: what the loop names is
a choice in `Autopilot`, the steps it queues are sessions in `Loop`, and the `merge` `Loop` asks for
is the `ship` of `PullRequest`. `Attempts` and `Update` see a run from outside, as rows and a seal; `Runs`
is its inside, and meets them at the seal, the Stop and the suspend.

### UnitLock, AttemptStore and Attempts

State and code:

| Variable | In the code |
| --- | --- |
| `att[i]` | the row of attempt `i`: machine, unit, its last move, that move's outcome, whether a Stop is recorded |
| `parallel` | the workspace's `max_parallel` |
| `task[i]` | which coroutine of this process works on it and how far it is (below) |
| `stopReq` | `Running.stop_requested` |
| `cancelled` | `task.cancel()` was called and the task has not run since |
| `illegal` | a ghost: attempts for which a handler was told `Illegal` |
| `boot`, `left`, `leftStop` | how far `resume_after_update` is, the rows `_recover` read and has not come to, and which of them had a Stop when it read them |
| `updating` | what the queue and the refusals ask of the updater |
| `closed` | `Attempts.closed` |
| `paused`, `raising` | units whose stage ended paused at a ceiling; raises between their reads and their act |

A step's task goes `toPrepare` (made by `launch`) - `preparing` - `toDrive` (made by `_start`) -
`driving`, or to `acting` for the engine's own push and merge; `afterEnd` is what runs once its
attempt ended. `stuck` is an entry of `Steps.tasks` whose task was cancelled before it began.

One action is what one coroutine does between two awaits, all of it: `Commit` adds the wake of the
queue and the launches to every handler that moves a row, because the code does. A Stop
(`stop_running`) is one action although it awaits the close of the session between its flag and the
cancel: until the cancel lands the run already reads the flag (`seal` refuses, the run ends
`stopped`), and a driven task may end by itself with its cancel still pending.

The three short machines have the same table and no slot, so one (`hold`) stands for them. What a
preparation or a run reads decides how it ends; the model chooses among the ends the code has. A
ceiling reached (`paused-budget`) is kept per unit because a raise (`raise_step`) starts from it:
it reads, awaits, and only then opens an attempt that is `running` from its first row.

Left out, and why: the reads a preparation makes (each is a choice of how it ends), the road of an
integration (it changes no move), the mode and rerun flags, outcomes in finer detail than the code
compares, more than one workspace (nothing is shared but the loop), sessions suspended by an update
(`Update`'s). `Crash` takes the process at any point between two awaits, and `CrashInHold`
inside the one handler that makes two transactions.

`UnitLock` knows neither machines nor states: a unit is taken when nobody has it, with a ticket newer than every ticket
given before, and is given up, by one holder or for many units at once (a start). `Lock == INSTANCE UnitLock WITH ...` in
`AttemptStore` maps the rows to it: the ticket is the id, it holds its unit until its last move is `ended` or `refused`, and
was given when its row was written. Every state of an unfinished attempt is the same to the lock, so all moves between them are
stutters. `KeepsUnitLock` is stated there once and shown of both machines that move rows, `Attempts` and `Update`.

### Update

| Variable | In the code |
| --- | --- |
| `upd` | `Updater.state` and `window`, and how far `_apply` is: `idle`, `pending`, `applying`, `trial` (from here the window is open), `suspending`, `settling`, `down` (`shutdown` called) |
| `mech`, `told` | the one piece of work an Apply may wait for, `undecided` while an integration has no road; a `_maybe_apply` that `job_ended` put on the loop |
| `run[i]` | the task of attempt `i`: `opening`, `opened` (its `start` is written), `streaming`, `closing` (the reply is complete, the client is being closed, the handle is still in `Sessions._steps`), `concluding`, `posting` (its `end` is written) |
| `sid[i]` | the session it works with: that of the attempt it was first begun in |
| `marked`, `captured`, `paused` | `StepHandle.suspended`; the streams one `suspend_all` pauses; `Sessions.paused` |
| `log[u]` | the `start`, `end`, `suspend` and `resume` rows of a unit, a `resume` row naming the position of its `suspend` |
| `boot`, `todo`, `taking` | how far `resume_after_update` is: rows read, rows answered and about to be claimed |
| `takes` | a ghost: what was taken up, in order |

`SuspendAll` lists and marks the streams; `SuspendRows` writes their rows once all are closed. In
between every owner goes on by itself. `resume_after_update` does not await from its rows to its
claims, so in `resuming` nothing takes a turn - but the process may die there, between any row and
its claim. A hand-off that fails goes the same road in the same process.

Where it stops: a step begins `running` (its queue and preparation are in `Attempts`, and `opening`
stands for them when an update comes); Gebo, estimates and chat turns are not suspended here; a
hand-off fails after `shutdown` and not before; `shutdown` ends every task it cancels; the `end` a
refused session gets is written with its `resume` row.

### Runs

| Variable | In the code |
| --- | --- |
| `run` | the locals of `Runner.run` (and of `run.run`, kind `agent`), and at which wait it is: `main` and `shut` (the session, and the close of its client), `tree`, `progress`, `opening`, `submitting`, `finishing`, `closing` (the recorder), `capturing` (`snapshot`) |
| `run.road` | a first start, a session an update paused (its main reply, or the repair of its opening), a ceiling raised |
| `run.stop`, `run.sealed` | `stop_requested` and `sealed` of its `Running` |
| `run.chan` | `Channel.received`: the revision of the unit's files the last accepted object was checked against |
| `disk`, `rev` | the artifact, and `submit.revision` of the unit's files |
| `around` | of a spike: whether its tree was touched, whether a progress file is there |
| `kept` | the `suspend` row, or the `paused-budget` end, the next run may go on from |
| `money` | what the CLI billed, from where its process and its session count, and the sum of `cost_usd` over the ends |

`_conclude` is one operator after another (`Concludes`, `Repairing`, `Submitting`, `Rounds`, `Sealing`), each giving what the
run may be at its next wait, because nothing waits between them unless a turn is asked for. What is written is written
with the seal, in one step. Four kinds of stage differ: `prose` and `review` are written from the reply, `spike` only
when its tree is as it was, and `impl` writes its file itself. An opening that lacks its title, or a round that changes
an earlier one, are choices; so is how the CLI ends. A session whose transcript is gone is not raised and not taken up (`Refuse`).
Left out: prompts, grants and gates, helpers, the events of a run, the trial of models, a run with no session id.

### PullRequest

| Variable | In the code |
| --- | --- |
| `pr`, `tip`, `check`, `clean` | GitHub: pull requests, the last head of each branch, its required checks and reruns, and which heads are clean rebases |
| `round`, `now`, `rerun`, `noted` | the run log: the head of the last passed round, `state` (with `ci`), `rerun_at`, the `ship` row for notices |
| `job[u]` | the `pr` or `ship` step, between which calls it is, and what it was told |
| `ci[r]` | a read of required checks: the reader's, or the one the board asked for |
| `reader`, `rerunning`, `recon` | the walk over the watched pull requests, `_RERUNNING`, the reconcile of a start |

Every call of `gh` is an await, so an action is what GitHub does with one call or what one coroutine
does with the answer. The answer is kept in the caller: it may be old when it is acted on. `MaxTroubles`
counts together the pushes after the first, crashes, switches turned off and pull requests closed.
Titles, bodies, comments and the road of an integration are left out.

### Loop

The rules keep no state, so they are operators (`NextStage`, `FilesOpen`, `ReviewGate`, `ShipGate` and what
they are made of) over variables that stand for the rows, the branch and the pull request. Commits are
numbered; a rebase begins a new `line` and either keeps its `patch` (clean) or not. The actions are
whatever changes those variables: a `plan`, `impl` or `pr` session is one action, for nothing tells
its beginning from its end; a review and a ship are two, because pushes, pulls and answers in
between are the hazard. `plan` stands for every stage before `impl`.
A pull request is open, closed or merged; the machine follows it (`Watched`) from the row that opened it until the row
that says it was closed. Closed, it ends the ship gate and what is named after a round that asked for
changes, as both ask `pr_head`; the review gate asks for its checks and not for its state. Of the three faults a round may have only
`dropped` is reachable, because the app numbers rounds and records their heads itself. Left out:
stages only the owner may skip, the spike, the fast lane, findings about screens, titles, rejected
stages, drafts before the review, the floor under the count of rounds, a merge made outside the app, and a pull
request opened again while a merge of it is made (`PullRequest` has that).

### Autopilot

A pass is five actions: it begins, reads the run log, reads what runs, chooses from what the loop
names, and records and queues its picks one by one; steps end, people click and the switch is turned
between any two. What may hold a unit back (the day's money, files, a ship, its rank, an answer,
a session limit) may hold any unit back at any time, so the safety properties do not count on it.
Left out: reruns after a session limit, the retry of unopened prose, the integrate override,
reruns of a draft, and the thirty seconds a refusal is remembered.

### Triggers

`runs` are rows and tasks together; `running` is `_RUNNING`, `held` is `_LEIF_HELD`, `due` the rows
of `trigger_due`. A count for Leif's tool goes on in a thread: it copies what is held, then reads
the rows, while runs begin and end. Refusals for reasons the module does not keep may come at any
time; `well` is an end that is heard. `TurnOff` may fail, as `_turn_off` lets it: the agent is then let go while it is on.
Trials, prompts and outputs are left out, and one follower starts at an end, the others being due or refused.
`TickDue` begins a run and deletes its row in one step: there is no await between, but they are two transactions, and a second one
that meets a busy store leaves the row and so a second start of the same end (below).

### TrunkReads and Fetches

`Fetches` is one entry of the table: the future and who registered it (`inflight`), `last_ok_started`, and
each call between two awaits. `TrunkReads` does not know who fetches or how often git is called: it
says when callers wait and what they are told. `Promise == INSTANCE TrunkReads WITH ...` maps a fetch
that runs to the time its last `git` began. A path that is no repository fails before the table is
looked at and is left out.

### Boards

Changes are counted, and a board shows what changed before its read began (a change during a read
may be in it, but nothing may rely on that). The done-callback of a read is part of its end. What a
read gathers, a `fresh` read, removed workspaces and the stop at shutdown are left out.

### Wheels

| Variable | In the code |
| --- | --- |
| `disk[d]` | `release/`, `local/` and `current/` under `updates/`: the wheels there, the wheel `SHA256SUMS` has a line for, the one `manifest.json` describes |
| `fetch` | the `fetch_into` under way, once its checksum held: four renames and removals, with a kill possible between any two |
| `lock`, `check` | `_fetch_lock`, and where the check's thread is |
| `shown`, `building` | what `self.release` and `self.local` say is ready; the build under way |
| `apply`, `channel`, `target` | how far `_apply`, and after the hand-off `finish`, is, and what it read |
| `running`, `installed` | the version of this process and the one `uv` installed; a broken install is `None`, and does not start |
| `boot`, `lastRow` | how far `_report_last` is; what `last.json` says was applied |
| `rebuilt`, `unsaid` | ghosts: a local build ended since the press; versions installed by a `finish` that was killed or could not go back |

`Update` has the same Apply from the side of the sessions; here what it waits for and whether the
trial is well are choices. The three writes of a local build are one turn of the event loop, so only
a kill parts them. The steps of the trial, the backup of the database and the shape of the install
are left out; the latest release may be any there ever was, for a release may be taken back.

### Integrations

| Variable | In the code |
| --- | --- |
| `trunk`, `pr`, `asked` | GitHub: `main`, the pull request's head, a rebase of it that was asked for |
| `main`, `tree` | here: `origin/main` as last fetched, and the unit's tree with its head and a rebase in progress (`stuck` is one that could not be aborted) |
| `opened`, `last` | the run log: a Gebo `start` that nothing ended, and the head the last integration pushed |
| `at`, `got` | where the integration is, and the head, the `origin/main` and the state it read at its beginning |
| `mine`, `swept` | ghosts: commits made in the tree by the unit's steps, and those the end of a completion moved it away from |

A head is the commit of `main` it stands on, its own commits, and who rewrote it last, which is all
`relation`, `newer_base` and the lease compare. Each call of git or `gh` is a step unless nothing else of
the tree's can come between (the lock and the attempt keep the app's other work out; GitHub, people and
fetches come between any two). What Gebo does in the tree is the `integrate` skill's: it fetches, rebases,
commits, pushes with the lease, and may stop anywhere; a completion is pushed as it is. A branch that conflicts,
a git call that fails and a session's outcome are choices. Prompts, related units, warnings and what the page reads are left out.

### Releases

| Variable | In the code |
| --- | --- |
| `trunk`, `tagged`, `made`, `remote`, `pulls` | GitHub: `main`, the tags, the commits of release branches, those branches, their pull requests |
| `known`, `left` | here: `origin/main` and the tags of the last fetch, the release branches cut and not removed |
| `opened` | the run log: the head of the last `opened` record of each version |
| `press` | the press that runs (`_releasing`): between which two calls it is, and what it read |

A version is a number. An action is one call, which may fail, lose its answer or be the last one made (`IsCut`);
in between others merge, push to the release branch, close and open pull requests, and tag. A release branch is only added
to, and a pull request is merged only onto the version its branch was cut from. What a release gathers, its
text, the check of the changed lines and the page's reads are left out; the release tree is taken away or made anew at
every press.

### Properties

| Property | Says | Breaks if |
| --- | --- | --- |
| `KeepsUnitLock` | an attempt is a lock on its unit: one at a time, each newer than all before, and over for good (`UnitLock`) | the check and the insert of `open` part, the check misses a state, or a move brings an ended row back |
| `RowsMatchTasks` | what a coroutine believes of its row is so | recovery, a Stop or a raise moves a row from under it |
| `NoIllegalMove` | no step or integration is told `Illegal`, nor a start that ends a row it read before an await | a seal twice, an end after a Stop, a close after a hand-over |
| `HeldIsWorkedOn` | after a start, what holds a slot has a coroutine | a done-callback is missing, recovery overlooks a state |
| `StopShows` | a recorded Stop shows in the outcome | the outcome a run came to overwrites it |
| `StopNeverHalfway` | a Stop does not cut what is being finished | the Stop is put above the seal |
| `AdmissionInOrder` | slots go to the oldest, and only free ones | the scheduler sorts or counts wrongly |
| `WakeFollows` | nothing waits beside a free slot after anything moved | a handler frees a slot without waking |
| `EveryAttemptEnds` | everything ends, whatever is pressed meanwhile | recovery or a callback forgets somebody |

Of `Update`:

| Property | Says | Breaks if |
| --- | --- | --- |
| `TakenUpOnce` | a session goes on at most once | it is taken up with no `resume` row written first |
| `OneRunPerUnit` | a session taken up runs alone on its unit | the claim does not ask who holds the unit |
| `NotOverNewerWork` | ... and over no work begun since it was paused | `moved_on` overlooks a `start` |
| `TrialIsNotForNothing` | nothing an Apply waits for begins once it is pressed | the refusal comes with the window only |
| `PendingEnds` | an update that waits is told | an ending publishes nothing |
| `SuspendsAnswered` | no suspended session waits for ever | a failed hand-off leaves its rows to the next start |

Of `Runs`:

| Property | Says | Breaks if |
| --- | --- | --- |
| `DoneIsSound` | a `done` stage has its artifact, written by this run where the app writes it, an object for the unit's files as they are, and no Stop before the seal | an object once accepted is not checked again at the end |
| `Withheld` | a Stop before the seal, or a spike that touched its tree, leaves the artifact as it was on every road to it | the progress file is written with no second look at the tree |

Of `PullRequest`:

| Property | Says | Breaks if |
| --- | --- | --- |
| `MergedWasReady` | the app merges only a green head that a round passed, or a clean rebase of it | a merge is not pinned to the head that was judged |
| `RedIsReal` | a `red` at the head is a second red run or a rerun GitHub refused | a read writes what an older answer said |
| `MergeIsRecorded` | a merge made by anyone, and by a process that died after it, is recorded some day | the reader takes a requested merge for the ship step's business |
| `CiCatchesUp` | the rows come to say what the last head's checks say | an old answer is taken for final |

Of `Releases`:

| Property | Says | Breaks if |
| --- | --- | --- |
| `ReleasedIsMade` | the app merges its own recorded commit with green checks, and its tag names the commit that merged it | the tag is put on the tip of `main`, or the merge is not pinned |

Of the eight parts:

| Property | Says | Breaks if |
| --- | --- | --- |
| `MergedWasReviewed` | what is merged is the commit a round passed, or a clean rebase of it, and every finding any round rated high is dealt with | the merge is not pinned to the head that was judged |
| `NamedIsOpen` | a stage the loop names is one its gate lets through | `next` and the gates read differently |
| `SomeoneCanMove` | a unit that is not over, whatever became of its pull request, stands where somebody can move it | the reader leaves one whose merge was asked for to the step that asked |
| `WakeIsServed` | what a wake tells of is read by a pass that reads after it | a wake joins a pass that has read already |
| `RetriesBounded` | on one head, and after a step that failed, the autopilot tries a bounded number of times | tries are counted one too many |
| `EndHandedOnce` | an end starts each follower at most once, with its own result | a due row stays when its run started |
| `LeifWithinDay` | Leif starts no more runs a day than it may | the count leaves out what is held |
| `CeilingHolds` | an agent that met its ceiling runs by no event or schedule until turned on, unless it could not be turned off | it is let go before it is turned off |
| `KeepsPromise` | `Fetches` implements `TrunkReads` | a cancelled fetch leaves its joiners waiting |
| `BoardIsCurrent` | who asks for a new board gets one, and a change told is shown or being read | a read under way is taken for a new one |
| `HandedIsSound` | what `finish` was handed is on disk, checked and newer, until it is through with it | the lock is let go of with the hand-off: a check from before the press replaces it |
| `WayBack` | a local build that runs has its own wheel to go back to, wherever the process died | `last.json` is renamed before its wheel is promoted |
| `NothingPushedBack` | a push keeps every commit the pull request had and stands on no older `main` | a tree on the older base counts as a rebase never pushed |
| `LocalWorkKept` | a commit a step made in the tree survives every integration | `ahead` and `behind` are swapped |

### Runs and bounds

| Run | Bounds | Shows |
| --- | --- | --- |
| `attempts_safety` | 2 units, 3 attempts, 2 slots, 1 crash, units symmetric | all safety and action properties but the lock's; 2.9 million states, to depth 29 |
| `liveness` | attempts: 2 units, 2 attempts, 1 slot, 1 crash; pull requests: 1 unit, 2 heads, 1 pull request, 1 trouble, no board | `KeepsUnitLock`, `EveryAttemptEnds`; `MergeIsRecorded`, `CiCatchesUp` |
| `update_safety` | 2 units, 2 steps begun, 1 update, 1 crash, 1 row the run log is too busy for, units symmetric | the safety properties of `Update`; 2.8 million states, to depth 54 |
| `update_liveness` | 1 unit, 1 step begun, 2 updates, 1 crash, 1 busy row | `PendingEnds`, `SuspendsAnswered` |
| `ended_session` | 1 unit, 1 step, 1 update | a statement of `sessions.py` that it does not keep (below) |
| `stop_ends`, `hold_at_start`, `going_down` | 2 units, 2 or 3 attempts | three statements of the code's own comments that it does not keep (below) |
| `work_of_a_unit` | per part, see below | the safety and action properties of `Runs`, `PullRequest` and `Releases`; 3.1 million states |
| `ci_of_its_head` | 1 unit, 2 heads, 1 pull request, 1 trouble | a docstring of `prmachine.py` that it does not keep (below) |
| `each_dollar_once` | 1 piece said, 2 dollars, 3 runs | a comment of `step.py` that the code does not keep (below) |
| `loop_and_parts` | per part, see below | the properties of the eight parts; 1.2 million states |

`loop_and_parts` looks at parts that share no state in one run: `part` chooses one and the others stay
at one initial state each, so its states are the sum of theirs and not the product, and each statement is about the part chosen. Its bounds: `Loop` with
1 finding in five marks, 2 patches, 2 commits, 2 rounds, a limit of 1, and 1 move of the owner or of
others (a second commit is a rebase or a push after a pass; a second round drops, lowers or answers what
the first raised); `Autopilot` with 1 unit (its properties are unit by unit), 2 tries on a head, 4
steps begun, 1 place and 2 wakes; `Triggers` with 2 agents of which one follows the other and 3 runs held, or 2 with two
calls of Leif's tool at once and 1 a day; `Fetches` with 3 callers (who fetches, who joins, who comes later), reuse of
2 and time up to 4; `Boards` with 2 askers, 3 changes and 1 read that raises;
`Wheels` with 3 releases and one local build each of the first two public versions (a release that waits while a local
build of the same or a higher version is applied, one local build after another, and a later release that replaces
the one that waits), and no bound on checks, builds, applies and kills; `Integrations` with 1 commit on `main` after the branch was cut and 2 made after its first push (so
the pull request and the tree can each have what the other lacks, one of them on a base the other does not have), and no bound on presses, rebases and kills.

`work_of_a_unit` looks at its three parts in the same way. `Runs` has three runs (one that is paused or meets its ceiling, one that is raised or
taken up, one more), two pieces said (a title, and a call before or after it, which decides whether
the title is behind the safe point), one dollar (a ceiling of one that is met and raised; `each_dollar_once` spends two), and one change of the unit's files. `Releases` has one version to come, 4 commits of `main`
(the last release, something to release, the merge, and one on top of it), 2 commits of release branches (the app's and one pushed on
it) and one pull request (which others may merge or close), and no bound on presses, cuts and failures. `PullRequest` has
1 unit, 2 heads, 2 pull requests, 1 trouble, and the board asks at the first head.

In `PullRequest` two heads give one that is judged and one pushed after it, two pull requests a second one at the
same head, and one trouble a crash, a close or a push between any two calls; `faults` bounds the statements that hold only while
nothing died. Those whose counterexample needs two troubles would be missed.

Two units and three attempts make one unit busy while another waits, leave a third to be admitted
or refused, and let an attempt follow an ended one of the same unit; two slots and one distinguish
"a slot is free" from "one is free but another kind waits"; one crash gives a start with rows in
every state, Stops recorded, and requests during recovery. In `Update` two units give a start two
rows to answer, with a crash between them; one busy row leaves a session for a later start while its
unit goes on; two updates of one unit (`update_liveness`) suspend a session that was taken up before, with a crash anywhere.
`MaxAttempts` there is the steps begun and those a taking up may open. The theorems need none of these bounds.

### Fairness

`FairSpec` lets every coroutine take its turn (the loop is fair), lets sessions and git calls end
(each has a timeout or a ceiling), lets a start follow an exit, and lets an update be over at some
time (the updater ends in `_fail`, a cancel or a hand-off, and its own waits have deadlines;
`pending` waits for a person to cancel or for mechanical work to end). Nobody has to click, stop,
raise, crash or change a setting.

In `PullRequest`, `Fairness` lets a start follow an exit, its reconcile and each read under way go on, and
the reader walk (its loop sleeps and begins again). A list or a view of `gh` may fail, and is asked again at every
walk; that it is answered some day is strong fairness of `WalkList` and `Viewing`. GitHub, `ship`, pushes and people owe nothing.
The other parts are checked for safety only. In `MCLive` each condition is asked of the part at work.

In `Update`, `FairSpec` lets every run and every start take its turns, a session and an integration
come to their end (a turn ceiling and timeouts bound them), and the updater go on once pressed. It
does not count on a page asking for the status, which would hide an ending nobody tells.

### Where the code does not do what it says

- `stop_ends`: `launch` gives `_prepare`'s task no done-callback, `_start` gives `drive`'s one. A
  Stop handled before that first turn leaves the attempt `preparing` until a restart. The Stop may
  even admit the attempt itself: recording it publishes an event that wakes the queue.
- `hold_at_start`: a hold begun while a start is still removing half-made trees is taken for one
  the last process left.
- `going_down`: `_conclude` seals whatever ends a run, the app going down and a suspend included;
  the next start then finds `ending` where it looks for `running`.

- `ended_session`: a stream is paused as long as its handle is in `_steps`, which it is while the
  client of a complete reply is being closed; and a Stop may land on a stream already marked. Either
  run writes its `end`, and then its `suspend` row is written too. `moved_on` looks at what comes
  after that row, so the next start goes on with a session that is over. When the `end` comes
  second, the session is refused instead, and a `done` run gets a second, `failed` end.

- `ci_of_its_head`: a `ship-ready` row moves the head and keeps the `ci` of the one before it. If that
  is `red` and GitHub refuses the merge, the reader takes the new head for read, and one red check of
  it sends the unit back without the rerun every head is owed.

- `each_dollar_once`: the `end` of a run that went on above a raised ceiling keeps its own share of what
  the session cost, because the CLI counts the whole session. The `suspend` row does not say that a session was raised, so
  when an update pauses such a run, its next `end`, or the one that says it was not taken up, has the whole cost again.
  What the day spent, and the autopilot's budget with it, is then too high.

These have no run:

- A raise opens a `running` attempt past the scheduler, so one more than `max_parallel` may run. Nothing else goes over it:
  `SlotsWithinCapacity`, which is proved (`OnlyRaisesGoOverCapacity`) and in no run.
- A suspended step is `ending` with no task (`going_down`), so `settle_after_suspend` waits its whole
  time and names it in a `cut` row (`CutStillRuns` in the module).
- An integration that goes straight to Gebo stops being waited for and publishes nothing, so a pending
  update learns of it from the next ending or a page.
- A Stop on a suspended step ends its attempt, and its session is taken up in another one all the same.
- Runs: "an `end` record with `stopped` and `stopped_by`" (steps.py:1778) is what a Stop of a running step leaves, but a Stop whose
  close of the client comes late, or a second press ("two presses are one stop", steps.py:1811), may cancel the run while
  its recorder is closed (`StopLands` at `closing`): the cancel is taken back at the capture and not there, no `end` is written, and `drive` ends the attempt `failed`.
  A session taken up or raised does not know where its last `submit` was (`after_submit` begins as `None`), so "what came after the last
  `submit` call" (step.py:718) does become part of the artifact. The repair of a missing object is a turn of its own kind, `submit`, which
  `KINDS` (resume.py:28) does not take up: an update in it ends a run `failed` whose artifact is written. And a resumed `impl`
  is not given the open findings again, so it cannot claim one for a person.
- Pull requests: a reader stopped between its `merged` row and the `ship` row leaves the latter unwritten; a process that dies between asking a rerun and its
  row asks again; two pull requests at one head do not see each other's rerun (`RedIsReal` is stated of
  one); the board's list may be older than the last push, so a `ci` may be written at a head that is
  past until the reader corrects it; and `ship` may write `merge-requested` over what the reader just recorded.
- The loop: "they all become stale until each writes a new record" (docs/architecture/fsm.md:129) fails of `pr`. The machine
  that follows a pull request answers a second press of `pr` with `already` and writes no row, unless the press is a rerun of `pr`
  itself on an open one (prmachine.py:661-665). When `pr.md` went stale by a rerun of an earlier stage, or by its own rerun that was
  refused or met a merge asked for, the loop names `pr` (tests/units/test_board.py:863: "`pr` to run again, not a wait"), each run of it
  writes nothing, and the rerun that would write is refused because `pr.md` is stale already (rerun.py:75). Closing the
  pull request is the way out. `SomeoneCanMove` names the case, and `StaleIsWritten` in the module says what is meant:
  it fails after a plan, its `impl`, a `pr` and a rerun.
- The loop: "`review` may begin only on an open pull request" (repo_rules.py:311), but the gate asks whether one is recorded
  and for its checks, so one that was closed may be reviewed until the reader's next walk has recorded it.
- Autopilot: a pass reads the run log before what runs. A step that ends between the two is neither
  failed in the one nor running in the other, and is queued once more although `decide.py` says it is
  not; `RetriesBounded` states the bound this leaves (one more try, one blind step). Rounds that drop
  findings, passes, waits for a person and an `impl` that pushes nothing count as nothing, so only the
  day's money stops a loop of those.
- Triggers: a due row left because the log could not be read outlives a later end that started the follower at
  once, so the older result is handed after the newer; a process that dies between the end of a run at
  its ceiling and `_turn_off` leaves its agent on, and so does a turn-off that fails, which is logged (`CeilingHolds` counts neither);
  a due row whose `DELETE` meets a busy store after its run began (triggers.py:912) hands that end over once more (`EndHandedOnce` has the
  two as one step); a publish
  off the loop would leave `_RUNNING` set for ever, though nothing publishes there today.
- Wheels: the comment of `_fetch_lock` says "a wheel handed to `finish` is never replaced underneath it"
  (updater.py:236). A local build takes no lock: one that began before the trial of the local channel and
  ends in it removes the target, which was read before; every session is then paused for an
  install that fails. One that ends before the target is read is applied in the place of the
  one the person saw, without being asked again whether it is newer. Both are the exception of `HandedIsSound`.
  A check that had seen no apply before the press goes on to replace `release/` although "the channels stay as
  the person saw them" (updater.py:380), and the apply that waits for its lock takes what it finds. After a `finish` that was
  killed before `last.json` was written, a local build runs without a wheel to go back to and every Apply is refused.
- Integration: "A rebase left in progress by an integration this run log shows cut is aborted first"
  (integration.py:383), and a test takes a restart to leave "Gebo's `start`, and nothing after it"
  (tests/github/test_integration_completion.py:105). But `recover` at the next start, `_cancelled` at a shutdown and
  `_end_unresumed` after an update each write the `end` that hides the cut, so only a run whose process id
  still reads as alive is seen. The rebase stays, and every later press is refused until a person aborts it:
  `CutIsSeen` in the module says what is meant, and fails on a press, a stopped rebase and a session not taken up.
  A poll that gives up while GitHub rebases later leaves a tree that is `stale`, refused the same way. When the pull request
  moved during a completion, its end moves the tree off the commits that were never pushed (`swept`).
- Releases: "Every press leaves one `release` record" (features/release/__init__.py:7), but one that is cancelled, killed or meets
  a busy run log leaves none. If that was the `opened` one, its pull request is not the app's any more and Merge and tag is refused for
  it; a person can merge it, and the app then tags. A press that failed after its push leaves the branch on GitHub, and the next Prepare of
  that version is refused at its own push until somebody removes it.
- Held board: a change told during the very first read of a workspace is not read again, and a read
  that raises takes the changes told before it along; `BoardIsCurrent` is about a held board.

Outside `Update` (rows of the run log), `TurnOff` and the `opened` record of a release, the modules take a write to
`cos.db` as one that succeeds; what the code does when the store is busy in between is not shown.
A raise goes on in a new attempt: that `adopt` also takes over one left `running` with no task matters at a start,
where `Update` has it. In `Attempts` a raise finds one only while the app goes down, and the process ends before that run does anything.

The safety properties are stated of what the code does, these included: `HeldIsWorkedOn`
counts a stuck task's entry as a holder, `NoIllegalMove` is about steps and integrations,
`EveryAttemptEnds` names its two exceptions, and `AdmissionInOrder` is about what the scheduler admits.

## 3. The proofs

A theorem holds for every value of the constants: any units, attempts, rows, rounds, wakes, commits, crashes. The bounds
above are TLC's alone. Every safety and action property of a passing run is a theorem; the ones about liveness are not.
No theorem takes more than the `ASSUME`s of its module.

| Module | Theorem | Property |
| --- | --- | --- |
| `AttemptsProofs` | `Invariance` | the inductive invariant `Inv` |
| | `TypeCorrect` | `TypeOK` |
| | `OneAttemptPerUnit` | `OneUnfinishedPerUnit`, which the lock rests on |
| | `AttemptsKeepTheLock` | `KeepsUnitLock`: every behaviour of `Attempts` is one of `UnitLock` |
| | `CoroutineOwnsItsRow` | `RowsMatchTasks` |
| | `OnlyLegalMoves` | `NoIllegalMove` |
| | `NothingLeftHeld` | `HeldIsWorkedOn` |
| | `StopIsNeverLost` | `StopShows` |
| | `EndingIsFinished` | `StopNeverHalfway` |
| | `WakesAreNeverLost` | `WakeFollows` |
| | `SlotsAreGivenInOrder` | `AdmissionInOrder` |
| | `OnlyRaisesGoOverCapacity` | `SlotsWithinCapacity` |
| `UpdateProofs` | `UpdateIsTyped` | `TypeOK` |
| | `TrialsAreForSomething` | `TrialIsNotForNothing` |
| | `RunsAreOnePerUnit` | `OneRunPerUnit` |
| | `SessionsAreTakenUpOnce` | `TakenUpOnce` |
| | `NewerWorkIsKept` | `NotOverNewerWork` |
| | `UpdateKeepsTheLock` | `KeepsUnitLock`: every behaviour of `Update` is one of `UnitLock` |
| `WorkProofs` | `PullsKeepTheirWord`, `RunsKeepTheirWord`, `ReleasesKeepTheirWord` | the inductive invariants `PullInv`, `RunInv`, `ReleaseInv` |
| | `WorkIsTyped` | `WorkTypeOK` |
| | `MergesAreReadyInWork` | `MergedWasReady` |
| | `RedIsTwiceInWork` | `RedIsReal` |
| | `StagesEndSoundly` | `DoneIsSound` |
| | `StoppedIsWithheld` | `Withheld` |
| | `ReleasesAreMade` | `ReleasedIsMade` |
| `LoopProofs` | `MergedWasReviewedInParts` | `MergedWasReviewed` |
| | `NamedIsOpenInParts` | `NamedIsOpen` |
| | `SomeoneCanMoveInParts` | `SomeoneCanMove` |
| `TriggersProofs` | `EndHandedOnceInParts` | `EndHandedOnce` |
| | `LeifWithinDayInParts` | `LeifWithinDay` |
| | `CeilingHoldsInParts` | `CeilingHolds` |
| `WheelsProofs` | `HandedIsSoundInParts` | `HandedIsSound` |
| | `WayBackInParts` | `WayBack` |
| `PartsProofs` | `PartsAreTyped` | `PartsTypeOK` |
| | `BoardIsCurrentInParts` | `BoardIsCurrent` |
| | `WakeIsServedInParts` | `WakeIsServed` |
| | `RetriesBoundedInParts` | `RetriesBounded` |
| | `NothingPushedBackInParts` | `NothingPushedBack` |
| | `LocalWorkKeptInParts` | `LocalWorkKept` |
| `FetchesProofs` | `Invariance` | the inductive invariant `Inv` of `Fetches` |
| | `FetchesKeepTheirPromise` | `KeepsPromise`: every behaviour of `Fetches` is one of `TrunkReads` |

Hardly any of the properties is inductive alone. What follows says, part by part, what had to be added to it: it is what the code
relies on between two awaits without ever checking it.

A part of `MCParts` or `MCWork` is proved of its own module first, and then of the composition: a step of `PartsSpec`
or `WorkSpec` is one of the part, or leaves its variables alone. A part's invariant holds of it while it is the one at work
(`AutoPart`, `BoardPart`, `LoopInvInParts`), or at any time, where nothing about it depends on that.

### Attempts

`Inv` is the type, the unit's lock, `NobodyRaises` (no raise is on its way while the process is down) and, for each
attempt, `Sound(i)`:

- `TaskFits`: the coroutine it has fits its state and its machine, and one that nobody works on is
  not in a state only a coroutine could have left;
- `StopRemembered`: a `stop_requested` in memory is a Stop on the row;
- `LeftBehind`: what `_recover` has still to come to has no coroutine and has not moved since the
  rows were read, and a Stop it read is still there;
- `HoldRow`: a hold has no Stop, and only a hold is told `Illegal`;
- `CancelIsStop`: with the queue open, a cancelled task was cancelled by a Stop;
- `WorkedOn`, `StopShown`: the two properties themselves, attempt by attempt.

A wake (`Woken`, `Launched`) may touch any queued row in any handler. The proof deals with it once:
`WakeKeeps` says that an attempt that was `Sound` and is admitted is `Sound` with its new task, and
`CommitEffect` and `HandlerStep` reduce each handler to what it does to its own attempt, every other
one being a `Bystander`. Then there is one lemma per action group (`PreparesInv`, `DrivesInv`,
`IntegratesInv`, `HoldsInv`, `ClickInv`, `HoldBeginsInv`, `RaiseActsInv`, `StopInv`, `UpdatesInv`,
`GoesDownInv`, `BootsInv`), joined in `NextInv`.

The three action properties are about what the wake does, not about who woke. `StepsWake` sorts every step of the
module into three: it leaves the rows it handled as a wake leaves them (`Wakes`), it ends a queued attempt at once for a
Stop whose flag woke the queue before (`EndsQueued`), or it changes no row and calls off no update (`Rests`). What is left is the scheduler by itself. Whom it admits is the set of the first so many queued rows of a slot, so
`WakeFills` (nobody is left beside a free slot), `WakeWithin` (no more are given than are free) and `WakeInOrder` (no younger one passes
an older) count that set; `HasOldest`, `HasYoungest` and the library's facts about finite cardinalities are what they count with.

`SlotsWithinCapacity` adds up both halves of a handler. What the handler itself does before it wakes the queue never makes more attempts hold a
slot (`HandledHolds`: it opens none but `queued` ones, a raise excepted, and no move leads from a state that holds nothing to one that does),
and the wake gives no more than are free (`WakeHolds`); two wakes in one handler are the same sum twice (`StepWithin`).

For the lock (`AttemptsKeepTheLock`) a step either opens no attempt or opens one (`StepOpensOne`), and a wake is a stutter (`WakeSameLock`).
Opening none only gives units up (`OpensNoneGivesUp`): the rows that are over stay over, and by `OneUnfinishedPerUnit` what one of them held
is then empty, not held by a second one. Opening one takes a free unit (`OpensTakes`), and its id is newer than all before because
ids are given in order (`IdsInOrder`), the one thing the mapping needs that no property here asks for.

### Update

Two invariants. `AttInv` says who is at work: a run holds its attempt (`RunsHold`), no unit has two that are not over
(`OneLive`), and `Phases`, that nobody runs in a process that is down and that one row at a time is being claimed, by a unit that has no other
work at that moment. `OneRunPerUnit` follows: what is taken up does not ask whether the unit is free a second time, but nothing takes a
turn between the question and the claim.

`LogInv` says what the run log knows of sessions that wait. `TakenUpOnce` does not follow from "a `resume` row is written first" alone,
because the rows read at a start are a copy: `TodoWaits` says that each is still unanswered and is there once, `TakingIsNew` and
`TakesAnswered` that what is claimed, and all that ever was, has its `resume` row. `WaitsOnce` (no session waits in two
`suspend` rows) needs `NoneRunsThatWaits`: a session that runs, or is just being paused, does not wait already - which is not so for the
moment between the rows of a pause and the exit (`Pausing`), where the coroutines are still there. `NotOverNewerWork`
rests on `Newest`, which every entry another unit or a refusal writes in between has to leave alone.
`TypeInv` is for the types.

`UpdateKeepsTheLock` takes from the step of `AttInv` that every action only moves attempts on or opens one (`MovesOrOpens`): `Later` is a
giving up (`MovesGiveUp`), an opening a take. A claim at a start, or after a failed hand-off, is an opening like a click, and
it is `Phases` that says its unit is free then.

### Runs, pull requests and releases

`RunInv` says that until its reply is read a run is not done; that a run which waits for its object is, with its artifact
there; that nobody has stopped one that waits in a turn of its own; and that an agent's end leaves nothing of a
stage. `ConcludesIs` and `SubmittingIs` say of `_conclude` where it may leave a run, and `Lands` is the one place where a road
into it (the reply, the progress file, the repair, the turn for the object, a Stop, a break) is shown sound.

In `PullRequest` every call is an await, so all that a step, a read or the walk keeps is old when it is used. `PullInv` says how
old: it is of a pull request of its unit and of no head past the branch's (`RowsKept`, `JobsKept`, `ReadsKept`, `WalkKept`), and what
it says of the head that is still the last one is so. For `MergedWasReady` that is `Decided`: a step that is about to merge the
present head has its green checks and its round, because whatever could take them away moves the head or waits. `RedIsReal` takes
more: the red runs that a read or a row counts are no more than there were (`ReadsKept`, `Asked`), and one read
alone asks for a rerun of a head (`Recording`, which is what `_RERUNNING` is for). It is of the only pull request, as the property is.

`ReleaseInv` says what a press knows that stays true to its end (`PressKnows`) although each call may fail or lose its
answer, and others work on the same branch and `main`: an open pull request is the only one of its branch (`OneOpen`), the `opened` record
names a head the app made (`OwnHeads`), what is merged is in `main` (`MergedIn`). The merge is pinned to the recorded head, and
that head, if the branch still stands on it, passed.

`WorkTypeOK` needs the bounds as well (`PullBounds`, `RunBounds`, `ReleaseBounds`), on top of those invariants. Its one hard place is
`Runs`: a text that is kept is a prefix of what was said (`SafeIsPart`), a run paused at a ceiling says at which, and
`_conclude` leaves of a run all but where it is, how it ended and the object it holds (`ConcludesFollows`).

### The loop

The rules keep no state, so `NextStage`, `FilesOpen` and the gates are compared by cases: `NamedIsOpen` and `SomeoneCanMove` hold of
what the rules read, given `StatusTypes` (only a review asks for changes) and `Opened` (a pull request has its head, and
an accepted `pr` its pull request). `Followed` says that a pull request which is being merged, or is merged, is the one the machine
follows: no press opens a second one beside it. `MergedWasReviewed` crosses the await of a ship: `Pinned` says that the head a merge is pinned to is green
as long as it is the pull request's, and `Reviewed` that a round passed it or the head it is a clean rebase of, with every
finding any round up to it rated high fixed, or answered by a person. `PassedStays` keeps this over later rounds, pushes and answers.

### Triggers

`RowsInv` relates the three places an agent is known in: a run that goes holds its agent and an agent is held by a run that
goes (`Holds`), what is due follows an end that was heard (`DueIsHeard`), and an end that has started a follower is not due any more
(`HandedOnce`, which is `EndHandedOnce` with the due row). For `CeilingHolds`, an agent over its ceiling that is still on is held by the very run that will turn it off
(`OverIsOff`). `DayInv` is about a count made in a thread: while one caller counts nobody else does, it saw every caller that has a place, and no more
places came since than it saw given up (`CountIsSafe`); so what is placed never goes beyond the day (`PlacesWithinDay`), though
the sets it is compared with were read at different times.

### Wheels

`WheelsInv` says who may write under `updates/` (`Locks`), what a channel that is offered or applied holds (`Offers`), what an
apply was handed (`Applies`), and where the wheel of the installed version is, across a process that died in an install or in the
promotion of the next start (`Ways`). `rebuilt`, a local build that ended since the press, is where `Offers` and `Applies` stop, as does the property.

### Boards, the autopilot and integrations

`BoardInv`: nothing shown or told is of a change to come (`NotAhead`), and who waits for a board made anew has a read that began late
enough or is to be made again (`WaitIsForNew`).

`AutoInv`: what a pass read in the run log may be one step of the autopilot behind and no more (`ReadIsRecent`), no step
goes blind before one has failed (`BlindAfterFailure`), and what it chose has nothing of the autopilot under way (`ChoiceIsSound`). The bound
of `RetriesBounded`, one try and one blind step more than the setting, is the gap between those two reads.

`BranchInv`: the head a press read is an older one of the pull request (`Reads`: nothing it had is gone), the tree is at that head on the mechanical road
and on top of it in Gebo's hands (`Decided`), and in a tree that Gebo rebases, what the unit's own steps made is all of the head
that was read (`OnlyReadWork`). That is why the reset to what GitHub has loses nothing.

`PartsAreTyped` has the types of all eight, those bounds included.

### Fetches

A step of `Fetches` maps to a step of `TrunkReads` only where the future and the calls agree: when
one call fetches, it is the one that registered the future, and who joined has a future to wait for
(`OneFlight`). That and the types are `Inv`. `StepPromise` then has a step per action: a join and a
fetch are a `Wait`, a settled future is `GoesWell` or `Fails` with the calls it answers, a race on the
ref is a stutter and its second try `BeginsOver`.

### What the theorems rest on

| Theorems of | Assumptions on the constants |
| --- | --- |
| `AttemptsProofs` | `StoreAssumption`, `AttemptsAssumption`: the slot of no unit is no unit, there is a slot, bounds are numbers |
| `UpdateProofs` | `StoreAssumption`, `UpdateAssumption` |
| `FetchesProofs` | none |
| `WorkProofs` | `PullRequestAssumption` for pull requests (there may be a head and a pull request; the reader is no unit); nothing for the properties of runs and releases; `WorkAssumption` for types alone (there is a unit, finitely many of them; versions, and states of the files, begin at one) |
| `LoopProofs`, `TriggersProofs`, `WheelsProofs`, `PartsProofs` | `PartsAssumption`, which is each part's own (`LoopConstants` to `IntegrationsConstants`): bounds are numbers, marks are the loop's, a follower has a leader, a call is no run, a local build has a number |

TLC evaluates each of them on the run of the module that states it.

### Only model-checked

`EveryAttemptEnds`, `PendingEnds`, `SuspendsAnswered`, `MergeIsRecorded` and `CiCatchesUp`: liveness under fairness is beyond the
prover. The six statements of the code's comments that it does not keep are counterexamples, and TLC's.

## 4. The plan

Done: `UnitLock`, `AttemptStore`, `Attempts`, `AttemptsProofs`, `Update`, `UpdateProofs`, `PullRequest`, `Loop`, `LoopProofs`, `Autopilot`,
`Triggers`, `TriggersProofs`, `TrunkReads`, `Fetches`, `FetchesProofs`, `Boards`, `Wheels`, `WheelsProofs`, `Integrations`, `Releases`, `Runs`,
`WorkProofs` and `PartsProofs`. Next, in this order:

1. The promises the other components make, as abstract specifications their modules implement: `Boards` as a value that is never older
   than its readers' calls, `Triggers` as a queue of ends.
2. `Update`: sessions of Gebo, estimates and chat.
3. `Journal`: the checked append and the fold that says which starts are open, as recursive functions.
4. `Autopilot` over `AttemptStore`: the slots and the unit's lock its picks meet.

### Not modelled

Backlog, ideas and proposals, packs, policies, prompts, models, chat, spend, notices, the graph of the code,
routes, login and the page: text, configuration, formatting and I/O, each read or written in one call, with hardly a
decision between two awaits. So is the vault, which keeps secrets as rows and encrypted files, each call one piece of work in a thread. Work trees and git itself, what builds and installs a wheel, migrations of the store: outside
processes and one-way steps whose outcomes are choices where a model meets them. They are most of the code by
lines; `PROJECT.json` lists them by component.
