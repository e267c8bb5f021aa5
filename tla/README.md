# A verified model of birddog

birddog watches coding-agent sessions from outside and tells an orchestrator
when one of them needs attention. It must never report what it did not see,
never lose a verified exit that nobody has collected, never flood the
orchestrator with one alert or starve the consumer of its event feed, and never
forget what it was asked to watch. These modules model the parts of the program
that carry those promises. TLC checks them on small instances; TLAPS proves every
safety property of them that holds for every instance size.

Contents: [the system](#the-system), [modules](#modules),
[runs](#runs-and-their-bounds), [proofs](#proofs), [findings](#findings),
[what is not modelled](#what-is-not-modelled), [plan](#plan).

## The system

Paths are below `internal/`.

| part | source | state it keeps | operations | what is hard |
|---|---|---|---|---|
| event feed | `store/events.go`, `store/retention.go`, `daemon/daemon.go`, `daemon/wait.go` | events, retention floor | append, page after a cursor, newest cursor, prune, long poll | queries that are not one transaction; retention racing readers, acknowledgements and a restart |
| observation pass | `monitor/monitor.go`, `platform/wake` | floors, lost targets, follows, in memory | one pass over all targets | many transactions per pass, any of which can fail; what memory forgets |
| attention policy | `policy/policy.go` | none | evaluate | thresholds, overrides, missing timestamps |
| derived state | `store/state.go` | one row per target | record, read | stragglers, replaced runs, the clock |
| incidents, deliveries | `store/incidents.go`, `store/delivery.go` | incidents, one delivery each | open or touch, notify, resolve, acknowledge, count attempts | dedup across restarts; an effect sent before it is recorded |
| watch list | `daemon/watch.go`, `daemon/sync.go`, `store/idempotency.go`, `config` | targets, policies, revision; key answers in the store | add, remove, update, sync, follow a file | retries, concurrent requests, a file that changes while it is read, a policy that stops asking |
| instance lifecycle | `platform/lockfile`, `ipc`, `instance`, `cli/prune.go`, `daemon.Start`/`Shutdown` | lock file, socket, registry record | start, stop, resume, prune | several processes over the same paths, crashes between any two steps |
| following a session | `monitor/monitor.go`, `store/follows.go`, `observe/claude.go`, `discover/claude` | follows, in memory and in the store; the process each target was seen in | observe, follow, resolve chains, forget | pids used again, partial listings, dead records, cycles, restarts, a followed id coming back |
| sighting a session | `observe/claude.go`, `observe/transcript` | none | read the registry, the hooks and the transcript | three sources of three moments; a window that may not reach far enough |
| other adapters | `observe/codex.go`, `opencode.go`, `process.go`, `files.go` | file watchers | observe | absence against exit |
| session hooks | `hooks/hooks.go`, `cli/hooks.go` | a directory of marker files per session | apply an event, read | handlers that run at once without a lock, events that never come |
| hook installation | `hooks/install.go`, `cli/hooks.go` | the operator's settings file, its backup, a temporary file | install, uninstall | death at any step, overlapping commands, edits by hand |
| transports | `notify/*` | none of their own | deliver | outcome unknown |
| codex discovery, opencode plugin, doctor, rendering, packaging | `discover/codex`, `instrument`, `cli`, `plugins` | none shared | | I/O and formatting |

How they meet. The daemon runs one loop goroutine, which follows the
configuration file, observes, and now and then applies retention; it is the only
writer of the event log and of `target_state`. One goroutine per connection
serves requests. They share the SQLite store (one statement or one explicit
transaction at a time), `cfgMu` (held for a whole pass and for a whole
watch-list change) and the channel a pass closes to wake waiting polls. An
instance is entered through its lock file, reached through its control socket
and listed through its registry record, which other processes (`start`,
`resume`, `stop`, `prune`) read and write.

What makes each part correct:

- **feed** - what is stored is exactly what follows the retention floor; an
  uncollected verified exit outlives the window by its hold; a `status` and the
  feed after its cursor miss nothing between them; a consumer that keeps asking
  gets every event or is told where to start again.
- **pass, policy, state, incidents, delivery** - after a complete look the open
  incidents are the conditions that hold, of the current run; an alert is sent a
  bounded number of times and never again once its outcome forbids it; an exit is
  recorded once and never followed by `overdue`; silence that was not witnessed,
  or that was authorised, is not measured.
- **watch list** - a keyed request is applied once; a repeated sync changes
  nothing; a deadline chosen by an update stays; no deadline that a file or an
  update wrote is in force where it cannot alert; every save of a followed file
  that can be read is read.
- **following** - a target is only ever moved within one process; memory and store
  agree on where; an exit is concluded of a process that is gone, as far as `ps`
  answers; a process that lives on under another id is found again; a conversation resumed under its id is
  watched there.
- **sighting** - a request that is reported has its evidence; a session that is
  blocked is not said to have been looked at and found unblocked; an exact question
  is one the session is blocked on, unless a kill left it behind.
- **hooks** - what is outstanding is reported and what is over is not, whatever
  handlers run at once.
- **installation** - the settings file is never torn and loses nothing of the
  operator's; what is replaced is in the backup; success means complete, of what a
  later command recognises.
- **instance** - two daemons never use one database; a running one is reachable
  and listed; nothing a crash leaves behind stops the next start.

## Modules

| module | models | variables and what they stand for |
|---|---|---|
| `Feed` | the log, retention, `status`, `events` with its long poll, `ack`, restart | `hist` every event ever recorded (its index is the AUTOINCREMENT seq), `rows` the seqs still in the table, `floor` = `meta.retention_floor`, `state` the last event each `target_state` row reflects, `incidents` exit incidents, `loop` the loop goroutine's locals, `reader` the locals of each consumer's request and the cursor it holds |
| `Policy` | `policy.Evaluate` as operators on one observation | none |
| `Monitor` (EXTENDS `Policy`) | `monitor.Tick`: sighting, generation, repeat suppression, `Record` with `applyState`/`applyReason`, `OpenOrTouchIncident`, delivery, `ResolveIncident` | `state`, `incidents` (an incident with its delivery), `hist` as tables; `mem` what the process keeps between passes; `loop` the pass under way; `looked` is history: what each target's last completed look established |
| `WatchList` | `watch add/remove/update/sync`, `followFile`, `priorResult`/`remember`, the start over a file | `watch add` in the form of the file and in the older in-memory one; `disk` the file with a version per save, `config`, `revision`, `known` (stamp and last error) in memory; `answers`, `overdue` in the store; `caller` each connection; `history` for properties only |
| `Instance` | `Start`, `Shutdown`, `lockfile.Acquire/Release`, `ipc.Listen/Close`, `Register`/`MarkStopped`/`Deregister`, `resume`, `prune` | `lockFile` the file the lock path names (a file is named by the daemon that created it), `socket` whose socket file the control path names, `record`, and per daemon where it is in which sequence, what it opened, what it holds |
| `RetainedLog` | what the feed promises: a log that grows at its end, is forgotten from its beginning, and is read in order | `log`, `base`, and per consumer `pos` and `mode`; abstract, no code of its own |
| `Registry` | Claude Code's session registry as birddog finds it, and its listing | `process` and `record` per pid; `held` is history. The processes are external |
| `Follows` (EXTENDS `Registry`) | `Claude.Observe` with `successor` and `absent`, `sightResolved`, `follow`, `RecordFollow`, `loadFollows`, `ResolveFollows`, `Forget`, the comparison a sync makes, restart | `file` and `att` the target as written and as in force, `seen` what the adapter learned, `links` and `loaded` of the monitor, `rows` the `follows` table, `feed` the ids observed and announced, `pass` the pass under way; `home` is history: where the target lives |
| `Sighting` | `Claude.sighting`, `enrich`, and the transcript watcher with `Tail` and `Detect` | `lines`, `torn`, `turn`, `status` are the session's, which may be killed and taken up again; `look` the sighting as far as it has got; `blocked` and `killed` are history |
| `Hooks` | `Store.Apply` for every event and `Store.Read` | `exists`, `files` the session's directory, `todo` the file operations each handler still has to do; `phase` of each call is Claude Code's |
| `Settings` | `hooks install` and `uninstall`, `readSettings`, `writeSettings` | `inode`, `path`, `tmp`, `backup` the files, by inode because a command that was overtaken still writes the file it opened; `run` each command; `raced`, `unread` and `last` are history |
| `MCMonitor`, `MCWatchList`, `MCFollows`, `MCHooks`, `MCSettings` | instances for TLC: policies, files, requests, calls | |
| `Extrema` | lemmas: the least and the greatest of a set of naturals, induction, running sums, functions defined step by step | |
| `Feed_proofs`, `Instance_proofs`, `Monitor_proofs`, `WatchList_proofs`, `Follows_proofs`, `Sighting_proofs`, `Hooks_proofs` | the theorems about the module each is named for; `Hooks_proofs` also has those about `Settings`, which installs what `Hooks` models | |

An action is one atomic step of the code: one SQL statement or transaction, one
file-system call, one critical section of `cfgMu`. Where a handler is several
of these the model has one action for each, and `loop`, `reader`, `caller` or
`daemon` holds the handler's local variables between them. Helpers keep the
source's names (`After`, `LatestCursor`, `PruneBefore`, `GenerationFor`,
`KeepDeadline`, ...). A few operators follow a definition of nearly the same
name (`MaxSeqOnly` before `LatestCursor`, `StopOrderUnlockFirst` before
`StopOrder`): these are the same code with a plausible mistake in it, and exist
so that each property can be shown to fail on one.

Choices a reader should know of:

- *Feed* takes what a pass decides (which targets report, which exit, which run)
  as a free choice, because no property of the feed depends on why. It assumes
  successive passes get later times, as a ticker and a clock that is not set back
  give. A retention pass reads the clock, the window and the oldest row in
  one step (nobody else writes the log), the join with incidents in another
  (`ack` writes those) and deletes in a third.
- *Monitor* takes what the adapters return as a free choice from `Kinds`:
  nothing, a record whose process is gone, a live session with no readable
  status, with one, or a verified exit. Each pass reads a
  later clock than the one before; a jump (a sleep) is one that is more than a
  pass interval on. The
  transport's answer is free, and a store that fails during the look at a target may do
  so before or after the look has changed what is in memory; "unknown" stands for uncertain, suppressed
  and no recipient, which the code treats alike.
- *WatchList* keeps of a policy what deadlines and the override need, and of the
  pass what it does to `overdue`. A stamp is distinct for every save (the code
  uses size and modification time), and a save may turn out unreadable, for the loop
  and for a sync alike. What an update or a sync keeps depends on who wrote a
  deadline: the file (`written`), an update (`byUpdate`) or, in the in-memory form of
  `watch add`, neither. The list is rebuilt from the file when
  the process restarts, which is what `serve` does.
- *Follows* has one target, as follows are kept by target. A pass holds `cfgMu`, so
  requests fall between passes, while the registry may change between the two looks
  of one pass. What can be read and what answers is free at every look: records
  (`hidden`), `ps` about a record (`deaf`) and about the process of the target
  (`psFails`), the hooks of a session (`hookErr`). `Runs` is what the operating system
  knows and `SameProcess` what the code finds, which is "no" whenever `ps` fails.
  Properties compare with the former. A registry change in the last steps of a pass is taken to come after it,
  since they read nothing of the registry.
- *Hooks*, *Settings*: a file-system call is a step. Emptying a file and writing it
  are two, as `os.WriteFile` makes them. A file of `Settings` that has lost its last name
  and is open nowhere is gone, and its inode may be used again. A handler is known by
  its program: `Binaries` is what may be installed, `Named` those of them whose program
  is called birddog, and only these does `IsBirddog` recognise.
- *Sighting* takes what the hooks left as free: `Hooks` says when that is right. Sizes
  are in units: a message is one, an attachment two, the window three. A killed session
  (`Kill`) leaves the line it was writing unfinished and its menu unanswered; `Resume`
  is another process that takes the conversation up, idle, with a record of its own.
- *Instance* starts each daemon process at most once; `start` and `resume` launch
  the next one. A pid is not reused. `Owns(d)` is the time in which a daemon may
  have the database open.

## Runs and their bounds

| run | bounds | what it shows |
|---|---|---|
| `feed` | 2 targets, 1 consumer, 2 events, clock to 4, window 1, hold 2, pages of 1 | `ContiguousHistory`, `UncollectedExitKept`, `StatusCoversCursor`, `KeepsTheLog` and, under fairness, `FollowerCatchesUp`, under every interleaving of passes, retention, acknowledgements, requests and crashes. Two targets, because a status reads one before and one after an append; two events and pages of one, because a cut, a page and a cursor can then each fall between them; the clock passes window and hold with a unit to spare |
| `monitor` | 1 target, 2 session ids, 4 events, clock to 4, deadline at 2, 2 attempts, 1 fault | `IncidentsMatchLook`, `AlertsBounded`, `SettledAlertNotRepeated`, `ExitRecordedOnce`, `NoOverdueAfterExit`: runs replaced, sight lost and regained, each transport outcome, and one store failure or crash at any step |
| `monitor_silence` | 2 targets, the silence of one authorised until 2, thresholds of 1, missing and old timestamps, 6 events, clock to 4, 1 fault | `SilenceWitnessed` (a threshold can elapse before, across and after a loss; losing both targets at once is taken for birddog's own blindness), `OverrideHonoured`, and `IncidentsMatchLook` for the conditions of a live session |
| `monitor_run` | 1 target, 2 session ids, an unreadable status or an exit | refutes `ExitResolvesOverdue`, see findings |
| `watchlist` | 1 target, 2 connections, 2 keys, 7 requests, 4 files and a broken one, 2 asks, 1 save, 1 restart, 1 fault, clock to 2 | `AppliedOnce`, `SyncIsIdempotent`, `ChoiceInForce`, `DeadlineCanAlert`, `OverdueIsAskedOrTakenOn` and, under fairness, `FileFollowed`. Two asks are a change and its retry, or two changes around a save that may land between any two steps. The requests are the least that make each exception and each rule of `keepDeadline` happen: an addition of each form, a removal, three updates and a sync |
| `follows` | 2 pids, 2 ids, 2 processes, 3 records written, 1 edit, 1 fault (a failed write, or a follow lost to an error of the hooks), 1 restart; the file names a given id first, the two being alike | `FollowsInv`, `FollowsStayInOneProcess`, `ExitVerified`, `ResumedIsWatchedUnlessShadowed` and, under fairness, `FollowedInTheEnd`. Two processes may share a pid or not; three records are a session, a clear and a way back; the restart replays what the fault left |
| `follows_exit` | 3 ids, 4 records written, 1 restart | refutes `ExitIsOfHome`, see findings |
| `hooks` | 3 calls of 2 agents, two of one tool, one without an id, 1 mishap | `WorkIsReported`, `NothingStaleIsReported`: handlers of two calls, a turn's end and a death or the end of the session, operation by operation |
| `settings` | 3 commands, 2 binaries named birddog and 1 of another name, 2 events and one of the operator's, 1 handler of theirs, 1 save | `FileIsKept`, `ReplacedIsBackedUp`, `SuccessIsComplete`. Two commands are enough to share the temporary file, the third runs over what they left; events, binaries and commands are interchangeable, hence the symmetry set (the binary of another name is not in it). One save is enough to fall between any two steps, before, during or after the commands |
| `sighting` | window 3, 5 lines | `SightingInv`, `BlockedIsNotOverlooked`, `ExactIsBlocked`: a question, its answer, and more behind either than the window holds; a kill at any moment and the session taken up again |
| `instance` | 3 daemons, 1 prune at a time | `OneOwner`, `RunningIsReachable`, `StaleFilesDoNotRefuse`. Three daemons are needed for a release, a daemon that opened before it and one that starts after it |
| `instance_lock` | 3 daemons | refutes `ExclusiveOwner`, see findings |

Every bound is a `Max...` constant in a guard, or the size of a set in the
`.cfg`. They are small because the hazards are about order, not quantity: each
property has a plausible mistake in the code that makes it fail within them.
Deadlock checking is off where the bounds stop the system (clock, log length,
requests, daemons used up); `feed` runs check it.

**Fairness.** `feed` assumes that a consumer keeps asking and its handler
goroutine keeps running (`WF(Request(r))`), and that crashes end; it assumes
nothing of the loop, because a long poll must end without one. `watchlist`
assumes that the loop goroutine keeps taking steps while the process lives
(`WF(Loop)`): its ticker is stopped only by shutdown, and `cfgMu` is a Go mutex,
which does not starve a waiter. Nothing is assumed of requests or of the disk.
`follows` assumes that the loop finishes what it began (`WF` of `Follow` and
`Record`) and that, of infinitely many looks it could take at a registry all of
which can be read and answers, it takes one (`SF(ClearLook)`): an obstruction that
never ends is one no adapter could see past. Nothing is assumed of the sessions.

**Refinement.** `KeepsTheLog` says that `Feed` implements `RetainedLog`: the log is
`hist`, what is forgotten is the floor, a consumer that has the floor checked and
has not read the rows is asking. The abstract answer is the next entries in order,
as many as fit; only what was forgotten after the consumer asked may be missing
from it; only a consumer that missed something is told so, and it is never sent
back. That one exception is `After`'s two queries, see the deviations below.

**Exceptions written into properties** are windows the code leaves, not
conveniences, and each is named in the property's comment: `OneOwner` excepts a
lock taken on an unlinked file (the finding below); `RunningIsReachable` also a
`prune` that decided before the instance was resumed; `AppliedOnce` a retry sent
while the first request is still being served and an answer the store failed
to keep; `OverdueIsAskedOrTakenOn` targets taken on with an incident open and a
store failure; `FileFollowed` a save between a start's read of the file and its
stamp and one whose read failed; `DeadlineCanAlert` a deadline added in memory;
`ExitVerified` a `ps` that failed at that look; `ResumedIsWatchedUnlessShadowed` a dead record of the same id and an unreadable
hook directory; `FollowedInTheEnd` a failed write of the store and a follow discarded with
an error of the hooks; `WorkIsReported` a
turn of another agent that ended meanwhile and a namesake of a request without an
id; `NeverTruncated` and the other properties of `Settings` commands that
overlapped, `ReplacedIsBackedUp` also one that could no longer read the file when it came
to copy it, and `SuccessIsComplete` handlers of a program that is not named birddog; the second half of `SilenceWitnessed` (the threshold counted from the
regaining of sight, not only from its loss) a store failure and an exit restated, after
which the log no longer has every look; `BlockedIsNotOverlooked` a window that holds nothing but subagents'
messages; `ExactIsBlocked` the instant in which the answer is being written, and an ask left by a kill
until the session has written a line of its own. Those that contradict
what the repository says of itself are among the deviations below.

## Proofs

Checked by TLAPS for every value of the constants that the `ASSUME`s of the module
allow. They are what the code establishes before the modelled steps run: bounds are
naturals, an empty name is no session and no key, a policy is well formed
(`MonitorAssumption`), a file or a request is one the parser and `ValidateTarget` let
through (`ContentsAssumption`, `RequestsAssumption`), the commands are finitely many and
no handler is both one installed as birddog and the operator's (`SettingsAssumption`). TLC evaluates each of them in the
runs. Every theorem below whose middle column is a single name is `Spec => []P`, or
`Spec => P` where P is an action property; `P` is the property of the runs with the
same definition.

| theorem | states | carried by |
|---|---|---|
| `Feed_proofs!FeedTypeCorrect` | `TypeOK` | `FeedInv` |
| `Feed_proofs!HistoryIsContiguous` | `ContiguousHistory` | `FeedInv` |
| `Feed_proofs!UncollectedExitsAreKept` | `UncollectedExitKept` | `FeedInv` |
| `Feed_proofs!StatusCovers` | `StatusCoversCursor` | `ReaderInv` over `FeedInv` |
| `Feed_proofs!FeedKeepsTheLog` | `KeepsTheLog`: `Feed` implements `RetainedLog` | `ReaderInv` over `FeedInv`, action by action |
| `Monitor_proofs!MonitorTypes` | `TypeOK` | `MInv` |
| `Monitor_proofs!LooksAreMatched` | `IncidentsMatchLook` | `MInv` |
| `Monitor_proofs!AlertsAreBounded` | `AlertsBounded` | `MInv` |
| `Monitor_proofs!SettledAlertsStay` | `SettledAlertNotRepeated` | `MInv` |
| `Monitor_proofs!ExitedIsNotOverdue` | `NoOverdueAfterExit` | `MInv` |
| `Monitor_proofs!OverridesHold` | `OverrideHonoured` | `MInv` |
| `Monitor_proofs!ExitsAreRecordedOnce` | `ExitRecordedOnce` | `ExitInv` over `MInv` |
| `Monitor_proofs!SilencesAreWitnessed` | `SilenceWitnessed` | `SightInv` over `MInv` |
| `WatchList_proofs!WatchListTypes` | `TypeOK` | `WInv` |
| `WatchList_proofs!RetriesApplyOnce` | `AppliedOnce` | `WInv` |
| `WatchList_proofs!SyncsAreIdempotent` | `SyncIsIdempotent` | `WInv` and lemmas on `Synced` |
| `WatchList_proofs!ChoicesStand` | `ChoiceInForce` | `WInv` |
| `WatchList_proofs!DeadlinesAlert` | `DeadlineCanAlert` | `WInv` |
| `WatchList_proofs!OverdueAccounted` | `OverdueIsAskedOrTakenOn` | `WInv` |
| `Follows_proofs!FollowsStay` | `FollowsStayInOneProcess` | `FInv` |
| `Follows_proofs!FollowsAreSound` | `FollowsInv` | `FInv` |
| `Follows_proofs!ExitsAreVerified` | `ExitVerified` | `FInv` |
| `Follows_proofs!ResumedIsWatched` | `ResumedIsWatchedUnlessShadowed` | `FInv` |
| `Sighting_proofs!SightingsAreSound` | `SightingInv` | `SInv` |
| `Sighting_proofs!BlockedIsSeen` | `BlockedIsNotOverlooked` | `SInv` |
| `Sighting_proofs!ExactBlocks` | `ExactIsBlocked` | `SInv` |
| `Hooks_proofs!WorkStaysReported` | `WorkIsReported` | `HInv` |
| `Hooks_proofs!NothingStaleStays` | `NothingStaleIsReported` | `HInv` |
| `Hooks_proofs!SettingsFileIsKept` | `FileIsKept` | `SettingsSound` |
| `Hooks_proofs!SettingsAreBackedUp` | `ReplacedIsBackedUp` | `SettingsSound` |
| `Hooks_proofs!SettingsAreComplete` | `SuccessIsComplete` | `SettingsSound` |
| `Instance_proofs!OneOwnerHolds` | `OneOwner` | `IInv` |
| `Instance_proofs!TypeCorrect` | `TypeOK` | `IInv` |
| `Instance_proofs!RunningStaysReachable` | `RunningIsReachable` | `ReachInv` over `IInv` |
| `Instance_proofs!StaleFilesNeverRefuse` | `StaleFilesDoNotRefuse` | `ReachInv` over `IInv` |

**Why the properties are not inductive.** Most speak of what is stored, while what goes
wrong is decided earlier, by a handler that then waits. Each invariant says what the
locals of the handlers promise on the way.

*Feed.* `UncollectedExitKept` speaks of rows already deleted, but the decision to delete
is taken two steps earlier, from values the pass carries (`cutoff`, `byAge`, `from`)
while acknowledgements land. `FeedInv` is `TypeOK`, `ContiguousHistory`,
`UncollectedExitKept` and `LoopInv`, which says what those values promise at each stage
of the pass: the newest cursor and the oldest row within the window are still what they
were, and every exit below the cut may be dropped. It survives the steps in between
because only the loop writes the log, an acknowledgement is never taken back and the
clock never falls behind a cutoff. `ReaderInv` adds the consumers: every row of the log
is reflected in its target's state (`StatesReflect`), and what a `status` has read so far
covers its cursor for the targets already read (`Informed`). The refinement follows from
both: recording is `Append`, retention `Forget`, a page the entries from the consumer's
position on, and every other step leaves `log`, `base`, `pos` and `mode` alone.

*Monitor.* `MInv` is six conjuncts. `Types`; `Announced`, that an alert under way is of
an open incident that may be attempted; `Alerts`, the count of what was sent, recorded
and lost for each incident, in which the alert that has left but is not on record counts
as due (`Due`); `Look`, that the conditions a pass does not close are open already or in
its list; `Runs`, that the log says last of the current run what the row says, and that
no pass owes `overdue` to a run it knows exited; `Override`, that what a pass is about to
open for silence was measured from the end of the override.

*An exit, recorded once.* `ExitRecordedOnce` counts: the restatements of an exit are at
most the faults plus the further attempts at its alert. Neither side moves with the
other: a fault is counted when it happens and may be used by a restatement passes later,
while a restatement for an owed alert is recorded before the alert is sent. `ExitInv`
closes the gap with `Level`, which is -1 while a fault already counted may still cause a
restatement (the look was cut short and no attempt is owed), 1 between a restatement and
the attempt it was made for, and 0 otherwise, and shows that count <= faults + attempts +
`Level` is kept by each step. That needs to know which incident the attempt is of
(`OneOpen`), that an owed alert was sent once before (`SentFirst`), and that a pass over
an exited target opens nothing but the exit (`PassKnows`). The counts themselves are sums
over the list of incidents, for which `Extrema` has `SumsRise`, `RiseAlike` and `AllNaturals`.

*Silence, witnessed.* `SilenceWitnessed` compares an incident with events recorded long
before it, while the code compares with a floor it keeps in memory. `SightInv` ties the
two: the floor of a target in sight lies after every event that lost sight of it since the
process started, and a silence a pass is about to open was measured from such a floor
(`Witnessed`), which stays true as the clock moves on. When the store fails in the middle
of a look, memory may have moved and the log not, and an exit that is restated moves
memory without an event. Both only push the floor later, so the half about the loss of sight
survives them; the half about regaining it needs every look to be on record (`Whole`),
and then says that the floor is no earlier than the first event after the last loss and
that sight is lost exactly when there is none.

*WatchList.* `WInv` is `Types`, `InForce` (a policy in force asks about the
deadline it has, or nobody wrote it; a deadline chosen by an update is still the one in
force; an open overdue nobody asks for is one `history.orphaned` accounts for) and
`Applying` (of the keys not excused, at most one connection serves each at a time, none
that has still to apply it once it was applied, and what was applied is answered or about
to be, so that a later retry finds the answer).
`SyncIsIdempotent` rests on the algebra of one sync instead: `ResyncedTwice` shows that
an entry synced twice with one file is the entry synced once.

*Follows.* `FInv` is `TypeOK`, `RegistrySound` (a record was held by its process, and
running processes share no session), `RowsSound`, `TargetSound`, `MemorySound` (links in
memory are the replay of the rows) and `PassSound`. That no follows lead in a circle is
`Tidy`: no row leads out of an id that a later row leads out of or to, because recording a
follow deletes the rows that would, so the ids can be ranked with every link going down.

*Sighting.* `SInv` is about the transcript: a question asked is closed by an answer or
a message of the user, unless it is the line still being written, the one that blocks or
one a kill left with no line of the session's own behind it,
and behind that one only subagents and attachments write. What a look reports is then
a matter of which lines its window holds.

*Hooks.* `HInv` says which markers the handler of a call may still write or remove given
what has become of the call (`HandlersSound`), that every marker has a call that wrote
it, and that what is to be there, or gone, either is or is still on a handler's list
(`WorkSound`, `AnswersSound`, `TurnsSound`). The handlers never see each other, so the
invariant is of one list at a time.

*Settings.* What a command puts in place was decided when it read the file, and survives
in between only if nobody else touched the file, the backup or the temporary file.
`SettingsSound` says that a command nothing overlapped is the only one under way
(`RacesSound`), that the temporary file it opened still has that name and holds what it
wrote (`WritesSound`), also when a command died and left one behind, that the backup is the
file from the copy to the rename (`BackupSound`), that the document it carries is what was
asked (`AsksSound`) and, until anything overlaps, the operator's (`TheirsSound`). Three
things are needed beside it: an inode to create a file in is always free (`FilesSound`,
`TmpSound` and a count of those in use), two commands under way are both known to be
overlapped, and no event ever has two handlers of birddog's (`Clean`), as nobody else
adds one; without that the shortcut of `matchesInstall` would report success over a stale one. What an install or
an uninstall does to a document then follows from lemmas on `Without`, for lists of any
length: what stays, that filtering twice is filtering once, and what an appended handler
changes.

*Instance.* `OneOwner` speaks of daemons in the middle of their sequences. `IInv` adds
what each holds at each step (`Sound`), that a file has one holder (`LocksExclude`), and
that, until somebody locks an unlinked file, every owner holds the file the path names
(`OwnersHoldTheNamed`). Two owners then hold the same file and are one. The interesting
case is the unlink: whoever else owned the store would hold the file this daemon holds, so
nobody does. That is also where the argument stops being true once the file opened is not
the one named. `ReachInv` adds that the socket path is clear from the removal of the
stale socket to the bind and the daemon's own from the bind to its close.

**Induction.** The library's induction theorems take an operator, which none of the
installed provers instantiates. Where a proof needs induction over a count (a walk along
follows, a sum over incidents) it is done by the least counterexample: `AllNaturals` of
`Extrema` says that a set of naturals that holds 0 and each successor holds all, and
follows from `MinIsLeast`; `Iterates` is the same for a function defined step by step,
and `AllLists` of `Hooks_proofs` for lists: a set that has the empty list and, of every
list in it, all continuations by one, has them all. `Without` is a recursive function
rather than `SelectSeq`, so that these apply.

**Only model-checked.** `FollowerCatchesUp`, `FileFollowed` and `FollowedInTheEnd` are
liveness under fairness, out of the prover's reach. Every other property of a passing run
is proved. `ExclusiveOwner`, `ExitIsOfHome` and `ExitResolvesOverdue` are refuted, see below.

## Findings

1. **Two daemons on one database** (`instance_lock`, `platform/lockfile`). `Release`
   unlinks and then unlocks; `Acquire` opens the path and locks what it opened
   without looking whether the path still names it. A daemon that opened the file
   before the unlink locks a file nobody else will ever lock, and a third one
   starts beside it. The comment at the unlink says no one can be mid-acquire.
2. **A session reported exited that runs** (`follows_exit`, `observe/claude.go`,
   `monitor/monitor.go`). `follow` writes the process of the follow into a target
   whose definition names none, and from then on `successor` and `absent` treat that
   process as named by the operator: followed from A to B, resumed under B in another
   process, seen live there and then cleared, the target is looked for in the first
   process, which is gone, and a verified exit is reported. `docs/cli.md` says the
   identity comes from the passes that saw the session where the attachment names none.
3. **An overdue that outlives the exit** (`monitor_run`, `monitor/monitor.go`,
   `store/state.go`). A session at a target that the row does not name is given the
   next generation, but the row takes the new session and generation only with a
   status. A run whose status is never readable therefore has incidents of a
   generation no row remembers; its exit, reported under the identity the row
   still has, is of the older generation, and `applyDecision` closes what is of the
   generation it looks at or older. An `overdue` of the run stays open beside the
   `exit`. The codex adapter reports an exit by the thread id (`codex.go:113`) and a
   live session by the thread and its holder (`codex.go:99`), whose status is usually
   not known. `README.md:141` says of overdue that exiting resolves it.
   `IncidentsMatchLook` therefore says what holds of the run looked at, and that
   nothing of an earlier run is left.

Deviations met while modelling, each an exception in a property or a hazard in
`PROJECT.json`, without a run of its own:

- *feed*: `After` compares the cursor with the floor and then selects rows, in two
  queries; a prune in between makes the page start beyond them, where
  `docs/cli.md:288` says such a cursor fails with `cursor_stale`. `RetainedLog!Left`
  is that gap, and it is the only one.
- *status*: a live session whose status cannot be read resolves `observation_lost`
  and leaves the row alone, so an earlier status, an exit even, is answered with
  `status_is_current` (`docs/cli.md:166`).
- *watch list*: a key is looked up before the lock is taken and remembered after the
  change, so a retry sent while the first request waits is applied as well
  (`docs/cli.md:802`). `watch remove` keeps an overdue incident and `watch add` does not
  resolve it, and a sync whose store fails half way finds nothing to resolve when it is
  repeated: under an `alert_on` without `overdue` it stays for ever (`docs/cli.md:573`,
  `watch.go:248`). The deadline of a target added in the in-memory form is kept by a sync
  of a file that says none and leaves `overdue` out (`sync.go:279`), which
  `ValidateDeadline` refuses everywhere else (`config.go:399`). A `watch sync` reads the
  file before it waits for `cfgMu` and may apply an older save after a newer one.
  `followFile` keeps the stamp before it reads, so a save it could not read is not tried
  again when it can be.
- *follows*: `sightResolved` drops a live follow of the configured id for a recorded
  one; a dead record of an id hides a live one behind it; a follow whose write failed
  is never made, the process being remembered for the new id already, nor is one
  discarded with an error of the hooks (`claude.go:112-122`, `monitor.go:585-593`);
  follows are replayed by wall-clock time. `SameProcess` answers no on every failure of
  `ps` (`proc_darwin.go:35-56`), so a running session whose record is not found at that
  look is reported exited, where `claude.go:325` claims an exit only of a process proved
  gone.
- *hooks*: an error reading them discards the whole observation, where the comment in
  `enrich` says only the enrichment is lost; the end of a subagent's turn clears what
  other agents wait for, where `hooks.go:144` says no turn can end meanwhile; a denial
  removes only its own key; `PostToolUseFailure` is handled but not subscribed to.
- *installation*: two commands share one temporary name, and when one that emptied it
  dies after the other renamed it the settings file stays blank (`cli/hooks.go:204`).
  `install` takes a binary of any name and recognises only those named birddog: another
  is reported missing, installed beside, and left by an uninstall that reports success
  (`install.go:187-211`, `docs/cli.md:705`). A file that can be read but not a second time is
  replaced without a copy; a save between a command's read and its rename is lost;
  `matchesInstall` ignores stale duplicates; the operator's own empty groups are dropped.
- *sighting*: a window of nothing but subagents' messages counts as a look. A question
  left by a process killed with its menu open is reported as exact when the conversation
  is taken up again, idle (`detect.go:59-62`), where `detect.go:38` says it needs no corroboration.
- *instance*: a resumed process starts no new baseline, so a silence that began before
  it was down is measured across the gap; `stop` returns when the socket is gone,
  before the record is marked and the lock released; a reused pid keeps an instance
  listed as running.
- *policy*: a session without an activity timestamp measures quiet from the zero time.

## What is not modelled

- **The other adapters** (codex, opencode, process, files): `Monitor` covers what they
  may return as inputs, including results that contradict each other. Of the Claude
  adapter, timestamps and their resolution are left out of `Sighting`.
- **Several registries and links between them** (`listMany`, `better`): one directory is
  modelled. **The owner and the notification recipient**, which are followed as
  targets are, by other code.
- **The age of a hook marker** and the activity and turn-ended markers; `Store.Prune`,
  which nothing calls. **The groups** hooks come in in a settings file, and the check
  that the handler can run.
- **A wall clock that is set back**: in `Feed` and `Monitor` each pass is later than the
  one before. `applyState` drops a status that is not newer than the row's; what that
  does to a recorded exit while the clock catches up is listed as a hazard.
- **Dry runs** of sync (they change nothing), the alert thresholds and recipients of
  a watch-list entry, and validation other than of deadlines.
- **Cursor identity**: a cursor of another store or machine is refused before any
  step of `Feed`. **Paging options and filters** beyond the page limit.
- **Owner watch**: it ends in the `BeginShutdown` that `Instance` allows at any time.
- **Codex discovery, terminals, the opencode plugin, doctor, rendering, transports'
  file access, packaging**: read-only enumeration, one-shot file rewriting, formatting.
- **SQLite itself**: statements and transactions are atomic, and a failed one
  changes nothing.

## Plan

The modules of the first plan exist: `Feed`, `Policy` and `Monitor`, `Instance`,
`WatchList`, then `Hooks`, `Follows` over `Registry`, `Settings` and `Sighting`, and
`RetainedLog` as the first abstract specification. `Monitor` composes with `Feed` by
the log: what `Feed` leaves free is what `Monitor` decides; `Follows` and `Sighting`
produce what `Monitor` takes as sightings.

Of what the runs check, every safety property that holds is proved, see the section on
proofs; the liveness properties stay with TLC.

Further models worth their cost: an *announcer* that `Monitor` implements (an incident
is open, announced at most so often, closed), a *single owner* that `Instance`
implements while no unlinked file is locked, a clock that is set back, and the codex
adapter.
