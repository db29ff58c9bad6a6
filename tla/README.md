# A verification development of phoxal-cli

phoxal-cli is the command line of a robot framework. It builds a robot project,
starts its supervisor and its runtimes and stops them again, installs releases
on a systemd host and rolls them back, runs simulation worlds, and shows a
running robot in a terminal dashboard. This directory holds TLA+ modules that
model the concurrent and failure-prone parts of it, the TLC runs that check
them on small instances, and proofs that TLAPS checks for every instance.

Line numbers below are of this repository. `A/` stands for
`cli/src/application/`.

## The system

### Components, their state and their operations

| component | source | state | operations |
|---|---|---|---|
| session lifecycle | `A/lifecycle.rs`, `A/launcher.rs`, `A/supervisor.rs`, `cli/src/lock.rs` | build lock, supervisor lock, session record, published release, process table | run, start, simulation connect, stop |
| startup | `A/startup.rs`, `cli/src/cli/output/` | checklist, presenter, who takes diagnostics, whose the terminal is | wait for the graph, report a step, cancel, hand the terminal over |
| release publication | `crates/project/src/stage/` | `release`, `.release.previous`, candidates | publish a layout, remove residue |
| installation | `A/installation.rs`, `A/service.rs`, `A/units.rs` | releases directory, `/var/phoxal` link, unit files, systemd's state, `project.lock` | install, rollback, restore, discard, service install and uninstall |
| log reconciliation | `cli/src/reconcile.rs`, `cli/src/attach/feeds/logs.rs` | cursor, follow buffer, backoff | query, install, follow, requery |
| stores | `cli/src/attach/state/` | bounded rows, revision, unread flag | record, install a snapshot, read |
| dashboard | `crates/ui/src/app/`, `A/session.rs` | model, mailbox, focus, stop and exit state | reduce an input, dispatch an effect, drain the mailbox |
| attachment session | `A/session.rs`, `cli/src/attach/mod.rs` | channels, effect tasks, confirmed stop tasks | drive, spawn an effect, shut down |
| world registry, recovery, evidence | `crates/host/src/world/` | registrations, leases, checkpoints, summaries | probe, list, recover a lost host, publish, prune |
| world host and simulation | `crates/host/src/world_process.rs`, `A/simulation/` | host process group, launch and connect transactions | launch, commit, detach, roll back |
| world terminal | `crates/ui/src/world.rs`, `A/simulation/terminal.rs` | shown state, request it waits for, ending; the feeds, the router and their channels | apply an observation, press a key, reconnect, route a control |
| joypad input | `cli/src/joypad/`, `cli/src/attach/feeds/input.rs` | device registry, selection, enabled flag | scan, select, enable, drive |
| project model | `crates/project/src/{resolve,validation,bundle,deployment,check,stage}` | the working tree, the staged `bin/`, the verdicts of `validate` and `run` | resolve, validate, stage, bundle |
| build and deploy | `crates/project/src/{build,bundle}`, `A/deployment.rs` | snapshot, Cargo's output, archive and sidecar | build, archive, deploy |
| package cache | `crates/project/src/registry_package.rs` | archives and extraction roots named by checksum | fetch, prune, extract, resolve offline |
| catalog, observation types | `crates/catalog`, `crates/observation` | none | value types |
| self-update | `cli/src/bootstrap.rs` | the installed program | update, re-execute |
| command line, output | `cli/src/cli/` | none | parse, print |

### How they interact

- The commands of one project share only what is on disk and in the process
  table. The build lock excludes launches from each other and lives as long as
  the launching command; the supervisor lock is held by the supervisor process
  and is the authority on whether an execution is live; the session record
  names the processes a launch left. `stop` takes no lock at all.
- An installation talks to systemd, which runs the supervisor through the
  `/var/phoxal` link: the program is resolved when the process is spawned and
  the bundle when the process opens it. The operation's lock does not bind
  systemd.
- A launch draws a checklist until its graph is up, then gives the terminal to
  the dashboard; a presenter task, the watcher of Ctrl+C and whatever traces a
  line run beside it and may be late.
- A feed task fills a store under its lock and announces a change through a
  bounded channel; the dashboard, on a thread of its own, hears of it through a
  mailbox with one slot for each kind of input, asks for a read, and gets the
  answer through the same mailbox.
- What `run`, `start` and `build` publish is put together in a candidate
  directory under the build lock; `deploy --build` reads an archive and its
  sidecar, and every resolution reads the package cache, without a lock.
- Manual input goes from the input page through two queues and a task for each
  request to the feed that polls the pads and publishes commands and stops.
- A world host registers itself, holds a lease and leaves evidence; every CLI
  process may probe that lease, and may recover a world whose host was lost.

### What is hard, and what correctness means

- *Session lifecycle.* Any client may give up or die at any step while its
  children live on. Launches must exclude each other; a record, which is the
  only handle on surviving processes, must never be overwritten; a release must
  not be replaced under a running supervisor; a stop must claim only what it
  achieved, and must end whatever ignores SIGTERM.
- *Build and publication.* A kill anywhere, a file system that refuses, an
  operator who edits meanwhile. A published release is whole and of one
  snapshot, a failure leaves the one before, and a device accepts no torn
  archive.
- *Bundles.* The participants are computed several times over, for resolution,
  the container, staging and validation, and the files of `bin/` have names of
  three kinds. What is launched must be what was resolved, and the verdicts of
  `validate` and `run` must agree.
- *Package cache.* Commands share it without a lock, over a registry that
  republishes and a directory that may hold anything. What is handed out must be
  verified, nothing may be read from an archive of another package, and one
  online fetch must be enough for an offline one.
- *Installation.* Every step may fail, also those of the restore; the process
  may be killed and the machine may lose power. What ran before must run again
  after a failure, a success must be whole, the link must not dangle, and a
  release that never answered must not be a rollback target.
- *Reconciliation and store.* Records are lost and arrive on both sides of a
  snapshot. The store must be an unbroken stretch of the supervisor's history
  and must catch up.
- *Startup.* The graph comes up, times out or is given up on while other tasks
  still write. The dashboard must be entered once, after a snapshot in which what
  was launched is up, and nobody else may write on it.
- *Dashboard.* Announcements are coalesced and slots overwritten, and a stop,
  the exit of the supervisor, the loss of the connection and a detach race. The
  page must catch up, a confirmed stop must be answered, and the ending that is
  reported must be the one that happened.
- *World terminal.* The answer of a control overtakes the stream of states,
  streams break and are reopened, other clients undo a request. The terminal
  shows the newest state, waits for nothing that is over, and ends with its
  world.
- *World recovery.* Two recoverers, a host's own late summary, a reused pid,
  a prune. One authoritative summary, no signal to a foreign process group, no
  removal of a live registration.
- *World launch and connect.* Either a committed world with its host, or
  nothing left of it.
- *Joypad.* Authority must not outlive its pad nor move to another one, and a
  robot that was driving when authority ended must be stopped, also when the
  bus refuses the stop at first.

`PROJECT.json` lists each of these hazards at the line where it bites, with the
properties that cover it or the reason why none does yet.

## The modules

| module | what it is |
|---|---|
| `SessionLifecycle` | the launches and stops of one project, its inductive invariant and its properties |
| `MCSessionLifecycle` | symmetry for its runs |
| `SessionProofs` | theorems about `SessionLifecycle` and about `RunCommand` (`Startup`, `Dashboard`, `SessionDrive`) |
| `Reconciler` | `cli/src/reconcile.rs` as pure operators |
| `LogFeed` | supervisor history, bus, feed task, store, mailbox and log page, over `Reconciler` |
| `Installation`, `InstallationProofs` | install, rollback and the service unit over systemd; its theorems |
| `WorldRegistry` | the files and processes of simulation worlds: probe, recovery, evidence, prune, and the external host |
| `WorldOutcome` | what the evidence of a world promises: an outcome written once |
| `SimulationCommands` | the simulation commands over `WorldRegistry`; it implements `WorldOutcome` |
| `SimulationCommandsProofs` | the theorems of the world modules, the refinement among them |
| `MCSimulationCommands` | which client gives which commands |
| `WorldTerminal`, `WorldTerminalProofs` | the terminal of a world with its feeds and its router; its theorems |
| `PadRegistry` | the registry of pads and authority as operators |
| `ManualInput`, `MCManualInput` | input feed, motion feed, input page and attachment over `PadRegistry`; the pads of its run |
| `ManualInputProofs` | theorems about both |
| `Dashboard` | the reducer and the mailbox of the dashboard as operators |
| `SessionDrive` | a session, launched or attached to, driven through `Dashboard` |
| `Startup` | what gates the dashboard of a launch: the checklist and the hand-over of the terminal |
| `RunCommand` | `Startup` and then `SessionDrive`, or `SessionDrive` alone for `attach` |
| `PackageCache` | the package cache shared by unlocked commands |
| `CacheProofs` | theorems about `PackageCache` and about `LogFeed` with `Reconciler` |
| `ReleaseBuild`, `MCReleaseBuild` | builders, publication, archive and deploy; symmetry for its run |
| `ReleaseBuildProofs` | its theorems, for any commands, edits and failures |
| `BundlePlan` | resolution, participants, file names and checks of one project as operators |
| `BundleStaging`, `MCBundleStaging` | the commands that stage and judge a project over `BundlePlan`; the projects of its run |
| `BundleStagingProofs` | theorems about the operators of `BundlePlan` and about the commands |

### SessionLifecycle

A *client* is one CLI process; a *session* is the identity of one launch. The
shared state is `buildLock`, `supLock`, `record` and `bundle` (files) and `sup`,
`exec`, `live`, `started` (processes). A client's own state is `pc`, `cmd`,
`sess` and, while it stops, `stage`, `failed` and `confirmed`. The values of
`pc` are the points between two calls of `build_and_publish`,
`launch_prepared_execution`, `await_session_ready`, `drive_launched_session`
and `stop_session_for_mode`:

Begin Probe AcquireLock Recheck Gate RecordGate Publish     build_and_publish
Spawn Handshake LaunchOne AllLaunched OpenRecord FillRecord
launch_prepared_execution Attach Ready Detach NotReady EndSession
the wait and the dashboard Stop
stop_command Escalate FirstStageEnds StopComplete StopIncomplete Consume
stop_session_for_mode Refuse GiveUp ClientKilled
every way out

`std::fs::write` is two steps (`OpenRecord`, `FillRecord`) because the file is
first truncated and then filled. `Consume` unlinks the path, not the record the
stop read. `StopMode` is what decides the order of the two stages: the owner of
a simulation execution uses its own, `stop` always the native one.
`ClientKilled` is a hangup, a SIGTERM or a SIGKILL: the kernel drops the lock
and the children stay. The supervisor's own steps (`TakeSupLock`, `Answer`,
`SupExits`) and `RuntimeExits` are external, modelled from what the CLI relies
on.

`loose` is a history variable. A launch that leaves its handshake while its
supervisor has not locked yet (the handshake timed out, the client was killed,
or another supervisor answered the endpoint) has lost track of that process.
Nothing in the code prevents such a supervisor from taking the lock later, so
the two properties about releases are stated for the launches that are not
loose. This is a limit of the code, stated rather than hidden.

Abstractions: publication is one step; pids are unique; what a running process
does is left out, except that it may end. A probe finds an execution or none;
at an endpoint that listens and does not answer yet (`Opening`) it may also
fail, which ends the command like a refusal.

### Reconciler and LogFeed

A log record is its sequence number. `Reconciler` has `Follow`, `Install` and
`Replay` (`ReplayOne` per held-back record) as functions of a record
`[cursor, buffer, querying]`. `LogFeed` runs
them: `Ask`, `InstallPage`, `FollowRecord`, `Send` and `Retry` are the points
where `feeds/logs.rs` awaits something; `Announce` is the store's rule that a
change is announced only when no earlier one is unread. `ReadStore`,
`PushReply` and `PushChanged` are separate steps because they run on different
tasks; `Drain` is one turn of the dashboard's loop, which takes all slots at
once. `Issue`, `Invalidate`, `Accept` and `Refresh` are the functions of
`update.rs` with those names and `_logs`.

Abstractions: one attachment, hence one epoch; two filters (all, odd records);
a pause keeps the newest row as its anchor.

### Installation

A release is the rank of its name, which starts with a time. An operation walks
`stop, lock, rename, switch, regenerate, reload, start, observe`; a failure sets
`undoing` and walks the restore through the same `switch .. observe`, now with
the previous release as `Goal`, and then `discard`. Each step has a partner that
fails, before or after its effect. Three of these return without a restore:
`StagingFails`, before anything was stopped, and `ReadUnderLockFails` and
`RefusalFails`, after it; the last two end in `abandoned`. `service` is the
supervisor unit: which release's program runs and which release's bundle it
opened are two fields, because the link is resolved twice. `loaded` is what
systemd read of `units`. `Spawn`, `OpenBundle`, `Answer`, `Break`, `Killed` and
`Reboot` are external. `service install` walks `prepare, write-unit, read-units,
enable-unit` and `service uninstall` `disable, remove-unit, read-units`; `unit`
says whose the supervisor's unit file is, whose systemd has read and whether it
is enabled, and a unit systemd does not know can neither be started nor stopped.

Abstractions: verifying, validating and staging the archive is the first step; a
failure of it that leaves nothing is no step. The start limit of systemd may be
hit at any failure.

### The world modules

`WorldRegistry` has one step per file-system or process operation of a probe
(`Probe .. Judge`), a recovery (`Recover` to the removal of the lease) and a
prune, for clients that do nothing else to exclude each other than try the lock
of a lease. The host is external: it persists its checkpoint, registers under a
held lease, publishes its summary and removes its registration, and may be lost
at any of these. `SimulationCommands` puts the commands on top: `own` is the
host a command will roll back unless it commits, `members` and `memberEnd` the
executions of a world and their evidence. `OneOutcome` is the refinement: under
the mapping `Phase` every behaviour is one of `WorldOutcome`.

`WorldTerminal` has one action per await of the two feeds and of the router,
and one turn of the interface thread in parts (`Drain` per observation, then a
key or none). A state is its revision; `history` maps it to its lifecycle.

Abstractions: documents parse, ownership and modes of files are as they should
be, launching and stopping a robot execution is one step each, and the kill of
a host by the command that owns it takes effect; in the terminal
a state is only its lifecycle and diagnostics are only there or not.

### PadRegistry, ManualInput

`PadRegistry` has the functions of `joypad/registry.rs` under their names
(`Observe`, `Connected`, `Disconnect`, `Select`, `SetEnabled`, `RetainSeen`,
`ReconcileSelection`, `Prune`). In `ManualInput` the feed walks
`rescan, idle, poll, record, send, drive`; a poll handles one backend event per
step. `stops` is `pending_stops`, and a publication that the bus refuses leaves
it. A request of the input page is queued, taken by a task of its own and put on
the port, so that requests may overtake each other. A command is only "drive"
or "stop", and of a sample only the pads it lists are kept, which is what the
page's keys act on.

### Dashboard, SessionDrive

`Dashboard` is the reducer as functions from a model to a model that carries the
effects it emitted: `RequestStop`, `Interrupt`, `Lose`, `SupervisorExited`,
`CompleteStop` and the keys of the runtimes page and the modals. Its mailbox is
filled and emptied by `Pushed`, `Drained` and `Reduced`, recursive functions of
the inputs of a pass; `Message` is `SessionInput`. `SessionDrive`
is the select loop of `A/session.rs` with the terminal thread, the read task,
the confirmed stop tasks, the snapshot feed, the watcher of the owned
supervisor, and `Cleanup`, which is the end of `drive_launched_session`. A
client that attached owns nothing (`Own(FALSE)`): it can be asked for no stop
and cleans nothing up. The module's header names what is left out.

### Startup, RunCommand

`Startup` follows `await_session_ready`: `ReportPhase` and `PreparationEnds` are
the preparation with its reporter and the resolution of `--driver` and
`--drivers`, `Look` and `Wait` are `await_graph`, which takes a snapshot that is
there before it looks at the interrupt or the deadline, `Admit` and
`AwaitMember` are the simulation's, and `Quiesce, HandOver, RouteToDashboard,
TakeTerminal` the hand-over. Beside them run `Present` (the presenter, which is
aborted and not awaited), `Trace` (a line from any task), `Interrupted`,
`WatchChildren` and the supervisor's snapshots. `scribbled` is a history
variable: a line was drawn over the dashboard.

### PackageCache

One package at one version; `archive` and `root` are functions of the checksum.
A command fetches, online or offline, and then may read the manifest or extract
the root; `entry, download, prune, extract, recheck` are the places between its
file-system calls. The registry's index and download change one after the other.
The directory starts with any archives, whole, damaged or of another package
(`planted` remembers the last), and any incomplete roots. The command that hits
an archive online (`CheckEntry`) compares its bytes only, so `fetched` may be an
archive of another package; one resolved offline is `identified`. `List` is the
janitor's reading of the directory, which may fail.

### ReleaseBuild

A job is `build` with the local, the container or the remote builder, the
preparation of `run` and `start`, or a deploy. A release is the version of its
documents, the version of its code and whether official binaries and supervisor
are in it, so that a wrong pairing is visible. `disk` holds the live name and the
two names a publication sets releases aside under. A kill frees the lock and
leaves the disk as it is. A recursive removal is not atomic: `RemovePart` deletes
a part of what is aside, and a failure or a kill before `ClearPrevious` or
`DropPrevious` has removed the rest leaves that part (`Torn`).

### BundlePlan, BundleStaging

A project is a record (the head of `BundlePlan` says what its fields are). Its
operators are the passes over it: what each id resolves to, who is launched,
which packages the container installs, which file each crate's binary ends in,
what `validate` and `run` judge. `BundleStaging` puts the passes in the order of
the commands, with an operator who edits the project between commands.
Assumptions: service ids, component types and instance ids are apart where no
check keeps them apart (`IdsApart`); each instance has a type and each train a
line (`TypesAndLines`); a run starts from projects (`ProjectAssumption`), and an
edit ends in one. A binary accepts what is authored for it exactly when
its train is among those that fit.

## The runs

| run | result | what it shows |
|---|---|---|
| `session_safety` | passes, 447 971 states | the safety properties of the lifecycle |
| `session_liveness` | passes, 19 833 states | a stop ends its session |
| `log_feed` | passes, 207 214 states | no hole in the store; page and store catch up |
| `installation` | passes, 1 466 098 states | failures restore, successes are whole, the link never dangles |
| `installation_release_mix` | violated | a refused install restarts the service under another one's switch |
| `world` | passes, 866 400 states | recovery, rollback and evidence of worlds, and the refinement |
| `world_terminal` | passes, 410 146 states | the terminal is current, waits for nothing that is over, and ends truly |
| `input` | passes, 310 361 states | authority and the stops a robot is owed |
| `dashboard` | passes, 2 093 516 states | a clean hand-over, an answer to every stop, an ending that is its cause |
| `package_cache` | passes, 5 249 480 states | verified packages, and an offline entry after an online fetch |
| `build` | passes, 888 674 states | whole releases, kept on failure; whole archives on devices |
| `bundle` | passes, 2 269 012 states | the right sources, a sufficient container, agreeing verdicts |

**Properties of `session_safety`.** `RecordNeverOverwritten`: a record is only
ever removed or completed, never replaced by another session's.
`NeverPublishedUnderfoot` and `OneRelease`: the release is not replaced under a
supervisor, and a supervisor executes its own. `StoppedSessionIsGone`: a record
is consumed after both stages succeeded. `OwnerStopsSimulationSupervisorFirst`:
the owner keeps the simulation order.

**Of `log_feed`.** `StoreHasNoHole`: the rows are consecutive and end at the
installed cursor. `PageCatchesUp` and `StoreCatchesUp`: with finitely many
records and keys both end up current, through slots that hold one answer and
one announcement. The exception in `StoreCatchesUp` is real: when the last
record is lost there is no later one to show the hole.

**Of `installation`.** `FailureRestores`, `SuccessIsWhole`, `ActiveExists`,
`RollbackIndexAnswered`, as above. The first two are about an operation that
returns, the installation and removal of the unit included. `FailureRestores`
excepts an install that is abandoned before it published anything: it leaves the
link and the releases alone, and the robot stopped. `ActiveExists` holds
also across kills and reboots.

**Of `world`.** `NoForeignSignal`: recovery signals only the process group of
its checkpoint, although the group may end and its number be used again between
SIGTERM and SIGKILL. `RollbackIsWhole`: a start or connect that failed leaves
neither host nor execution unless it says so. `MemberEndingIsTrue`: a member
that ended is told from a world that ended. `RegistrationOutlivesHost`: nobody
unregisters a world whose host lives. `OneOutcome`: the refinement.

**Of `world_terminal`.** `ViewIsCurrent`: when nothing is in flight the newest
state is shown. `PendingIsAnsweredOrUndone`: a request the terminal waits for is
on its way, or was undone by another client after a state that answered it was
skipped; in that last case the terminal waits until the next such state, which
is what the code does. `OutcomeIsTrue`: it ends as stopped or ended only when
the world did or its state stream could not be reopened.
`GoneWorldEndsTheTerminal`: liveness.

**Of `input`.** `AuthorityHasAPad` and `AuthorityIsNotInherited`: authority
belongs to a connected, mapped, selected pad and ends with its selection.
`MotionIsCovered`: a robot last told to drive is under authority or is owed
stops. `RevokedRobotStops`: those stops arrive, unless authority is taken again
or the attachment ends.

**Of `dashboard`.** `HandOverIsClean`: the dashboard is entered after a snapshot
that is up by the rule of `launch_is_up` (Ready or Degraded, or everything this
client launched present), with no step of the checklist running or failed, and
neither the presenter nor a traced line writes on it. `StopIsOwedAnAnswer`:
while the dashboard refuses further confirmations, a stop or its answer exists.
`EndingIsItsCause`: what is reported happened; whatever is neither a detach nor
a failure leaves neither supervisor nor runtimes of a session the client
launched; and a client that attached stopped nothing. `DashboardIsCurrent`: with
empty channels the process table is that of the newest snapshot, and the rows of
the runtimes page are those of its detail unless a read is owed or out. It says
this of the page that is shown only: `enter_page` (`update.rs:512`) leaves a
detail without a read when another page is entered, and the next entry of the
runtimes page reads. The absence of a deadlock is checked too.

**Of `package_cache`.** `ResolvedIsVerified`: an archive that a command has
resolved has the bytes of its checksum, a root that it is handed is complete,
and an archive of another package is in the cache only if it was there before
the first command, is handed out only by an online hit, and nothing is read or
extracted from it. `OfflineAfterOnline`: an online fetch leaves exactly the
archive that an offline one needs.

**Of `build`.** `PublishedIsWhole`: the live release is complete and, when it
was built from a snapshot, of that snapshot; one that is aside is complete until
its removal begins, and a part of one never gets the live name.
`FailureKeepsTheRelease`: a step that fails before the new release is live
leaves the old one live, or aside if moving it back failed as well.
`LeftoversNeverBlock`: what a killed command left does not stop a later one.
`AcceptedIsWhole`: a device accepts only a whole archive, and from a deploy of
the source the one it built.

**Of `bundle`.** `LaunchesItsSources`, `ContainerSuffices` and `VerdictsAgree`,
as the module states them; `VerdictsAgree` excepts verdicts that rest on binaries
other than those a run installs.

### Where code and documentation part

`installation_release_mix` is a run of its own: the refused install
(`installation.rs:497`) starts the service without the lock, and the program and
the bundle of that start can be of two releases, which the head of that file
rules out. The models also contain the following, which no
property rules out; where a property is about the same code, it names the
exception. `PROJECT.json` lists them under `hazards` with the lines:

- an install that fails under the lock before it published anything leaves the
  robot stopped: `active_release` may fail after the service was stopped
  (`installation.rs:502`), and after a refused lock the candidate may not be
  removable (`:495`) or the restart may fail, which is ignored (`:497`). The
  comment of `rollback_release` (`:552-555`) has a failed rollback restored
  "exactly as a failed install restores it";
- the dashboard is entered while the supervisor still says `Starting`, once every
  runtime this client launched is present (`startup.rs:352`); the head of that
  file (`:10`) says it is entered only once the supervisor published `Ready` or
  `Degraded`;
- an online hit in the package cache does not check whose the archive is
  (`registry_package.rs:467`); its first reader does;
- a record that is half written refuses every launch and names a `stop` that
  cannot read it (`launcher.rs:299`, `lifecycle.rs:475`);
- a stop unlinks the record by path, whoever's it is by then (`launcher.rs:319`);
- `stop` ends a simulation's runtimes before its supervisor, because the record
  does not say its mode (`launcher.rs:391`);
- a log page that is resumed shows its paused rows until something else
  refreshes it (`update.rs:659`);
- power loss between the symlink switch and the units (`installation.rs:341`);
- a prune takes the evidence of a host lost between its summary and its
  unregistration (`evidence.rs:284`);
- the stop that the closed input port should cause is not reached
  (`feeds/input.rs:70`);
- after a build that was killed between its renames, a second failure, or a
  removal of what is aside that is cut short, leaves no whole release
  (`publish.rs:40`, `:73`);
- `build` publishes a configuration that its own binaries refuse
  (`build/use_case.rs:532`).

### Bounds, and why they are enough

- Sessions: two clients and two sessions give every pair of concurrent
  commands, and a launch after a launch. Two participants make a launch that
  fails half-way and a stage that ends in parts. Every client may be killed and
  a process may survive SIGKILL. `MCSessionLifecycle` permutes clients,
  sessions and participants, which the model treats alike.
- Session liveness: one session, two clients that may both stop it; kills and
  unkillable processes are off because the property excepts them. Symmetry is
  not used.
- Logs: three records, one of them retained, a page, a buffer and a store of
  two, room for one announcement and two keys. A hole needs one loss between
  two arrivals, an overflow of a buffer of two needs three records, a full
  announcement channel needs two changes. Records and keys are finitely many,
  so a behaviour may stop: deadlock is not checked there.
- Installation: three releases (one that runs, two to install) and one failure
  per operation, besides the waits, the gates and the last removal, which fail
  freely. Two failures in one operation may leave the restore half done, which
  the code reports and does not repair; if it is the switch of the restore that
  fails, the release the link still selects is removed. Operations follow each
  other without bound.

- Worlds: one world, two clients with different command sets (one runs,
  connects and lists, the other starts, looks, stops and resumes), two commands,
  one host loss, kills anywhere and pids used again. Two commands overlap in
  every way two clients can; a second world would only add a second subject to
  `list`.
- World terminal: a world opened running, two keys, one change by another
  client, two failures of the connections, room for one observation. A request
  that is overtaken, refused or undone needs one key and one such change; losing
  a stream for good needs two failures.
- Input: three pads, two of one model and one without a mapping, room for two,
  one plug or unplug beyond the start, two keys, one refused publication. The
  third pad forces an eviction; two keys are an enable and what revokes it.
- Dashboard: four keys or signals out of those listed in the cfg, which is
  enough to open the confirmation, confirm, and quit, or to leave the runtimes
  page from its detail and come back; one change of the
  snapshot; room for one input and two events. Its startup: a robot with one
  driver and one other runtime, asked for no driver, for that one or for one it
  does not declare; two snapshots, so that one may say less than the one
  before; two traced lines and room for one, so that the queue overflows.
- Package cache: two commands, three checksums of which one names another
  package and one has no driver binary, two republished documents, one refused
  removal or listing. Two commands are what a race needs; the theorems hold for
  any number.
- Build: three interchangeable commands, one edit, two file-system calls that
  fail, kills anywhere. A leftover takes one command, the next one meets it, and
  the third may deploy; restoring after a failed rename takes two failures.
- Bundle: the official, the service, the type and the instances that
  `MCBundleStaging` names, one of them with the id of the service; trains of one
  line and of two; sixteen sound projects and up to two edits of one field.
  A disagreement between two passes over a project needs few participants, but
  of every kind. Edits and commands are finite, so deadlock is not checked.

### Fairness

`StopEndsSession` assumes that a stopping client goes on (weak fairness of its
stop steps) and that a process sent SIGKILL ends; nothing is assumed of a
process that was only sent SIGTERM, nor of launches or operators.
The catch-up properties assume weak fairness of the feed task, the store reads
and the mailbox (the asynchronous runtime polls what is ready and the terminal
loop turns every 50 ms), and that a supervisor that is there answers and
delivers. `RevokedRobotStops` assumes that the feed is scheduled, that its wait
for room in the event channel is served in turn (strong fairness of `Announce`:
the channel is shared with the motion feed, and its semaphore is first come,
first served), and that the bus accepts once its refusals are used up.
`GoneWorldEndsTheTerminal` assumes that the interface thread and the state feed
are scheduled and that a stream whose host is gone ends. Losing, failing and
pressing keys are never forced.

## The proofs

### The session lifecycle

`SessionProofs` proves, for any sets of clients, sessions and
participants, `Spec => []P` for `TypeOK`, `LockDiscipline /\ NoLaunchOverRecord`,
`OneRelease`, `StoppedSessionIsGone` and `OwnerStopsSimulationSupervisorFirst`,
and `Spec => P` for the action properties `NeverPublishedUnderfoot` and
`RecordNeverOverwritten`. The assumptions are those of `SessionLifecycle`:
`Nothing` and `Garbled` are not sessions, `Nothing` is not a client and not a
command, `Killable` is a set of clients, `Unkillable` is a Boolean.

The invariant is `IInv`, and each conjunct has a lemma of its own
(`...Step`) with one case per action:

- `ControlOK` ties a client's place to its own variables: an idle client has no
  command, a client in a launch has a session, a consuming one has finished
  both stages.
- `LockDiscipline` makes the holder unique. `NoLaunchOverRecord` follows from
  it: only a holder writes a record, and it does so at the end of its launch.
- `SupLockOK`: a supervisor past its lock is the one that holds it.
- `LaunchOK`: from the supervisor gate to the spawn no supervisor holds the
  lock except a loose one, and until the handshake ends the published release
  is the launcher's. The gate is what establishes it, and the build lock is
  what keeps it.
- `SpawnedOK`: a supervisor that has not locked is waited for or is loose. With
  `LaunchOK` this gives `OneRelease`: a supervisor that takes the lock does so
  while its launcher still waits, hence finds its own release.
- `FreshOK`, `StopsAreLate`: a session that is still launching is named by no
  record and stopped by nobody, so no process is added to a session under stop.
- `StageOneGone`: what a successful first stage ended stays ended; this needs
  `StopsAreLate`. With it a stop that ends both stages without a failure leaves
  nothing, which is `StoppedSessionIsGone`.

`IInv` is not itself a property of a run; each of its parts that is not a
property is used only here. The simple statement `supLock = None` in `LaunchOK`
is false without `loose`: TLC finds the late supervisor at once.

### The package cache

`CacheProofs` proves `Spec => []P` for `TypeOK`, `ResolvedIsVerified` and
`OfflineAfterOnline`, for any sets of commands, checksums, misnamed and binless
archives and any bounds (`ChecksumAssumption` and `BoundAssumption` of the
module). `ResolvedIsVerified` is not inductive: a command is only as good as
what it read before. The invariant `IInv` adds that an archive of another
package was there before the first command (`MisnamedPlanted`), that a command
between its comparison and its end keeps a verified archive or none
(`VerifiedArchive`), of the identity it asked for unless it has hit one online
and read nothing of it yet (`ResolvedIdentity`), and that a root once handed out
is complete and stays so (`HandedOutRoot`), because complete roots are never
removed. For `OfflineAfterOnline` it adds that an online fetch never lists its
own archive for removal (`OwnArchiveSpared`), that it has an answer of the index
(`AnsweredFirst`), and that while there was one answer only, whatever else is in
the directory is on the list of a janitor at work (`JanitorOwes`). Each conjunct
has a lemma with one case per action.

### Installation

`InstallationProofs` proves `Spec => []P` for `TypeOK` and the four properties of
the `installation` run, for any number of releases and any kills and reboots,
under two assumptions on the constants. `OneAtATime`: operations follow each
other (`Op` has one member, which gives one operation after the other without
bound); with two at once `installation_release_mix` shows what happens.
`OneFailure`: at most one step of an operation fails besides those that nothing
bounds (the wait for the supervisor, the removal of a failed release); a second
failure may hit the restore of the first, which the code reports and does not
repair.

None of the four is inductive. `IInv` says for every place an operation may be
at what it knows there:

- `ControlOK`: the place says which command it is, and a restore has no failure
  left (this is where `OneFailure` enters).
- `NamesOK`: names are given once, in order; what an operation may go back to is
  still there, and until the switch it is still active.
- `PublishedOK`: an install's release is in the directory exactly from its rename
  on, and after a failure only if it could not be removed.
- `ForwardOK`: nothing runs from the stop to the start; link, unit files and
  what systemd read agree with the target from the step that set them on; the
  service that runs afterwards has its program and its bundle from the target.
  `SuccessIsWhole` is its last line.
- `RestoreOK`: the same on the way back, with the release before as the goal.
  `FailureRestores` is its last line, with what holds of an install that is
  abandoned.
- `UnitOK`: whose the unit file is, for `service install` and `uninstall`.

Beside these, `KnownRuns` (a service runs only if systemd knows its unit) and
`IndexOK` (a release in the index answered, is being installed, or belongs to an
operation that was killed) are about the host alone. Each part has a lemma with
one case per action.

### The world modules

`SimulationCommandsProofs` proves the types and all five properties of the
`world` run for any worlds, clients, commands and bounds, with numbers of
process groups used again. `IInv` is one conjunct per question:

- per client, where it may be with a world in hand (`AimOK`, `CommandOK`), with a
  host it owns (`OwnOK`), with a live execution (`RobotOK`), with a log file
  (`LogOK`), after joining a world (`PastJoining`, `JoinedOK`) and when it reports
  (`ReportOK`). `RollbackIsWhole` and `MemberEndingIsTrue` follow from these.
- `StaleOK`: a client that takes a world for lost is right, since the lease of a
  lost host is never taken again, and what it unregisters has an outcome or lost
  its evidence to a prune. `SignalOK`: the group about to be signalled is the
  one that was validated a moment before. It gives `NoForeignSignal`, and it is
  what the re-validation between SIGTERM and SIGKILL is for.
- `VictimsOK`, per world `FilesOK`: what a prune removes has an outcome, and the
  files of a world say how far its host has come.

`RegistrationOutlivesHost`, an action property, has one case per action over
`IInv`. `OneOutcome` is the refinement of `WorldOutcome`: the initial states map
to initial states, and each step either opens the evidence of worlds, closes
one (`Closes`: a summary where there was none), forgets one (`Forgets`: a prune
of a world that is closed) or is not seen (`Unseen`).

### Manual input

`ManualInputProofs` proves the types, `AuthorityHasAPad`, `MotionIsCovered` and
`AuthorityIsNotInherited` for any pads, capacities and bounds. The first half is
about the operators of `PadRegistry` alone: what each of them makes of a well
shaped registry is a sound change (`Change`: authority that ends owes a stop, a
changed selection has no authority, and afterwards authority has a pad), and an
eviction keeps the selection (`PruneKeeps`). The registry between two calls of
an enumeration is shaped, not settled, which is why the invariant speaks of
`Held` there and of `AuthorityHasAPad` otherwise. The second half is the
invariant of the feed: it adds `CommandIsCovered`, that a command which the feed
has derived and not published yet is covered as well, without which
`MotionIsCovered` is not inductive.

### Release builds

`ReleaseBuildProofs` proves the four properties of the `build` run for any
number of commands, edits and failures of the file system. Its assumptions are
`BoundAssumption` and `NameAssumption`: the constants that stand for nothing
(`NoJob`, `None`, `Absent`, `Torn`) and the default output are not commands,
versions, releases or each other. `IInv` says of each command what the steps
before its point gave it:

- `LockOK`, `KindOK`: the build lock is held exactly from its acquisition to the
  end of the build, so at most one command is between them, and only certain
  commands get to a point.
- `SnapshotOK`, `MadeOK`: a builder that freezes the tree has both halves of its
  snapshot, and each half of its release from the point it compiled it on, taken
  from the snapshot. What the operator saves meanwhile changes `tree` only.
- `LiveOK`: until the swap the release that a command found is live or aside,
  afterwards its own is. This is also why what is moved back is never a part.
  `FailuresKeepTheRelease` needs this, and one case per action: every step but
  the swap fails without touching `.phoxal`.
- `ClearedOK`: the name to set a release aside under is free, unless a removal
  was refused. `LeftoversNeverBlock` follows.
- `SentOK`: what a command sends is the archive of its place, whole or torn, and
  the archive of a deploy from source is its own, since its output has a place
  of its own.

Beside these, `DiskOK`, `OutputOK` and `InstalledOK` say that only whole releases
and parts of releases are under any name, no part under the live one, and that
an archive that is not torn and what is on the device are whole. A lemma
`Frame` says what a step of one command must leave alone for the others; each
action has a lemma of its own.

### Bundles

`BundleStagingProofs` proves the types and the three properties of the `bundle`
run for any catalogue, project, edits and number of commands. The first half is
about the operators of `BundlePlan`. It defines `Sound`: no two crates of the
project share a file, the binary of every participant passes its check, and the
registry's binary of every reference does. This is a fact of the project alone,
not of what Cargo happened to link or of what the release happens to hold.
`SoundPasses` and `PassesSound` show that every check a command makes accepts a
sound project, and over all participants no other; they rest on `NamesApart` (no
two participants have one name, by `LaunchIdsApart` and `IdsApart`) and
`DeclaredAreSource` (what `validate` builds is part of what `run` builds).
`CandidateHolds` and `CandidateComplete` say what the candidate holds under each
name. The invariant of the commands then says that files, packages and artifacts
are what resolution asked for (`ContainerOK`, `LinkedOK`), that a run past its
check runs a sound project (`CheckedOK`), and that the verdicts say whether the
project is sound (`VerdictsOK`), which is why they agree.

### The world terminal

`WorldTerminalProofs` proves the three invariants of the `world_terminal` run
for any room in the channel and any number of keys, changes and failures,
assuming that `None` is no control and no outcome. `Applies` and `Presses` say
what an observation and a key make of the model. The invariant needs, for
`ViewIsCurrent`, that the last state the subscription has seen is shown or on
its way (`SeenIsTold`); for `OutcomeIsTrue`, that the stream is given up only
after two failures or for a world that is gone (`GivenUp`). For
`PendingIsAnsweredOrUndone` it needs more, because an answer and the stream
overtake each other and a request that the stream already fulfilled leaves its
late answer behind: the pending request is the last that was asked, however many
older ones are still queued (`PendingIsLast`), a good answer means that the
world is where it led, unless somebody else changed it (`AnswerIsTrue`), and no
pause or resume is pending that the terminal already shows (`Unfulfilled`).

### The log store

`CacheProofs` also proves `LogSpec => []StoreHasNoHole`, for any number of
records, any losses, and any capacities of page, buffer and store such that a
page fits the store, as the code's do (`FeedAssumption`, `BufferAssumption`).
`LogInvariant` is inductive: queues hold records (`LogTypes`), a page is the
newest records up to its cursor (`PageIsNewest`), and the rows of the store are
a stretch that ends at the cursor that is installed (`StoreIsStretch`, over
`IsStretch`, which an append, a trim and a replay keep). The property says the
same of the rows through `Counting`; the invariant says it index by index,
because that is what the steps can be shown to keep. What `Replay` lets through
of a buffer of any length continues the cursor it started from (`Continues`),
whatever arrived twice, late or not at all: an induction on the buffer.

### Induction on a queue

`Replay`, `Pushed` and `Reduced` are recursive functions of how much of a queue
has been handled. That such a function has a value for every prefix
(`ReplayAfter`, `PushedAfter`, `ReducedAfter`), and that what holds of the empty
prefix and survives each element holds of the whole, is shown with two lemmas
that need no operator as a parameter: a non-empty set of numbers has a least
element (`LeastNumber`, from the library's fact that `<` is well founded on
`Nat`), and a set that has 0 and the successor of each of its elements below a
bound has every number up to the bound (`UpTo`). They are stated in both modules
that use them, since two proof modules share nothing but the library.

### The startup

`SessionProofs` proves `HandOverIsClean` of `StartupSpec` and of `RunSpec`, for
any drivers, any selection and any bounds. `StartupOK` is inductive: until the
hand-over no step of the checklist has failed, the attachment's step is pending
until the robot is admitted and after that it alone may be running
(`ChecklistOK`, over `Settling`, which says what ending the steps before another
one does to the list); from the admission on, a snapshot showed the launch up
(`EarnedOK`); and
the terminal is the dashboard's only after the presenter's channel is closed and
diagnostics are routed away from it (`TerminalOK`), which is why neither the
presenter that is still being aborted nor a traced line can draw over it.

### The session drive

`SessionProofs` proves `EndingIsItsCause`, `StopIsOwedAnAnswer` and
`DashboardIsCurrent` of `RunSpec` (a launch with its startup, or an attachment)
and of `DriveSpec` (the session alone), for any participants, any capacities of
the channels and any number of keys, changes and failures. The assumptions say
that `None` is no query, table, message or result. None of the three is
inductive, since each is about something that is spread over six queues and
tasks. `DriveOK` says where it is:

- `DriveTyped`: types, and that a select loop that waits for room holds an input.
- `Truthful`: a message on its way says what is so. A "stopped" means that the
  supervisor is down, a "stop failed" that a stage failed, an exit that the
  watcher saw one, wherever the message is (`AllHonest`) and also while the
  stop's task has not sent it yet (`StopsHonest`).
- `EndsWell`: the ending of the model has its cause (`Ends`, `Caused`), the
  result of the command is the one of its clean-up, and a client that attached
  has no stop under way and touched nothing. `EndingIsItsCause` is in it.
- `StopIsOwed`: a stop that is asked is queued, under way, or answered in a
  channel.
- `Ordered`: the epoch is the first event, arrives once, and the mailbox knows
  it from then on; this is why the gate on the epoch loses nothing.
- `ReadOnItsWay`: what is asked is at exactly one of four places (the effect,
  the reading task, the reply in the channel, the model), so a reply is never
  applied to another detail and never missed.
- `TableOnItsWay`: the table that was sent last is the last one among the
  events, is held, is the last one in the channel, or is shown; slots may
  overwrite older ones only.

TLC checked `DriveOK` as an invariant of the session on the bounds of the
`dashboard` run before it was proved (1 892 820 states). One lemma per action
keeps it. A turn of the interface thread (`Pass`) takes a whole channel through
the mailbox and the reducer at once, and rests on the operators of `Dashboard`
alone: what each reducer function may change (`ReadSide`, `StopSide`, `Taking`);
what the mailbox holds after any sequence of inputs, namely per slot the last
one that went there and every control in its order (`Boxed`, `DrainedInputs`);
and what reducing what it drained makes of the model. The proof was also what
found the statement about rows too strong: as first written it spoke of
whatever page is shown, and the step of `enter_page` did not keep it.

### Only model-checked

Every invariant and every action property of the passing runs is proved. The
liveness properties `StopEndsSession`, `PageCatchesUp`, `StoreCatchesUp`,
`GoneWorldEndsTheTerminal` and `RevokedRobotStops` are checked by TLC only:
liveness under fairness and `ENABLED` are outside what TLAPS proves. Of the
absence of deadlock the same holds. No module declares a RECURSIVE operator.

## What could come next

An abstract session (none, running, recorded, ended) that `SessionLifecycle`
implements, and the details of telemetry and source health, which have the shape
of what is modelled.

## Not modelled

- Formatting, progress, drawing and the command line: no state that outlives a
  call.
- Self-update (`cli/src/bootstrap.rs`): one process replaces one file by a
  rename and re-executes it. Two upgrades at once compare with their own version
  only, so the slower one may install the older release; nothing else shares
  state with it.
- `service status`, `status`, `logs`, `doctor`, `schema`: they read and report.
- The JSON schemas, the geometry of robots, the command lines of Cargo, docker
  and ssh, and the contents of archives: reduced to whether they accept or
  succeed.
- The catalogue and the observation types: constants and values.

`components` in `PROJECT.json` says the same per part.
