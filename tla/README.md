# Verification of the Codex desktop manager

TLA+ modules, TLC runs and TLAPS proofs for `baijimu-connector-codex`: the Rust
service that installs the Codex desktop application, keeps its logins and its
workspaces, and the page and tools around it. Line numbers are those of the
repository's files (`setup.rs:290` is `src/setup.rs`, line 290).

1. [The system](#1-the-system)
2. [The modules and the code](#2-the-modules-and-the-code)
3. [The runs](#3-the-runs)
4. [What is proved](#4-what-is-proved)
5. [Where the code departs from what is said of it](#5-where-the-code-departs-from-what-is-said-of-it)
6. [Not modelled](#6-not-modelled)
7. [Plan](#7-plan)

How to run: `tlc -config SetupSafety.cfg MCSetup.tla` (each run's module is the
one named in the table of section 3), `tlapm SetupLifecycle_proofs.tla`.

## 1. The system

The manager is one process that serves HTTP on 127.0.0.1:18110, with one thread
for each connection. It has no database: everything that survives it is a
handful of files, the home directories of the Codex workspaces, a registry
value on Windows and the running desktop application. Several clients may be
connected: the management page, the Bridge Agent, a command line.

| Component | Source | State | Operations | Correct when |
|---|---|---|---|---|
| Operation reservation and data lock | `state_access.rs` | `OPERATION`, `INITIALIZATION` (in memory), the data lock | begin, drop, initialize_local_data, read, write | operations that change local state are serial, are refused rather than queued, and always give the reservation back |
| Installation job | `setup.rs` | the status in memory and in `setup-status.json`, a background thread | load, start, replace, persist, recover | the status names the installation that runs; a death is recorded; no crash loop |
| Management API | `main.rs` | none of its own | the POST routes, ensure-ready | the order reservation, gate, work; ensure-ready starts nothing the user has to decide |
| Credentials and profiles | `credential.rs`, `credential/store.rs`, `credential/contract.rs` | the archive of each profile, `metadata.json`, `auth.json` and `config.toml` of each home | switch, issue, re-authorize, finalize, capture, migrate, reconcile | no login is lost, none goes into another profile's archive, a failed write is undone |
| Workspace catalog | `codex_workspace.rs` | workspaces, their profile, the active one | create, switch, activate, refresh, bootstrap | the catalog says what the homes contain |
| Activation and environment | `codex_workspace_activation.rs`, `user_environment.rs` | `HKCU\Environment\CODEX_HOME`, the broadcast | switch, notify, restore | registry, shell, catalog and process agree, or are put back |
| Desktop process | `desktop.rs` | the running application, not owned by the manager | stop, launch, restart | the application uses the home of the active workspace |
| External processes | `child_process.rs` | a process group or job object, captured output | run with a deadline | no descendant outlives the call, no call outlives its deadline |
| Daemon lifecycle | `process_runtime.rs`, `cli.rs` | pid file, token file | start, stop, status | at most one server; stop ends the one that answers |
| baijimu CLI | `baijimu_cli.rs` | none | auth status, workspaces, issue a key | pages end, a deadline covers them all |
| Installers, progress | `setup/macos.rs`, `setup.rs:429` | step list, `status.json`, `result.json`, the application bundle | check, download, verify, copy, configure, launch | steps end in a final state, files and answer agree, the application that was closed comes back |
| Windows package recovery | `setup/windows_recovery.rs`, `setup/contract.rs`, `setup/source.rs` | the retained package | the grant of one elevated installation | only the verified package is installed |
| Product configuration, compatibility | `product_config.rs`, `system_compatibility.rs`, `json_compat.rs` | none | parsing, version comparison | |
| Management page | `ui/app.js`, `ui/state.mjs` | what is shown, `accountBusy`, the retry offered, the monitor's generation | load, ensure, monitor, retry, switch ... | controls come back, outcomes are shown |
| Artifact synchronisation | `tools/codex-artifacts/sync_codex_artifacts.py` | object store, immutable manifests, three pointers | select, download, compare, publish | customers never find a pointer to something that is not there |
| Market release | `tools/release/publish_market.py` | remote release record | publish | |
| Installer scripts, npm launcher | `installers/`, `bin/` | none | | |

**Interactions.** Every POST except discovery takes the reservation first
(`main.rs:393`); an installation takes it in the request's thread and its worker
carries it on (`setup.rs:243`, `302`). Switch, create, re-authorize, activate,
launch and restart then pass a gate, that the setup has succeeded and the local
data is initialized (`main.rs:713`), and call credentials, catalog, activation
and desktop in that order. The installation job calls the credentials at its
end. The page polls the setup status once a second and reloads everything when
it has succeeded. The synchroniser is separate: a scheduled job in the cloud,
whose manifests the installers read.

**What is hard.** Interleaving of connection threads and the worker that outlives
its request; a status that lives twice and is saved in five steps with a file
name all threads share; four files and a catalog changed one after the other
with a hand written undo; deaths of the process between any two of those
writes; a user who opens and closes the desktop application meanwhile; page
flows that overlap because a reload releases the controls in its middle;
publication of three pointers that nobody can move at once. PROJECT.json lists
each hazard at its line with the properties that would notice it, or why there is none.

## 2. The modules and the code

### SetupLifecycle, ExclusiveOperations

`SetupLifecycle` is the reservation, the installation job and the requests that
reach it. `pc` holds the place of every connection thread, every worker (one for
each request number, an *attempt*) and the main thread. `mem`, `disk`, `tmp` and
`copy` are the four places of the status during a save; `replace` and `persist`
(`setup.rs:346`, `678`) are the steps Clone, WriteTemporary, RemoveOld, Rename, any
of which may fail. Receive, CheckLocalData, Begin, InitializeLocalData, Snapshot,
Decide, CheckElevation, Admit, StoreRunning, Spawn, PassGate, EndWork follow the
request through `main.rs` and `setup.rs:237`; FinishInstall and Report are the
worker, which gives its reservation back *before* it records the outcome
(`setup.rs:306`); Crash and Restart cut everything and load the file again.
Requests are ensure-ready, initialize, retry, prepare, restore, and `manage` for
every operation behind the gate. `Windows` selects the replacement of a file that
removes it first (`setup.rs:690`).

Folded or left out: locks held over one assignment; the waits on the data lock;
writing the temporary file is one step; a panic of the worker; the texts,
progress and schema number of a status; `run_install` is one step with its
outcome.

`ExclusiveOperations` is what the reservation promises from outside: one request
or job at a time, no queue, an operation handed to each job once.
`SetupLifecycle!Exclusive` instantiates it with the threads and workers whose
control point says that they change local state; it does not look at the
reservation.

### AuthProfiles

One record `op` follows the operation that runs (they are serial, by
SetupLifecycle), and each write is one action: Checkpoint (archive the current
login), LoadTarget, KeepConfig, WriteAuth, WriteConfig, MarkOwner, CommitMeta,
Select (the catalog) and their undoing UndoAuth, UndoConfig, UndoMeta,
UndoCatalog, RemoveHome; Issue, ArchiveKey, Know, Finalize, Adopt for an
installation; Rearchive, Resync, Resave, Refresh for a re-authorization;
DesktopLogin is the application, which signs in or refreshes its login at any
moment, in a home whose profile is the ChatGPT one. That a user signs in where the
profile is a key's is left out, although the manager removes
`forced_login_method` (`credential.rs:784`) and nothing there prevents it.

The initialization of the local data is what runs at every start and before every
installation: Import (metadata a former version kept elsewhere,
`credential/store.rs:27`), MigrateKey and SaveVersion (the keys of channels go to
the archive, then the version is recorded, `credential.rs:1051`), Capture,
Snapshot and SaveProfiles (the login found in `~/.codex` becomes the ChatGPT
profile, `credential.rs:1383`), Reconcile (which profile do the files show,
`credential.rs:1494`) and Bootstrap (the catalog follows,
`codex_workspace.rs:243`). Each write is an action that may fail or be the last
one of the process; `FirstStep` passes over what would find nothing to do. `Fresh`
and `Upgraded` are the states the first start may meet: no data, or what an
earlier version left (`LeftBehind`): some channels, each with its key in an
archive, in a home of its own (`old`) or in `~/.codex`, where the user may have
signed in since. `store` is the version of the metadata and whether it was
imported.

A login is its owner and a number. A write that fails leaves the old file. The
contents of the ownership marker, names, timestamps, every setting of
`config.toml` but the provider and a login in the system keyring are left out.

### WorkspaceActivation

`env`, `announced`, `active` and `desktop` are the registry value, what the shell
was last told, the catalog's active workspace and the home of the running
application. `op` follows switch, launch, restart or restore through Stop,
ReadEnv, SetEnv, SetActive, Announce, Start and the undoing actions. UserOpens and
UserCloses may happen at any time. The data lock is held from the first to the
last write of a commit, not during the broadcast: `Locked` says when readers
wait. It is the Windows build; elsewhere the projection does not exist.

### ChildProcess, BoundedCall

`ChildProcess` is one call of `child_process::output`, through which every external
command runs. `proc` holds the processes of the group (Unix) or job (Windows),
which may print, end and fork at any moment, also while they are killed: a
process *in flight* is being created by a fork that has not returned, and neither
a signal nor a scan sees it. `pc` is the calling thread: Spawn and Attach, the
loop that looks at the exit, the size and the deadline (Collect, TooLarge, Late,
PollAgain), Terminate and Reap, then `Tree::finish` (Kill, Confirm, ScanLate,
ScanAgain, Wake) and its second run in the drop. Time is counted in sleeps; what
happens between two of them takes none. `Stubborn` processes belong to somebody
else and cannot be signalled.

`BoundedCall` is the promise to the callers: every call is answered, and one that
is answered "ok" or whose end was confirmed leaves nothing running.
`LeavesNothing` instantiates it with the stage, the answer and whether anything
executes. The model assumes that a scan is misled by a fork in flight once at most
(`Races`), which is what the two scans in a row rely on (`child_process.rs:205`).
A descendant that leaves its group with `setsid`, the number of a reaped leader
used again, and I/O errors of `try_wait` or of the capture file are left out.

### DaemonControl

Servers (`start_server`) and commands (`start`, `start --daemon`, `stop`) over the
port, the token file and the pid file. A server goes through Bind, LoadToken or
GenerateToken, RenameToken, CheckToken, RecordPid and serves; Dies ends it
anywhere. A command asks (Connect, Authorize, Healthy or Unhealthy), then spawns,
waits, gives up, records a number, or terminates and removes the file. `serial`
distinguishes commands of one host, one after the other, from overlapping ones.
`steady` remembers for each command who has served ever since it began. All use
one home and one port; a process number is used once; a missing token and one
that is too short are the same; a child reaches for the port within the five
seconds its parent waits for it.

### Installer

`run_install` on both platforms. On macOS `steps` and `current` are the progress,
`shown` and `result` the two files, Mark every call of `set_step` (the table
`Marks`), Call whatever only succeeds or fails (the table `Calls`), Look and Copy
the application bundle; FailCurrent, SkipPending and WriteResult the end. Both
platforms share the guard (`SetupDesktopGuard`): AskQuit and Quit close the
application, Finalize activates the workspace, Launch opens it, Release opens it
again when the guard is dropped. The user opens and closes the application
meanwhile, files may fail to be written, and after a death the installation is
asked for again. A download is one step; manifests, assets and digests are what
their checks say; on Windows the script is one step that writes its own result.

### ArtifactPublish

A run of the synchroniser: Select, Download (with the check of size and digest
against what the native jobs verified), the comparison with what is published,
PutAsset for each package, Preserve for each immutable manifest, Point for each
of the three pointers. Upstream changes at any moment; Stop ends a run at any
point, whatever the reason (an exception, a failed upload, a cancelled job), and
nothing is undone; Lose removes an object between runs. Runs are serial by the
workflow's concurrency group (`sync-codex-upstream-artifacts.yml:8`). Packages are
a name and a digest. A published manifest that no longer validates
(`sync_codex_artifacts.py:685`) ends a run like any other error. `--prepare-only` is
left out, and so is `REQUIRE_DESKTOP_SIGNATURE_DIGESTS=0` (line 192), which nothing in
the repository sets and which does without the digests OnlyVerifiedPackages is
about.

### ManagementPage

A flow is an asynchronous function of `app.js`, a record with the call it waits
for and its answer; between two awaits it runs alone, and that is one action:
LoadPrepare, LoadShow, LoadChecks, LoadFollows, LoadEnds, LoadFails (loadState),
Ensured, ConfirmFails (ensureCodexReady), Wake, Polled, PollFails (monitorSetup),
Started, StartFails (retrySetup, initializeWorkspace), Managed, ManageFails,
Launched (the operations on workspaces and profiles). A call is asked, served at
some moment and answered at a later one, so answers arrive in any order. The
manager is reduced to its status, whether an operation runs and whether the
local data is ready. `failed` stands for failed, interrupted and needs_retry.
The view of workspaces and profiles and all rendering are left out.

## 3. The runs

| Run | Module | Question | Bounds | States |
|---|---|---|---|---|
| SetupSafety | MCSetup | Do concurrent requests and workers stay exclusive, and does the status stay the installer's? | 2 threads, 2 workspaces, 3 requests, every kind, a failing disk, 1 death, Unix | 2.5 M |
| SetupRecovery | MCSetup | Are interruptions recorded, counted and not repeated for ever? | 1 client that only asks ensure-ready, 5 requests, 4 deaths, 1 upgrade | 0.6 M |
| SetupLiveness | MCSetup | Is every reservation given back, does every installation end? | 2 threads, 1 workspace, 2 requests, every kind, 1 death, failing disk, Windows | 51 k |
| AuthFaults | MCAuth | Is one failing write undone everywhere? | 2 channels, 2 workspaces, 2 logins, 2 keys, fresh data or that of an old version, 1 failure, no re-authorization | 0.85 M |
| AuthCrash | MCAuth | What do deaths in the middle leave, and does the next start repair it? | 1 channel, 2 workspaces, every operation, data of every origin, 1 login, 1 key, 1 failure, 2 deaths | 9.8 M |
| AuthLoginLost | MCAuth | Is the newest ChatGPT login always kept? *violated* | nothing fails | |
| ActivationSwitch | WorkspaceActivation | Do registry, shell, catalog and process move together? | 3 workspaces, every operation, 3 failing calls, 2 deaths | 0.12 M |
| ChildProcess | ChildProcess | Is every call answered in time, and does it leave nothing running? | 3 processes, one of them beyond reach, timeout 2, grace 2, 1 misled scan, Unix and Windows | 10 k |
| DaemonControl | DaemonControl | Does stop find the server, and does the pid file name it? | 3 servers, 3 commands, overlapping or not | 3.2 M |
| Installation | Installer | Do the files say how an installation ended, and is the application open again? | 2 attempts, 2 files that cannot be written, macOS and Windows | 45 k |
| ArtifactPublish | ArtifactPublish | What do customers find while runs are cut short? | 2 packages, 2 digests, 2 tags, 1 change, 2 failures, 1 loss | 0.5 M |
| UiControls | ManagementPage | Do disabled controls come back? | 2 flows, 2 clicks, 1 lost call, 1 other client's installation | 0.89 M |

**The properties.** Besides the type invariants:

- *SetupSafety*: InstallerOwnsStatus, GateStable (what a management operation
  checked stays true until it ends), and SerialOperations, the refinement of
  ExclusiveOperations.
- *SetupRecovery*: CrashLoopBounded (at most two installations are cut before the
  user has to decide), InterruptionRecorded, NoAutomaticRestart.
- *SetupLiveness*: ReservationReleased, InstallationEnds.
- *AuthFaults*: ArchivesPure, HomesAgree (the catalog tells the truth about every
  home), FailedLeavesNoTrace.
- *AuthCrash*: DefaultAgrees (metadata and catalog name one profile for the default
  workspace), EveryWorkspaceHasProfile, PrepareIsIdempotent (a finished
  initialization leaves nothing for the next one), SwitchArchivesLogin, KeysAgree
  (a successful re-authorization has reached the archive and every home),
  UpgradeKeepsLogins (the migration of an earlier version loses no key and no
  login, wherever it was cut).
- *ActivationSwitch*: FailedSwitchRestores, ReadersSeeOneWorkspace,
  ManagerStartsActive, SwitchEstablishes, SwitchSucceeds.
- *ChildProcess*: AnswersInTime (the timeout and the two waits for what was
  killed), LeavesNothing, the refinement of BoundedCall.
- *DaemonControl*: StopFindsServer (stop never reports "not running" over a server
  that has served ever since it began), PidFileNamesServer.
- *Installation*: OutcomeShown, ApplicationComesBack.
- *ArtifactPublish*: LatestIsComplete, OnlyVerifiedPackages, SuccessMeansPublished,
  CatchesUp.
- *UiControls*: ControlsReturn.

OneAtATime, RunningIsOwn (SetupLifecycle) and LatestIsPreserved (ArtifactPublish)
are proved and need no run, nor do ControlsHeld and OneMonitor (ManagementPage). RunningHasInstaller (SetupLifecycle) and
RecheckOffered (ManagementPage) state what does *not* hold, see section 5; give
them to MCSetup or ManagementPage to see how.

**Why the bounds are enough.** Two threads give every race between two requests,
and with a worker of an earlier request three actors save the same file; the
third request is the one that meets the late save. Two workspaces tell "the same
installation" from another. Four deaths exceed the two that CrashLoopBounded
allows. Two channels and two workspaces give a switch of the default and of
another home, of the active and of an inactive one; the undo of one failing
write is a complete path, and in AuthCrash a death may cut that undo and another
one the repair at the next start. Three workspaces in ActivationSwitch tell
target, previous and a third one the user opened. Three processes are a leader,
its child and one that cannot be signalled; two sleeps of each wait let a process
end before, at and after the last look. Three servers are one that serves, one
that loses the port to it and a successor; three commands are a stop overlapped
by a start and what the next command finds. Two attempts and two unwritable files
are an installation that fails, cannot say so, and is repeated. One package of
each sort and two digests tell what is new from what is there; two cuts leave a
half published state and then cut its repair. Two flows are all that an overlap
needs. The proofs of section 4 lift the bounds for the safety properties they
cover.

**What a property leaves out.** CrashLoopBounded is checked for the atomic
rename of Unix: on Windows a death between removing and renaming loses the
status with its count (`setup.rs:690`). InterruptionRecorded is checked for one
workspace and ensure-ready only, where no late save of an earlier worker can be
the last one. HomesAgree does not hold after a failed re-authorization, hence
AuthFaults has no re-authorizations; KeysAgree covers those that succeed.
ArchivesPure, HomesAgree and FailedLeavesNoTrace hold for one failing write and no
death; after a death ArchivesPure does not (section 5). DefaultAgrees asks that
no write has failed: after a death and a failed repair the two files may name
different profiles until the next start. UpgradeKeepsLogins exempts imported
metadata (section 5). FailedSwitchRestores and ReadersSeeOneWorkspace allow one
failing call: when the undo fails as well, nothing puts the pieces together until
a later switch, which SwitchSucceeds shows to work. A value older than the
manager in the shell (`Legacy`) is exempt from ManagerStartsActive.
PidFileNamesServer is about commands that do not overlap and a server that has
not been asked to end. OutcomeShown asks that the files could be written, and
ApplicationComesBack that the process did not die and the launch did not fail.
LatestIsComplete allows for what the store loses after it was published.

**Fairness.** SetupLiveness: each thread and worker of a live process keeps
running (`WF` on its own steps), since every external wait has a deadline
(`child_process.rs:79`), which is AnswersInTime; nobody has to send a request, to
die or to restart. ActivationSwitch: the calls of the running operation return,
the scripts and the broadcast having deadlines. ChildProcess: the calling thread
runs and a fork returns; no process has to end by itself. ArtifactPublish: a run
that is due starts and goes on, by the daily schedule and the limit on the job's
duration; upstream, losses and cuts are bounded, not fair. UiControls: calls are
answered or fail, installations end (InstallationEnds), the page's event loop is
fair; nobody has to click.

**Deadlock** is checked where the system always has a next step
(ActivationSwitch, ArtifactPublish, ChildProcess, where an answered call rests).
The others stop when their bounds are used up: an idle manager without further
requests, a page without further clicks, no further command or attempt.

## 4. What is proved

For every value of the constants that satisfies the assumptions named in the
modules: any sets of threads, workspaces, channels, processes, servers, packages
and digests, and any bounds. A theorem that holds under a condition only names it:
`OneClient` and `Undisturbed` (SetupLifecycle_proofs) restrict the constants,
`OneFault` (AuthProfiles_proofs) the operations and the states they speak of.

| Theorem | Module | States |
|---|---|---|
| TypeCorrect | SetupLifecycle_proofs | TypeOK of SetupLifecycle |
| Exclusion, StatusOwnership, GateHolds, NoGhostRunning | SetupLifecycle_proofs | OneAtATime, InstallerOwnsStatus, GateStable, RunningIsOwn |
| Serial | SetupLifecycle_proofs | SerialOperations: the reservation implements ExclusiveOperations |
| FailureIsNotRepeated | SetupLifecycle_proofs | NoAutomaticRestart, for one client (`OneClient`) |
| CutIsRecorded | SetupLifecycle_proofs | InterruptionRecorded, for one client that installs one workspace by ensure-ready (`Undisturbed`) |
| CrashLoopEnds | SetupLifecycle_proofs | CrashLoopBounded, for that client and where a rename replaces the file (`Undisturbed`, not `Windows`) |
| Typed | AuthProfiles_proofs | TypeOK of AuthProfiles |
| LoginsArchived, KeysReachHomes, ProfilesChosen | AuthProfiles_proofs | SwitchArchivesLogin, KeysAgree, EveryWorkspaceHasProfile |
| Idempotent, LoginsSurviveUpgrades, DefaultsAgree | AuthProfiles_proofs | PrepareIsIdempotent, UpgradeKeepsLogins, DefaultAgrees |
| PureWithOneFault, AgreesWithOneFault, OneFaultLeavesNoTrace | AuthProfiles_proofs | ArchivesPure, HomesAgree, FailedLeavesNoTrace, with one failing write at most (`OneFault`) |
| TypeCorrect | WorkspaceActivation_proofs | TypeOK of WorkspaceActivation |
| FailureRestores, OneWorkspaceSeen | WorkspaceActivation_proofs | FailedSwitchRestores, ReadersSeeOneWorkspace |
| StartsActive, SuccessEstablishes | WorkspaceActivation_proofs | ManagerStartsActive, SwitchEstablishes |
| Typed, InTime | ChildProcess_proofs | TypeOK, AnswersInTime |
| NothingLeft | ChildProcess_proofs | the call implements the safety part of BoundedCall |
| Typed, StopFinds, PidNamed | DaemonControl_proofs | TypeOK, StopFindsServer, PidFileNamesServer |
| Typed, Shown, ComesBack | Installer_proofs | TypeOK, OutcomeShown, ApplicationComesBack |
| TypeCorrect, Complete, Preservation, Verified, Success | ArtifactPublish_proofs | TypeOK, LatestIsComplete, LatestIsPreserved, OnlyVerifiedPackages, SuccessMeansPublished |
| TypeCorrect, ControlsNotForgotten, OneFollows | ManagementPage_proofs | TypeOK, ControlsHeld, OneMonitor |

**SetupLifecycle.** No property is inductive as it stands: from "the status is
running" alone nothing follows about who may replace it. The invariant `IInv` adds

- `Numbered`: a request in service has a number nobody else has, and its worker
  does not exist yet;
- `ReservationHeld`: the threads and workers at a reserving point are exactly the
  holder of the reservation;
- `Quiet`: before the process serves, nothing of it runs;
- `RecordInTransit`: a thread between deciding to start and spawning has its own
  record where the status will be, and no running status is replaced by it;
- `RunningIsNotCut`: a running status names an attempt no death has cut.

OneAtATime then follows from ReservationHeld; InstallerOwnsStatus because a
running status can only be replaced by its own attempt and only a holder of the
reservation, which the worker holds until it reports, may start another one;
GateStable because whoever could end "succeeded" needs the reservation that the
working thread holds. Each step of the proof is one action, split on the
conjuncts it can disturb. Serial maps every step to Begin, HandOver, End or a
stutter.

What is said of deaths and restarts holds for one client, and that is a condition
of the theorems. `Attention` is enough for FailureIsNotRepeated: when a single
client of ensure-ready is about to start, no failure was recorded that its
snapshot does not show. The other two need `Recovers` on top of `IInv`:

- `Plausible`, of the status in memory and of the one on disk: at most two
  interruptions are counted, and at two it is the user who decides;
- `Client` (`Asks`, `Judges`, `Starts`): what the client read is still what decides
  when it starts, and the record on its way counts what memory counts;
- `Worker`: an installation under way has its running record in the file;
- `Written`, `Marked`: whatever is being saved is the status in memory, and an
  installation that was cut has left its running record;
- `Tally`: the cut installations are at most those counted in memory, and those at
  most what the next process will count from the file.

TLC shows what each condition keeps out. With a second client
InterruptionRecorded and NoAutomaticRestart fail; with a second workspace, or
when the user retries, CrashLoopBounded and InterruptionRecorded do, since a late
save of one installation can replace the running record of the next; with the
replacement of Windows CrashLoopBounded fails, as the count can be lost with the
file. Requests of the other kinds (prepare, restore and everything behind the
gate) and failing saves do no harm.

**AuthProfiles.** The invariant `Whole` says for each point of an operation what its
earlier writes have done and what the later ones rely on. `Placed`: each kind of
operation goes its own way. `Ready`: an operation behind the gate works on
initialized data, and so does whatever it may restore. `Handed`: in a switch the
login that is replaced is in the archive from the checkpoint on, and in the home,
unchanged, before. `Spreading`: in a re-authorization the archive has the new key
and so has every home that is not still to do. `Chosen`: every registered
workspace has a profile, which an undo keeps. For the initialization `Untouched`,
`Course`, `Migrated` and `Captures` say what the recorded version tells of the files:
before the first save nothing changes a login; the archive of a channel has its
key or none, and its home has it as long as the data is not migrated; a ChatGPT
login that was found is in the home until it is in the archive. `Told`, `InStep` and
`Agreeing` follow the reconciled profile from the files to the metadata and to the
catalog. Deaths need no case of their own beyond the files, since each conjunct
speaks of them at every point.

That one failing write is undone is `Sound`, which holds while `OneFault` does: at
most one write has failed, nothing has died, nothing was imported and there are
no re-authorizations. Its heart is `Matching`: every home shows the profile that
the catalog names for it, where the home an operation is writing (`Settled`) counts
as what it will be once it is undone. `Saved` says that what will be put back is what was
there, and that an undo follows the one failure there is, so that no step of it
fails; `Undone` that metadata, catalog and home are those from before until the
operation has succeeded; `Applied` how far the new profile has come; `Away` that the
application is not using a home that is written; `Known` and `Pure` that the login
the checkpoint finds has the kind of the profile it is archived for. `LeftHomes`
and `DefaultHome` carry this through the upgrade of an earlier version. TLC
shows what each part of OneFault keeps out: with a second failing write, which may
be one of an undo, all three fail; after an import ArchivesPure and HomesAgree
do, after a death ArchivesPure, after a failed re-authorization HomesAgree.

**WorkspaceActivation.** `Stage` says what an operation has done when it reaches a
place: at the broadcast, registry and catalog hold the target, and the steps in
between cannot be taken by another operation. `Failed` and `Restoring` say what an
undoing step still has to put back, and that the one failing call has been used
up; `Together` that registry and catalog agree whenever the lock is free; `Told` that
the shell knows the active workspace before the manager opens the application.

**ChildProcess.** `Believed` is the heart: an empty scan that was not misled leaves
nothing that could still start, and as only one scan of a call is misled, of two
empty ones in a row one was not. `InTheJob` is the simpler Windows case, where a
job has no fork in flight. `Stage` and `Clock` say how far the call and its time are
at each place.

**DaemonControl.** `Owned`: the port is the lock, held by the one server past Bind;
`TokenAgrees`: only that server writes the token, so whoever serves finds its own
in the file; `Looking`: a command that talks to the port talks to whoever has
served all the while. `Alone` and `Named` add, for commands that do not overlap,
that a process which has not reached for the port is the child of the one busy
command, and that the file names the server that was not asked to end.

**Installer.** `Progress` (`Forward`, `Failing`, `Failed`, `Reported`) says which steps are
final at each mark and what the files then show; `Guarded` and `Owed` that a guard
which has closed the application stays armed until the application is open again.

**ArtifactPublish.** `SyncInv` says for a run which packages are in the store, which
manifests are preserved, which pointers have moved (`Selected`, `Stored`, `Kept`,
`Moved`).

**ManagementPage.** `PageInv` adds to the types what a flow can be (`Fits`): only a
monitor sleeps and polls, and its number is one that was given out. ControlsHeld
is the safety side of ControlsReturn: while the controls are disabled and no
installation is shown, a flow is under way that will release them. A monitor does
not count as one, because it ends in silence when a newer one has superseded it,
and the proof shows why none is needed: a monitor leaves the controls disabled
only with an installation on the page, and in the step that shows the end of one
it releases them or turns into a reload. OneMonitor holds because a number that is
given out is greater than every earlier one.

Only model-checked: liveness (ReservationReleased, InstallationEnds,
SwitchSucceeds, CatchesUp, ControlsReturn and the liveness part of
LeavesNothing), because the prover does not handle fairness and ENABLED.

## 5. Where the code departs from what is said of it

Shown by a run:

- **AuthLoginLost.** The current login is archived only when the switched
  workspace is the active one. A login refreshed before another workspace was
  activated is overwritten (`main.rs:569`, against
  `docs/codex-home-ownership-and-launch.md:40`).

Met while modelling, without a run of their own:

- `replace` changes the memory before it saves, and all threads share one
  temporary file. A worker that has released its reservation but still saves can
  rename the file of a following retry away; that retry's rename fails, start
  answers an error and leaves a running status without an installer until the
  process ends (`setup.rs:300`; RunningHasInstaller).
- An API key passes for a usable ChatGPT login (`credential.rs:1162`), so after a
  death inside a switch the next one archives a platform key over the ChatGPT
  login, which the check at `credential.rs:1217` is there to prevent
  (ArchivesPure with a death).
- When the recheck offered after a failed poll fails too, the controls stay
  disabled, because the page still shows the old running status (`app.js:849`;
  RecheckOffered).
- The import of an earlier metadata file saves it without the homes it names:
  `codex_home` is not serialized (`contract.rs:42`). The migration that follows
  (`credential.rs:1051`) then takes every channel's key from `~/.codex`, whatever is
  in there, a ChatGPT login or another channel's key, and archives it unchecked,
  while `docs/codex-home-ownership-and-launch.md:77` says that each key is read
  from its own old home.
- The reservation is dropped before the outcome is recorded (`setup.rs:306`),
  while `docs/status-lifecycle.md:14` has the installation thread hold it; the next
  request may meet the old running status.
- A late save of one worker can put its outcome over the running status of the
  next installation on disk (`setup.rs:346`); a restart then does not see that the
  newer one was interrupted.
- ensure-ready decides on a status it read before its CLI call (`main.rs:779`).
  With one client nothing fails between the reading and the start, and
  NoAutomaticRestart holds; with a second client a failure recorded in between is
  repeated.
- A re-authorization that stops half way leaves some homes with the old key
  (`codex_workspace.rs:179`, `docs/codex-home-ownership-and-launch.md:71`).
- The catalog is saved before the files of a switch are written
  (`codex_workspace.rs:127`, against line 42 of the same document) and put back
  when they fail.
- `README.md:11` of the repository says that on Windows no user environment
  variable is written and no change is broadcast; the switch of the active
  workspace does both (`user_environment.rs`, WorkspaceActivation).
- The active workspace is committed before the broadcast
  (`codex_workspace_activation.rs:39`, `59`).
- After a death between re-archiving and re-synchronising a key, the next
  initialization may take a stale key for a login of the ChatGPT profile.
- A launch is satisfied with any process that runs (`desktop.rs:129`), also with one
  the user opened in the middle of a switch; and nothing at start compares the
  registry with the catalog.
- When reading the registry fails during a switch, the application that was
  closed is not opened again.
- The comparison with the published manifests ignores metadata of a single
  package (install layout, deprecation), which
  `docs/codex-cli-artifact-upgrades.md` would have republished.
- `app.js`: a superseded monitor renders a late answer (`742`), so an old *running*
  can be shown when no monitor is left; after a refused switch an installation of
  another client is shown but not followed (`533`); what loadState read before the
  discovery is rendered again after it (`836`), over the answer of an operation
  made meanwhile. A shown installation is therefore not always followed to its
  end, and ControlsReturn says only that controls come back *or* an installation
  is shown.
- Restoring a legacy CODEX_HOME, the environment is changed, the metadata cannot be
  saved and the broadcast is skipped: the shell keeps the legacy value until the
  next one (`credential.rs:725`).
- `child_process.rs`: the answer after a timeout says that the process tree was
  ended, although the second `finish`, in the drop, ignores its failure.
- `cli.rs`: a start right after a stop may take the dying server for an existing
  one; a stop that overlaps a start removes the newer server's pid file (`45`); a
  start that gave up leaves its slow child running.
- The macOS installer: when the request fails, the error is shown on the step
  completed before; an `/Applications` bundle that was copied half is taken for an
  installed one by the retry, or fails each retry when its Info.plist cannot be
  read (`setup/macos.rs:666`); a failure before the old files are removed leaves
  the previous attempt's `status.json` on show; a completed installation whose
  result cannot be written is reported as failed, also when only the permissions
  of `result.json` could not be set.
- The desktop guard: an application that ends after the wait for it is over is not
  opened again, and a death between stop and launch leaves it closed
  (`setup.rs:597`).

## 6. Not modelled

- *baijimu CLI* (`baijimu_cli.rs`): the wire format of an external program. Its
  answers are inputs of SetupLifecycle and AuthProfiles, its deadline is the one of
  ChildProcess; paging is a loop over answers without other state.
- *Windows package recovery* (`setup/windows_recovery.rs`, `contract.rs`,
  `source.rs`): reads the record of one package and verifies path, size and digest,
  and changes no state of the manager. It is the elevation check of
  SetupLifecycle and an outcome of the script in Installer.
- *Product configuration and compatibility*: parsing and the comparison of
  versions, pure functions with unit tests beside them.
- *Market release*: a row of HTTP calls, without state here.
- *Installer scripts* and *npm launcher*: sequential; the manager sees their exit and
  their output.

Modelled in part: of the *management API* HTTP parsing, the token check and the
read-only routes, which hold no state between requests; of the *installation job*
the texts of a status and the administrator recovery; of the *desktop process
control* the process lists and the PowerShell helpers; of the *page* the view of
workspaces and profiles and all rendering.

## 7. Plan

Done: SetupLifecycle with ExclusiveOperations, WorkspaceActivation,
ArtifactPublish, ChildProcess with BoundedCall, DaemonControl, Installer and
AuthProfiles, each with proofs of every safety property its runs check;
ManagementPage with the proof of its invariant.

Left:

1. *SetupLifecycle*: what holds of a crash loop with several clients. It needs an
   assumption on which saves a death may lose, which the code does not give.
2. *AuthProfiles*: what a death in the middle leaves of ArchivesPure and
   HomesAgree, stated as what the next initialization repairs.
3. *ManagementPage*: the view of workspaces and profiles, whose late answers are
   described in section 5 only.
4. *WindowsRecovery*: the package that may be installed once with elevation, and the
   version comparison of `system_compatibility.rs` against a reference definition.
