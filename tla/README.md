# Lingfang desktop host: a TLA+ verification of its plugin core

The repository is a desktop application (Tauri: a Rust host and a React
frontend) whose business is plugins. It installs them, keeps several releases of
each, prepares their dependencies, runs Node and Python plugins as processes and
HTML plugins in a frame of its window, gives a running plugin a local HTTP bridge
with a token, lets an author edit and publish drafts, and updates itself. This
directory holds TLA+ models of the state the host and the window keep about all
this, TLC configurations that check them, and TLAPS proofs of every safety property among these.

Paths below are relative to `src/apps/desktop/src-tauri/src/` unless they begin with `src/`.
`PROJECT.json` (`map`) gives the source lines of every definition.

## 1. Inventory

| component | state it keeps | operations | what is hard, what makes it correct | model |
|---|---|---|---|---|
| **Installation ledger** (`plugin_package_manager.rs`, `helpers.rs`, `network.rs`) | `installations-v1.json`: per installation a package id, origin, protection, and the releases active / pending / previous with a dependency status; release and environment directories; trash and staging | install (file, URL, builtin at start), status mark, activate, discard, rollback, uninstall, register and unregister a development directory | several durable effects per operation, a crash between any two; readers without the lock; partial failures. No entry refers to a release that is not on disk; no update loses the way back; a package is installed once | InstallLedger, ReleaseSlots |
| **Start of an installed plugin** (`plugin_package_manager/commands.rs`) | none of its own: an async command that lives for seconds or minutes | select a release, mark Preparing, run, mark Ready or Failed, activate or discard | everything it selected can change under it. The outcome is recorded on the release it was about; nothing stays Preparing | PluginStart |
| **Preparation of a plugin directory** (`plugin_runner.rs`) | venv or `node_modules` and a marker in it | create, sync, install, test, rebuild, mark; questions for the progress display; delete | no lock on the directory; files and runtimes that change meanwhile; failed installations. A marker is never a lie; what was announced as quiet is quiet; it ends | PluginDependencies |
| **Process table and watchers** (`plugin_runner.rs`) | table plugin id -> handle (`Arc<Mutex<Option<Child>>>`), one watcher thread per process | start, start for an action, replace, stop, delete, `is_running` | three kinds of mutex, none held across an operation. Each process is killed exactly once or reachable | PluginProcess |
| **Bridge sessions** (`plugin_llm_bridge.rs`) | token -> session (plugin, user token, abilities, expiry) | register, expire, revoke by token, by plugin, by plugin except one, all | order of revocation and registration. A running plugin has its session; a dead one has none | PluginProcess, BridgeRoutes |
| **Action bridge** (`plugin_llm_bridge.rs`; `clientActionBridge.ts`, `clientActionRegistry.ts` in `src/apps/desktop/src/lib/`) | host: request id -> channel; page: action id -> handler, whether it listens | a process plugin's call waits, the page runs the handler and answers | answer against time limit; events nobody listens to; a page that reloads. Every call ends, and silently only if the page lost it | ActionBridge |
| **Request routing and relay** (`plugin_llm_bridge.rs`, `client_ai_proxy.rs`) | the server, started by the first registration | 15 routes for processes, 5 commands for client pages; relay with retry, task services | checks in their order, billed requests repeated, answers lost. Each request answered; billed twice only where an answer went missing | BridgeRoutes |
| **Draft workspaces** (`plugin_package_manager.rs`, `network.rs`) | `workspaces-v1.json`, a directory and a packed file per draft | create, import, copy, edit, delete, pack, publish | half an hour between the check and the record of a publication; deletions taken back. What is recorded was published; versions rise | DraftWorkspaces |
| **Legacy migration** (`plugin_package_manager.rs`) | journal, staging | at each start: old directories become drafts or installations | each effect fails or is the last one before a crash. Nothing is lost or there twice; what the journal skips is safe | LegacyMigration |
| **Artifact format** (`plugin_artifact_v4.rs`) | none between calls | pack, inspect, extract | directories that change, file systems without case, foreign archives. What was packed can be installed; an extraction is whole or nothing | PluginArtifacts |
| **Script runs, shell, probes** (`plugin_script.rs`, `plugin_shell.rs`, `runtime_commands.rs`, `process_util/`) | sandboxes, a session per run | run a script or command, install, probe; capture, time limit, kill of the tree | pipes that fill, processes left behind, half-failed runs. Output is whole; a run ends, and its session with it | ScriptRuns |
| **Updater and installer** (`update.rs`, `src/apps/desktop/installer/`, `SettingsPanel.tsx`) | setup file, install directory | check, download, verify, apply; wait, clear, extract, restart | three processes and the files they run from. Only what was verified runs; a restart is over a whole release | SelfUpdate |
| **Page of a client plugin** (`PluginRunner.tsx`, `pluginRunnerHost.ts`, `clientSdkBootstrap.ts`, `uiViewHost.ts`, `client_host_caps.rs`) | the shown plugin, its document, promises, views, `kv.json` | open, switch, leave, save, call, answer | reads and answers that arrive late. Answers meet their calls; storages stay apart | PluginPage |
| **Pinned and recent lists** (`App.tsx`, `plugin-registry.ts`, `Sidebar.tsx`) | two lists on screen and in storage | hydrate, run, remove | look-ups overtaken by clicks and changes. What is uninstalled goes, what is not stays | PagePreferences |
| **PluginStore** (`plugin_store.rs`) | configuration, plugin directories | relay settings; file commands without a caller | | not modelled |
| **Capability registry** (`plugins.rs`, `capability.rs`), **security recall** (`plugin_security.rs`), **runtimes and mirrors** (`runtime_resolver.rs`, `mirror_presets.rs`), **builtin index and bundle** | little | look-ups, one request per call | | not modelled |
| **SDK, contracts, tokens** (`src/packages/`) | none | types, templates, CLI | | not modelled |

How they interact: setup migrates the old layout, registers the builtins and then serves
commands. The ledgers of installations and drafts and the migration share one lock
(`file_lock`). A start selects a release from the ledger without the lock,
prepares its directory, registers a session with the bridge, spawns the process and
puts it in the table, and goes back to the ledger with the outcome. The process calls
the bridge, which relays to the platform or, for an action of a client plugin, emits
an event to the window, whose answer comes back as a command. A client plugin's
calls go from its frame to the window and from there to the same relay. An
uninstallation stops the process, and the window is told and
looks its lists up again.

`PROJECT.json` lists the components with what is modelled of each, and the
hazards of this code at the line where they bite.

## 2. Modules

```
ReleaseSlots                     what the ledger promises about releases (abstract)
InstallLedger                    ledger + disk + lock + start-up + crash
 |- MCInstallLedger              instances: no builtin or one
 |   `- LedgerClaims             statements of comments and tests that do not hold
 |- InstallLedger_proofs         type, inductive invariants, safety theorems
 |   `- InstallLedger_refines    implements ReleaseSlots; FallbackKept
 `- PluginStart                  start_installed_plugin and client activation on top
     |- MCPluginStart
     |   `- StartClaims          one statement of an error message
     `- PluginStart_proofs       (with InstallLedger_proofs) who prepares; the ledger's invariants under starts
Sublists                         the elements of a sequence that are in a set
DraftWorkspaces                  drafts and their publication
LegacyMigration                  the old layout, at each start
PluginArtifacts                  pack, inspect, extract (with Sublists)
PagePreferences                  pinned and recent plugins of the window (with Sublists)
 `- MCLedgers                    MCInstallLedger and these four
     `- Ledgers_proofs           (with InstallLedger_proofs) drafts, migration, artifacts, lists
PluginProcess                    process table, watchers, sessions of one plugin
 `- ProcessClaims                one statement of a comment
PluginDependencies               venv and node_modules
 `- MCRunner                     PluginProcess and this one
     `- Runner_proofs            no process escapes; sessions; markers and packages
ActionBridge                     calls of client actions by process plugins
 `- ActionBridge_proofs          no orphan request, no silent hang
BridgeRoutes                     server, sessions, routes, relay
PluginPage                       the frame of a client plugin and its calls
 `- MCBridge                     the three ways plugins call
     |- BridgeClaims             one statement of a comment
     `- Bridge_proofs            (with ActionBridge_proofs) one server, bills, stores, answers
SelfUpdate                       panel, updater, setup, files in use
 `- UpdateClaims                 one statement of the panel and the documents
ScriptRuns                       one-off runs, capture, sandboxes
 `- MCDesktop                    MCPluginStart, SelfUpdate and this one
     `- Desktop_proofs           (with PluginStart_proofs) updates, restarts, output, sandboxes
```

`MCLedgers`, `MCRunner`, `MCBridge` and `MCDesktop` put parts side by side that
share no state: each behaviour is about one part, chosen at its start (`focus`), and the others
stay as they begin. That is a way of running several instances together and
claims nothing of their interleaving; parts that do share state are one module
(start and ledger; processes, watchers and sessions; publication and drafts).

### InstallLedger

State: `ledger` is the file (one entry per installation id, as the code replaces
the file by write-and-rename, a write is one step); `dirs` the release
directories `installed/<id>/releases/<release>`; `sources` the developers'
directories; `op` the operation that holds `file_lock`, with what it still has
to do; `app`, `bundle`, `todo`, `bootErr` the start-up (setup calls
`register_builtins` for each entry of the index that is compiled into the build).
`damaged` is history: installations an uninstall moved away and did not put back
whole.

Each operation is one action for the checks and the first durable effect, and
one action per later effect, because a crash or a call that takes no lock can
come in between:

| code | actions |
|---|---|
| `install_with_runtime_policy` (file, URL, builtin) | `Install` / `BootInstalls` (checks, extraction, rename into place), then `InstallCommit` or `InstallAbort` (clean-up may fail) |
| `mark_dependency_status` | `MarkDependencyStatus` |
| `activate_pending`, `discard_pending`, `rollback` | `ActivatePending`, `DiscardPending`, `Rollback` (ledger write), then `Purge` (deletes the directory that left the entry, failure ignored) |
| `uninstall` | `UninstallMove`, then `UninstallAbort` or `UninstallCommit`, then `UninstallEmpty` or `UninstallEmptyFails` |
| `register_dev_dir`, `unregister_dev_dir` | `RegisterDevDir`, then `DevLoads` or `DevFailsToLoad`; `UnregisterDevDir` |
| `register_builtins` in setup | `Boot`, then per builtin `BootRefuses`, `BootSkips` or `BootInstalls`, `BootDone` |
| end of the process | `Quit`, `Crash` (at any point) |

Abstractions: a release is its id, and one id has one content (a second package
with the id of an existing release but another SHA-256, which the code refuses,
is left out); package and environment of a release are one directory, since they
are created and deleted together as far as the ledger is concerned; the
per-plugin data directory and the audit log are left out (nothing reads them
back into the ledger); of a manifest only the kind of runtime remains. A ledger
write that fails leaves the old file.

Where the code and its comments differ without need of a run, the model follows
the code. A builtin that receives its bundled release keeps its pending
release, although the comment at `plugin_package_manager.rs:1152` says that it is
dropped. The registration of a development directory that does not load is modelled as
it is coded (`DevFailsToLoad`): a new entry is taken out again, but of an entry
that was overwritten only the timestamp is reset, so it keeps the directory
that was refused although the comment above that code
(`plugin_package_manager.rs:1749`) says that the write is rolled back.

### PluginStart

One record per start in flight (`call`): where it is and what it selected. The
selection takes no lock; the outcome steps conjoin the ledger's own actions
(`MarkDependencyStatus`, `ActivatePending`, `DiscardPending`), so they wait for
the lock (`Serving`) and do exactly what these do. The long middle part (dependencies,
spawn, 800 ms) is `Spawn`, `Survives`, `RunFails`, `RunPanics`; the runner's own
state is PluginProcess. `preview` is the client activation between its
unlocked look and its activation; it runs on the main thread and so excludes the
other main-thread commands, not the async ones. `leftover` is history: releases
a fault (failed ledger write, panic), an interrupted uninstall or the end of the
application left Preparing; nothing in the code repairs these, and the properties
say so by exempting them.

### PluginDependencies

One plugin directory, prepared by launches that overlap, since nothing locks it. `prep` is
how far each launch is: it reads the dependency file (`Read`), looks for the interpreter and the
marker (`LookAtMarker`), clears and makes a venv (`Clear`, `MakeVenv`, or `MakePlainVenv` and
`AddPip` where the runtime has no ensurepip), syncs or installs, tests the import, writes the marker
(`Mark`), and after a failed installation rebuilds once (`Rebuild`); for nodejs it unlinks a leftover of an
earlier version, installs with pnpm or npm and marks. Contents of dependency files are
numbers, and packages carry the number of the file they were installed for (0 for a mixture), so that
"the marker matches" and "the packages match" are two questions. The files are edited and put back
(`Edit`, `Revert`), the application's runtimes move (`Move`, which makes a venv unusable), and the
plugin may be deleted (`Purge`), which can fail half-way: the venv keeps its marker or not, and of `node_modules` there
remains everything, some of the packages with or without the marker, or nothing (`ModRemains`). `disturbed` is history:
another launch or a deletion changed the directory under a launch that was under way, or a deletion left a venv, or a
marker over missing packages.

### DraftWorkspaces

The ledger of drafts, their directories and the publications. A creation makes the directory and then
records it; a deletion moves the directory away, writes the ledger and empties the trash, and takes
back what it did when a later effect fails, which can leave part of the directory (`Leftover`). The code ignores
the result of the move back (`plugin_package_manager.rs:2076` and `:2083`) and writes the old ledger all the same, so `MoveBack` has
two outcomes: the directory is back, or it is `"lost"`, in a trash directory no later call looks at.
A publication packs into one file per draft (`PackDraft`), checks version and content
(`CheckDraft`), uploads what is in the file by then (`Upload`, whose answer may be lost), and records content and version
after checking again (`MarkPublished`). `raced` are drafts packed again while a publication had
the file, `torn` those whose creation or deletion was cut by a crash or whose move back failed. A packing that fails
its inspection has written the file already and counts as one that packed again.

### LegacyMigration

One old directory at a time goes through the stages of `migrate_one_legacy_directory`
(`now`): a draft is moved, listed, cleaned; another plugin is staged, installed (or becomes the pending release of
an installation that is there), given its data, and its old files are dropped. Every
effect has its failure, with the code's way back, which can fail as well (`botched`), and
`EndsEarly` ends the application between any two. Between starts the user activates, uninstalls and
deletes (`removed`). A package has one data directory for all its releases: `data` says of each file in it whose
it is, `CopyData` writes the directory's files over those of the same name, as `fs::copy` does, and `overlaid` remembers
what was replaced. The way back of a failed copy uninstalls the whole installation, also
one that was there before: the properties exempt the releases that shared it.

### PluginArtifacts

One artifact from the directory to the extracted release, on a machine whose file system may
ignore case, and back again. Names are representatives of their kinds (one that is left out,
two that differ in case only, a file and a directory that do, two directories that do, two spellings of one path); sizes
are a class. Two directories that differ in case only are accepted and become one where case is ignored (`Merged`);
a second packing reads their files under the spelling of the directory that was made first (`ReadBack`). The directory may change while it is packed, the archive may come from another
tool or arrive damaged, a write may fail, and the removal of a destination may, too (`past`).

### PagePreferences

Both lists work alike, and a behaviour is about one of them: the ids in storage, the plugins on screen,
and the look-ups under way, each of which asks for the installed ids and then loads these. The code
takes no care of look-ups that overlap with each other or with a click; `spoilt` says that this happened, or that a
load failed, since the page was loaded.

### PluginProcess

The processes of one plugin id (the table and the sessions are maps by id and no
operation touches two ids). A start stands for its process and its token. Every
lock acquisition of the code is a step: registration of the session (for an
action, of one that is required), spawn, check after 800 ms, `revoke_plugin_except`,
registration in the table (which replaces and kills under the lock of the table), the
watcher's look and its revocation, take / kill / revoke of a stop, revoke / take /
kill of a deletion, clone / `try_wait` / remove of `is_running`, the expiry of a
session after 12 hours and `revoke_all`. Starts may overlap; `mixed` records that they
did, or that there was a deletion, because the promises about sessions hold
without these only. Left out: the watcher's limit of 24 hours, logs, crash
dumps, and the file watcher of development directories.

### ActionBridge

`call` is the bridge thread of each call, `requests` the map of senders, `channel`
what was sent; `exec` is what the page does about the call, `mail` the events on
their way to it. A sender is taken out of the map under the lock of the map and
used after it, by the thread (`GiveUp`) as by the command (`Respond`, then `Send`),
so the last two are steps of their own, and so is the time between the limit
(`Expire`) and the removal. The page's `.catch` also catches a failed answer and
answers again, with an error (`Fails`). The page's part is asynchronous: the
listener is asked for and later there (`OpenPlugin`, `Listens`), handlers are
registered when their source was read (`ReadEnds`), and `Reload` forgets all of it
while plugin processes, threads and the map live on. `lost` is history: calls
whose event or execution the page lost.

Every action session may call; what the code refuses before it stores a sender
leaves no trace here and is in BridgeRoutes (`Nested`). A handler is known by its plugin; its
source and the capabilities it uses are left out; that it ends after at most 24 hours is
the adapter's own timer, which is part of `Finish`.

### BridgeRoutes

`signup` is a registration: find the server, or bind a socket and publish it if still nobody has
(`Publish` drops the socket of the one who comes second), then open a session. `conn` is a
connection with its thread. A request is a path, a method, a token, and a flaw: one of the things the
route would refuse it for. Each route is a record of what it needs, refuses, and how it reaches
the platform (once, with retries, by a task service, as an action, or not at all), and
`RouteRequest` goes through the checks in the code's order. `Outcomes` are the answers of the
platform together with whether it executed the request and whether its answer was lost;
`Again` and `Final` decide about repetition and about what the plugin is told. Commands of a client page are
requests that arrive without a token (`Invoke`).

### PluginPage

The page component stays when the user goes from plugin to plugin (`Switch`), so the frame keeps the old
document until the new entry was read; `Back` closes it. `doc` is what the frame runs, `pending` its
promises by id, `calls` the calls at the host with the plugin they were made for (`as`) and the one that made them
(`from`), `queue` the views on screen. History variables record the situations in which the code
does not keep plugins or answers apart: a switch without going back (`switched`), a document that
took another's place (`replaced`), reads of different entries at a time (`overtaken`).

### SelfUpdate

Each click has its way through the page (`click`), the updater it starts (`upd`) and the setup this runs
(`setup`). `disk` gives the release each installed file is of, `Locked` says which of them are in use: the
main program by the running application, the updater by those that wait. `Clear` is
`kill_app_processes`, which spares the setup's own ancestors, to which the application belongs as long
as it runs that started the updater. The payload, whether the feed gives a hash, and what it offers vary; writes
fail, the machine is switched off, the application is closed and opened at any time.

### ScriptRuns

Scripts, shell commands and probes run on the main thread, one at a time (`run`); an installation captures in the
same way. `child` writes into a pipe that holds `PipeCap`; `cap` is the capture: waiting,
late or not, collecting. A child may leave a `helper` behind that holds the pipe or the sandbox and
may be found by the kill of the tree or not. `used` says of each sandbox which run filled it last (0: there is
none), so that how recent it is, is the order of these numbers (`Recent`). A script
probes its runtime, fills its sandbox, installs, registers a session, runs; each step may be the last.

## 3. Runs

Twelve runs: six that pass and six that show a statement of the repository violated (section 5).

| run | instance | properties and what they say |
|---|---|---|
| `Ledgers` | installations: a package, 3 releases, 2 installations, crashes; drafts: one, two publications, 3 contents, 2 versions; migration: 3 old directories of one plugin, one of them a draft, data files `kv` and `log` that they share in part, 2 starts; artifact: up to 6 files, one change, both kinds of file system; lists: 3 plugins, `RecentMax` 2, 2 page loads, a click, 2 changes | `AllLedgersTypeOK`; `ReferencedReleasesOnDisk`, `SlotsDistinct`, `FallbackKept`: what an entry refers to is there, once, and the replaced release can be returned to; `DraftsHaveTrees`, `RecordedWasPublished`, `VersionsRise`; `NothingLost`; `WholeOrNothing`, `PackedIsInstallable`, `RepackIsSame`; `ListedIsInstalled`, `KeptUnlessTaken` |
| `LedgerBuiltin` | a builtin that is in the catalogue as well, development entries of its package and of another one, 2 builds that alternate, 3 installations, crashes | `OneInstallationPerPackage`; `BootAccountsForBuiltins`: a start without error leaves each builtin with its bundled release in its protected entry, or a development entry that comes before it with that release; `ImplementsReleaseSlots`: every multi-step operation is one change of slots or none |
| `StartCalls` | 2 overlapping starts, client activations, all commands of the ledger, failed writes, panics, crashes | `PreparingHasAStart`: a release says Preparing only while a start is at work on it |
| `Desktop` | a start without faults; 2 clicks on update, 2 releases, 3 payloads; 3 scripts, 3 runs, 1 kept sandbox, a pipe of 1, 2 lines | `DesktopTypeOK`; `RunsVerified`, `RestartIsWhole`; `OutputIsWhole`, `RunsWhatWasSent`; `EverythingEnds` (liveness of all three) |
| `Runner` | 2 starts (one for an action), a stop, a deletion, a query; 2 launches, 4 settings of runtime and files, 2 changes, 2 moves | `RunnerTypeOK`; `NoProcessEscapes`, `NewSessionKept`, `SessionEndsWithProcess`; `SkipIsSound`, `LaunchesAreProvided`, `QuietLaunches`, `PreparationEnds` (liveness) |
| `Bridge` | 2 calls of actions, 2 plugins, a reload; one connection with every route, sound and unsound requests, 2 registrations; 2 plugins in the page, 2 mounts, a save, 2 calls | `AllBridgeTypeOK`; `NoOrphanRequest`, `NoSilentHang`; `OneServer`, `BilledOnce`; `StoresAreApart`, `AnswersAreOwn`; `NobodyWaitsForever` (liveness) |

*Bounds.* `MaxInst`, `MaxText`, `MaxVersion`, `MaxStarts`, `MaxFiles`, `MaxChanges`, `MaxInstalls`,
`MaxClicks`, `MaxPageLoads`, `MaxRelease`, `MaxOutput`, `MaxRuns`, `PipeCap`, `KeepBoxes`, `MaxMoves`, `MaxReloads`,
`MaxMounts`, `MaxSaves` and `MaxPosts` are in guards; the code has no such limits, except `KeepBoxes` (its
own is 8), `PipeCap` (the operating system's) and `RecentMax` (the window's own is 5). Three releases are needed
so that all slots are filled and a fourth place is contested by an install; two builds so that a bundled release
comes back; two starts, two clicks, two calls, two publications, two launches, two hydrations
because each of the hazards is about two of a kind, and a third adds no new order of the
steps that matter (each step looks at its own record and at what is shared). Three contents
make a stale content (A, B) different from one that came back (A, B, A). Two old directories may share
an installation and a third is a draft; one file of data is in both and one in the second and in the release the user has
already, so that each may be replaced or not. Six files are enough for each kind of conflict of names. One connection
suffices for routes, because connections share nothing but the server, and the registrations of two tokens
overlap.

*Symmetry* is used in `StartCalls` only (`SameCalls`; calls differ in nothing but their names, and the
properties checked there are no liveness properties).

*Deadlock.* `CHECK_DEADLOCK FALSE` stands where bounds or the end of the work stop a behaviour: when
each start, launch or call is over and each count is used up nothing is left to do. In `LedgerBuiltin`
and `StartCalls` deadlock is checked. What can really hang is said by the liveness properties.

*Fairness.* Each is what a thread, a process or a runtime gives without the help of a user:

- `StartFairness`: the holder of the lock goes on and a client activation ends (weak); a start
  gets the lock that it finds free again and again (strong: the mutex passes no waiter over for ever), and the
  blocking part ends. Faults and crashes are off in `Desktop`: nothing in the code
  repairs what they leave.
- `ProcessFairness`: watchers poll, stops and deletions that have begun are threads that go on.
- `DepFairness`: each step of a preparation is a child with a time limit.
- `BridgeFairness`: threads of the bridge run on, the page handles its events. `Expire` is the time limit of the
  thread; it is enabled only when the page has neither the event nor the handler at work, since the
  handler's own limit is the shorter one. A page that is gone does nothing for ever.
- `RoutesFairness`: reads and relay calls have time limits. `PageFairness`: the host answers.
- `UpdateFairness`: the updater and the setup, once started, go on; the page and the user need not.
- `ScriptFairness`: the host goes on and looks at its clock; children may do nothing for ever.

*History variables.* Several properties except situations for which the code takes no precaution, and
a variable records that one of them occurred: `damaged`, `leftover`, `mixed`, `disturbed`, `raced`, `torn`,
`botched`, `removed`, `overlaid`, `past`, `spoilt`, `lost`, `switched`, `replaced`, `overtaken`, `overlapped`, `faulty`, `held`. None of
them restricts what the program does (of `past`, `PackAgain` reads whether the extracted directory was packed already); each is explained where it is declared, and section 6 lists what follows for the
program.

*Mutants.* Each property of a passing run has at least one mutant in `PROJECT.json`: an operator next to the
definition it replaces, with the mistake in its comment. TLC finds the property violated
when the mutant takes the place of the definition.

## 4. Proofs

Every invariant and every action property of the passing runs is a theorem of the specification of its
module: it holds for all values of the constants, with any number of packages, plugins, starts, calls,
clicks and files. `PROJECT.json` (`theorems`) lists the theorems with the property each of them states. Four
properties are left to TLC, all of them about what happens at last: `EverythingEnds`, `SessionEndsWithProcess`,
`PreparationEnds`, `NobodyWaitsForever`. They need fairness and `ENABLED`, which the prover does not handle.

*Assumptions.* Only those the modules declare, and TLC evaluates each of them for the instances it checks:

- `LedgerAssumption`: builtins have distinct ids (the index is built so), ids of releases and directories are
  disjoint, every build bundles a release of each builtin. `StartAssumption` fixes `MarkStatuses` to the three
  a start uses.
- `ProcessAssumption`, `BridgeAssumption`, `RoutesAssumption`, `PageAssumption`, `MigrationAssumption`: subsets are
  subsets (starts with a token are starts, old drafts are old directories), and the values that mean "nobody" are
  nobody's.
- `DependencyAssumption`: the settings are those a manifest can ask for (`PluginSetting`). `UpdateAssumption`: a payload has
  the main program, the updater, both or none. `RunsAssumption`, `ArtifactAssumption`, `PreferencesAssumption`,
  `DraftAssumption`: bounds are numbers, some of them not 0.

Sets are arbitrary otherwise, also infinite.

*InstallLedger_proofs.* Type correctness is proved together with `FreshIds` and `Phases`
(`BaseInv`), since `InstallStage` needs that an operation works on an id that was
given out. The safety invariants are not inductive alone, because the check of
an operation and its last effect are steps apart. `LedgerInv` therefore says what
the lock protects: the entry an install will write is still the present one with
one slot changed (`InstallHolds`), what a purge deletes is in no slot any more
(`PurgeHolds`), and what an uninstall may put back is what was taken out, with
nobody in its place (`UninstallHolds`). There is one lemma per group of actions. `BootAccountsForBuiltins` is an
action property: the step that ends the start-up without an error finds each builtin accounted for. `BootInv` is
the loop invariant of `register_builtins` behind it: the builtins before `todo` are accounted for, and an install
under way will account for the present one (`ArrivesFor`). That the later builtins do not undo it is `AccountedKept`: a write for
another package changes nothing for this one.

*InstallLedger_refines.* `LedgerRefinesSlots`: under the invariant each step of the
ledger is a step of `ReleaseSlots` or a stutter; the mapping takes the releases
of the entries for `slots` and an uninstall whose trash is not yet empty for
`leaving`. `FallbackAlwaysKept` is an action property proved from the same
invariant.

*PluginStart_proofs.* Every step of a start is a step of the ledger or none (`StartStepIsLedgerStep`), so that
the invariants of the ledger hold under any number of starts (`StartAndLedgerInv`). That is a lemma and no result: it
follows from how the actions of a start are put together, and says nothing about whether the code takes the lock. `PreparingHasAStart` relates slots to the calls that
work on them; it needs of the ledger's operations that an install does not bring a release that
says Preparing already (`ArrivesUnprepared`), and that what an uninstall may still put back is recorded in `leftover`, as
far as it says Preparing (`TrashExcused`).

*Ledgers_proofs.* Four parts that have nothing in common but the module that runs them.

- Drafts: `DraftInv`. `TreeFollowsLock` gives the place of a draft's directory at each effect of the operation that
  holds the lock, and `PublicationKeepsFile` says that a publication finds in the file what it packed and that what it is about to
  record is on the platform. Both except the drafts that `torn` and `raced` name. `VersionsRise` follows,
  because a record is only written over one that was checked again.
- Migration: `EachIsAccounted` gives every directory one of three places (`Untouched`, `AsDraft`, `AsInstalled`) and
  the one that is being migrated one of their forerunners, stage by stage (`OnItsWay`). A draft never gets among the
  installations, nor the other way round (`MigrationShape`); without this the journal could cover a directory for
  the wrong reason.
- Artifacts: `ArtifactInv` holds of archives of any length: what was extracted so far lies in its place, or is spelled like
  another entry (`Laid`), which is why an accepted archive that is through has given every file. `PackedInv` adds
  the second packing: while it goes on, the artifact is a beginning of the first one and what waits is the rest
  of it (`BeginningOf`), and the directory is exactly what the first one unpacks to (`Holds`), under the same names as
  long as no directories were merged (`NamesStay`). That both packings come out in the same order
  rests on the sort, a fixed sequence from which each takes what is there (`Those`).
- Lists: `PreferencesInv`. As long as nothing interfered there is one hydration, and it knows all that is
  stored and still installed (`OneHydration`). Lists have no plugin twice (`ListOf`), without which taking a
  plugin out could leave it in. `KeptUnlessTaken` follows step by step; a run of a plugin only moves it to the front and cuts the list
  (`MovedAndCut`).

*Induction over data.* Filtering a sequence is defined by recursion (`Sublists`, a recursive function), and the induction theorems of
the library take an operator as a parameter, which none of the provers can instantiate. The lemmas about it (`KeepingExists`,
`ThoseFacts`, `ThoseAlike`) therefore go by the set of lengths at which a fact fails and the least number in it (`LeastNumber`,
`SetInduction`), for which the library's well-foundedness of the numbers is enough.

*Runner_proofs.* `EscapeInv` adds to `NoProcessEscapes` what the steps
rely on: a process in the table is that of a start that registered it
(`ChildOfRegistered`, `HandlesRegistered`), a registered child nobody took is
in the table (`LiveInTable`), one that was taken is about to be killed or dead
(`TakenDies`), and what a query found gone stays gone (`GoneIsGone`), so that
removing its entry later removes no live one. `SessionInv` builds on it: as long as no two starts overlapped, a start holds
its session until it has registered (`StartHoldsSession`), and a watcher revokes only for a process that is really down
(`ExitedIsDown`). `DepInv` is about versions of the dependency file in three places: the file now, what the launch has
read, what the venv has and is marked with. `LaunchTruth` orders them at each step of a launch, `WorldTruth` between
launches; the essential one is that the marker of a venv that is usable and lacks packages is behind the file, so
that the next launch does not skip.

*ActionBridge_proofs.* Three facts make the two invariants inductive: before its
event is emitted the page knows nothing of a call (`PageUnaware`); when the
command has the sender or has sent, the map has it no more (`AnswerTaken`); and
the event of a waiting call is with the page, processed or lost, and no longer
with the page when the thread gives up (`EventAccounted`).

*Bridge_proofs.* `ServerInv`: the address that was published is that of the one listener with a thread, and a
registration that has bound a socket of its own has not published it. `ConnInv` counts, for each connection, how
often the platform was asked and how often it executed: it is asked again only while nothing was
executed or an answer was lost. `PageInv`: until the user goes from one plugin straight to the next, everything about
the page is about the plugin shown (`OnePluginShown`); until a document takes the place of another one, the promise of a call's id
is the one that made the call (`OneDocumentAFrame`), and the queue of views has each waiting call once (`QueueHolds`).

*Desktop_proofs.* `UpdateInv`: at most one update is under way unless `overlapped` says otherwise (`OneAtATime`), and `Chain` follows its bytes
from the check over the file and the running setup to what this has written, from which both properties of the
update follow. `ScriptInv`: what is in the pipe and in the reader adds up to what the child wrote (`CaptureFits`), and a sandbox has the
files of its run (`RunFits`).

*Theorems without a property of a run* are the type invariants of single modules (the runs list those of the
compositions, which are their conjunctions) and the inductive invariants `LedgerInv`, `EscapeInv`, `DepInv`, `UpdateInv`, `ScriptInv`.
Before it was proved, each inductive invariant was checked by TLC as an invariant of the run of its module.

*What the attempts to prove changed.* `BootAccountsForBuiltins` once said that the protected entry has the bundled
release. That is false, and the proof stopped at it: where a development entry of the package precedes the
builtin's, setup brings the release to that one. The instance had two builtins and no such order, so TLC had not met it; the property was
corrected and the instance now reaches it. `LaunchesAreProvided` promised packages to every Node plugin; one without `package.json`
has none to install.

## 5. Findings

Six statements of comments, messages, documents or tests that the code does not keep. Each has a run that
checks the statement alone and a counterexample; `PROJECT.json` (`findings`) quotes the lines.

| run | statement | what happens |
|---|---|---|
| `ClaimBuiltinActive` | a bundled release of a builtin takes effect | a directory left by an interrupted install, or a rollback by the user, makes `install_with_runtime_policy` refuse the release at every later start, and `register_builtins` returns before the other builtins |
| `ClaimSourcesKept` | a development directory's sources are never deleted | an update for a Dev entry is accepted, and the second activation deletes the parent of the developer's directory |
| `ClaimStarted` | a process release is activated only after its process has started | `activate_pending` takes what is pending at the end, not what was selected and started |
| `ClaimNewSession` | the replacement of a process keeps the new session | of two overlapping starts the first to survive revokes the session of the second, which then replaces it |
| `ClaimBilledOnce` | no repetition of a request the platform may have executed | a lost or late answer counts as 502 and is repeated, with a new request id |
| `ClaimUpdateTakesEffect` | after the updater was started the new version overwrites and restarts | the setup stops at `updater.exe`, the file its own parent runs from; nothing is restarted |

## 6. What no property covers

Besides what the notes of the hazards in `PROJECT.json` say, reading the code for these models showed the following.
They are plain differences of one line, or need what the models leave out.

- A stop during a start revokes the session of that start: the process comes up without access
  (`NewSessionKept` excepts it). `delete_plugin` revokes before it takes the process, so that a start in between
  leaves a token (`SessionEndsWithProcess` excepts deletions). An uninstallation during a start leaves a process
  without an installation, which a stop still reaches.
- A builtin keeps its pending release when a new build brings another one; a development directory that does not
  load stays in an entry that existed (see InstallLedger).
- Nothing deregisters the handlers of a plugin that was updated or uninstalled, and the index by plugin would then remove the
  handler of another plugin with the same action id.
- The panel sends the relay settings with snake-case argument names, which arrive as absent: saving clears them.
- `kv.json` may legally become larger than the size at which each later operation is refused.
- The throttle of development reloads shows the first save of a burst, not the last; the watcher of a development directory
  restarts the process without waiting for the restart before.
- `plugin:exited` carries no pid: the late event of a replaced process clears the running state of the new one.
- A watcher of a process ends after 24 hours. A ledger that cannot be read counts as empty. `plugins_root` is read once.
- An import test that ran out of time counts as passed; the marker of `node_modules` has no fingerprint.
- A draft whose deletion failed twice, in the removal and in the move back, is listed without its files, which lie in the
  trash for good: an open handle on Windows can cause both (`DraftsHaveTrees` excepts it).
- The migration copies the data of several old directories of one manifest id into one directory, the later over the
  earlier, and then deletes the sources: the `kv.json` of one of them is lost, or the one of a plugin that was installed
  already (`NothingLost` excepts a file that another one of its name replaced).
- A deletion of a plugin that failed half-way can leave `node_modules` with its marker and without packages, or a venv that passes for
  one: a plugin installed under that directory name skips its installation (`SkipIsSound` and `LaunchesAreProvided` except it).
- Two directories in an artifact whose names differ in case only are one where case is ignored, and packing the extracted release
  again gives another artifact (`RepackIsSame` excepts it).
- The capability registry is filled at a start and at a load, and nothing takes the capabilities of a replaced or
  uninstalled release out of it (`plugin_runner.rs:2109`).
- Two launches at a time may spoil each other's environment (`SkipIsSound` and `LaunchesAreProvided` except it), two publications of
  one draft share the packed file, two hydrations may bring a plugin back until the next start: the exemptions of the properties are what
  the code does not give.
- A file `Src` beside a directory `src` is packed but cannot be extracted where case is ignored; two spellings of one path are
  two entries and one file. Both need an unusual or foreign artifact.
- A request the platform executed without the content the route needs is a failure of some routes and a success of
  others.
- A process that a child leaves behind, and that holds its pipe, keeps the run and the main thread; streamed runs get 100 ms
  for their last lines.
- The uninstaller removes the default directory wherever the installation is.

## 7. Not modelled

- PluginStore: one file operation per command, and the window calls only the two of the relay settings.
- Capability registry, security recall, builtin index, runtimes and mirrors: look-ups, functions of files and
  environment. What they find is a constant or a free choice of the models that use it.
- `mark_draft_workspace_published` (`commands.rs:280`), which records the version and the hash its caller names, without an upload, and
  `pack_draft_workspace`: no page of this build calls them. With the first, `RecordedWasPublished` would rest on the
  caller's word.
- In modelled parts: contents (texts, sizes, hashes beyond equality), the wording of errors, logs, audit records, crash dumps, the
  file watcher of development directories, the interactive installer with shortcuts and registry, the signature of
  a setup (no build requires one), reads and files of the client host, drawing.
- Data races in the sense of the language: the `unsafe` parts of the host are calls of the operating system, the rest is safe
  Rust, and the window has one thread. Disk corruption is outside the models; a replaced file is old or new.

## 8. What is left to prove

No invariant and no action property of a run is left without a theorem. What could still be added:

- Abstract specifications for other parts, with the refinement proved as for the ledger: an atomic publication for `DraftWorkspaces`, a
  table with an atomic replacement for `PluginProcess`.
- Of the liveness properties, the facts their arguments rest on and that are invariants: who holds the lock has a step
  to take, a call that waits has a thread with a time limit.
