# CancerBroker in TLA+

CancerBroker (Rust, one crate under `src/src/`) is a guardian for OpenCode: a
daemon that removes the storage files and processes which finished AI sessions
leave behind, ends processes that leak memory and rust-analyzers that hold too
much of it; a server that offers parts of this to MCP clients; and a command line
that installs and runs it. This directory models the parts of it that are hard to
test, checks them with TLC on small instances, and proves their safety properties
with TLAPS for every value of the constants.

Paths below are relative to the repository root (`src/src/...` is the crate).
`PROJECT.json` maps every definition to the lines it stands for, and lists the
runs, the theorems and the hazards the properties were written for.

## 1. The system

### 1.1 Components

| component (source) | state | operations | depends on |
|---|---|---|---|
| dedupe store (`completion.rs`) | a map from dedupe key to pending/processed with a time; the state file | `begin`, `mark_processed`, `purge_expired`, `load_completion_state`, `persist_completion_state` | — |
| dispatch and automatic cleanup (`dispatch.rs`, `autocleanup.rs`) | the store, through `AutoCleanupEngine` | dispatch an event, execute a cleanup, infer completions, reconcile idle sessions | store, resolution, remediation, cleanup |
| resolution (`resolution.rs`) | the index of one inventory | processes and artifacts of a session | inventory, snapshot |
| artifact cleanup (`cleanup.rs`, `safety.rs`) | the files | allowlist, grace, removal | file system |
| remediation (`remediation.rs`, `autocleanup.rs`) | none of its own; the processes | validate, SIGTERM, wait, SIGKILL, for a process or its group; tell of it | inventory, kernel |
| storage snapshot (`monitor/storage.rs`, `daemon.rs`) | snapshot, watcher, pending notices | scan, apply notices, fall back to scanning | file system |
| leak detector (`leak.rs`) | growth history per (pid, start time) | observe an inventory | inventory |
| rust-analyzer guard (`memory_guard.rs`, `daemon.rs`, helper binary) | over-limit history per process, clock of the last remediation | session rule, observe, record; one shot | inventory, remediation |
| daemon loop (`daemon.rs`) | all of the above | one cycle: receive, collect, batch, reconcile, guards, save | everything above |
| event socket (`ipc.rs`) | the listening socket and its file | bind, accept with a timeout, read a batch, drop | clients, other daemons |
| setup and wizard (`setup.rs`, `setup_ui.rs`, `setup_tui.rs`) | `opencode.json`, `config.toml`, a backup of each, the answers so far | install, MCP-only install, uninstall, the dialogs | the owner of the files |
| policy, budgets, evidence (`policy.rs`, `runtime.rs`, `evidence.rs`) | the evidence directory | decide, name, persist, fall back | whoever else writes there |
| orphans command (`orphans.rs`) | the outputs of its cycles | list, kill, watch, guard | inventory, `ps`, validation, remediation |
| notifications (`notifications.rs`, `notification_session.rs`, helper binary) | the snapshot of the desktop, a flag of the process | refresh, send, hand to the helper | the desktops |
| MCP server (`mcp.rs`) | a leak detector behind a mutex | `status`, `scan`, `scan_leaks`, `cleanup`, `list_evidence` | detector, policy, evidence |
| configuration and CLI (`config.rs`, `cli.rs`, helper binary) | `config.toml` | load, read by lines, run a command | everything above |
| inventory, resources, platform, metrics, packaging | — | reads of the operating system, constants, text | — |

### 1.2 How they interact

The daemon is one thread. A cycle waits on the socket (until an event batch or
the reconciliation interval), takes a process inventory and a storage snapshot,
dispatches the batch, infers and reconciles the sessions that still have
artifacts, samples memory for the leak detector and the guard, and saves the
dedupe store. Nothing in it is concurrent with itself, and nearly all of it is
concurrent with the world: files are written and removed, processes start, exit
and hand their pids on, editors start new rust-analyzers, notices of the file
system arrive late, clients connect and stay silent, users edit the files that
`setup` is rewriting, and the daemon may be killed at any step.

Other commands run at the same time and share files with it: each refreshes the
snapshot of the desktop, each that runs the policy writes evidence, a second
daemon binds the same socket, `setup` rewrites the configuration that the others
load. `ra-guard` and the MCP server have histories of their own; the calls of
MCP clients overlap.

### 1.3 What is hard, and what makes it right

- **Work remembered over restarts.** Cleanups happen as events are handled; the
  store is saved once per cycle, in place. A completion must not be repeated
  inside its TTL, open work must not be forgotten, and a crash may cost at most
  the completions since the last save.
- **Stale decisions.** Files are checked and removed, and processes chosen and
  signalled, on a snapshot, an inventory and a clock that are older than the
  deed. A fresh file must not go, a bystander must not get a signal, the newest
  rust-analyzer must not be taken for an older one.
- **Partial effects.** A file kept in its grace or outside the allowlist, a
  process that was rejected, an error over one candidate: the others, and the
  record of what was done, must come out right, and whoever was signalled be told of.
- **Late and ambiguous notices.** The snapshot is updated one notice at a time
  with a look at a disk that has moved on.
- **Patience and progress.** Nobody is ended for a spike or on samples from
  before the last remediation; nobody escapes for ever through the cooldowns of
  others; files come clean at last.
- **Files of others.** `setup` rewrites two configuration files in place, and
  what their owner wrote must survive faults, repeats and edits at any moment.
- **Files of several.** Evidence, the snapshot of the desktop and the socket are
  each one path that several processes empty, write and remove without a lock.
- **Calls out of order.** A scan of the MCP server takes its inventory before it
  waits for the detector, so samples may be observed in another order.
- **Two readers of one file.** The helper of `ra-guard` reads `config.toml` by
  lines, everything else with a TOML parser; they must mean the same.

## 2. Modules

| module | models | extends |
|---|---|---|
| `CompletionStore` | `completion.rs`: the store and its file as operators on values | — |
| `CompletionDaemon` | the daemon's cycle over the store, files, processes and clients | instantiates `CompletionStore` |
| `Ledger` | what completion promises, without files, processes or batches (abstract) | — |
| `CompletionHistory` | the promises, told by history variables which never look at the store | `CompletionDaemon`; instantiates `Ledger` |
| `StorageCache` | `StorageSnapshotCache` and the incremental notices | — |
| `ProcessTable` | processes, pids and groups of a Unix machine (external) | — |
| `Remediator` | what `remediation.rs` promises its callers, without pids, signals and waits (abstract) | — |
| `Remediation` | `remediate_processes`, one system call per step, pids reused; its notices | `ProcessTable`; instantiates `Remediator` |
| `Orphans` | the four modes of `cancerbroker orphans`, pids reused | `ProcessTable`; instantiates `Remediator` |
| `MemoryGuard` | session rule and memory guard in the daemon's cycle | — |
| `LeakDetector` | `RssLeakDetector` fed with inventories; the abstract view of the MCP server | — |
| `SharedFile` | what a file may contain that several processes empty and write | — |
| `RunOnce` | one pass of the policy and the evidence of it, by several callers | `SharedFile` |
| `Mcp` | the server: overlapping scans, cleanups and listings | `LeakDetector`, `RunOnce` |
| `EventSocket` | the path of the socket and the daemons that bind it | — |
| `Desktop` | snapshot of the desktop, direct and helped notices | `SharedFile` |
| `ConfigFile` | the two readers of `config.toml` as operators on documents | — |
| `Commands` | the commands side by side on all they share | `EventSocket`, `Desktop`, `RunOnce`, `ConfigFile` |
| `SetupWizard` | the questions: full-screen wizard and line prompts | — |
| `Setup` | the commands on the two files, with owner and faults | `SetupWizard` |

`MC*` modules give the constants of the runs. `CompletionProofs`,
`StorageCacheProofs`, `RemediationProofs`, `OrphansProofs`, `MemoryGuardProofs`,
`McpProofs` (with the detector's), `CommandsProofs` and `SetupProofs` hold the
theorems of the module they extend.

Operators marked "Faulty" stand next to a definition as it would be with a
plausible bug; `PROJECT.json` pairs each with the property that TLC finds violated
when the definition is replaced by it. No action uses them.

### 2.1 The completion daemon

`pc` says where the cycle stands: `receive` and `read` (`ipc.rs`), `collect`
(inventory, snapshot and clock), `batch`, `reconcile`, then for the event in hand
(`job`) `processes`, `artifacts` and `remove`, and at last `persist` and `write`.
Each action is a stretch of code between two points at which the world can
matter: the check of a file's age and its removal are two actions
(`CheckArtifact`, `RemoveArtifact`), creating the state file and filling it are
two (`CreateStateFile`, `WriteStateFile`; a death in between leaves it torn, and
`FlushFails` loses the content without an error). `Crash` is possible
everywhere; errors that end the daemon (`RemediationFails`, `VanishBeforeStat`,
`RemoveFails`, `ReceiveMalformed`, `EnforcementFails`) leave what was done done.

`JoinedText` says which dedupe keys coincide, since their fields are joined by a
colon that is not escaped. Remediation is one step here and the subject of
`Remediation`; `EnforceMemory` stands for both memory guards: it ends any set of
owned processes. Sessions and processes are handled in any order, which
covers the code's.

`CompletionHistory` adds `last_done` and `open`, what a perfect memory with
rollback at crashes would hold; `DedupeInv` relates them to the store and its
file. `Ledger` says the same as an abstract specification: a key is idle, open or
done at a time; a program that stops falls back to what it has saved; a save is
not atomic. `ImplementsLedger` maps the store in memory to the ledger's entries,
and the state file to its saved copy, unreadable while it is torn.

### 2.2 Storage, remediation, orphans, memory guard

`StorageCache`: `disk` is the truth and `snapshot` what the daemon believes of
each file; notices queue up and are `taken` by a refresh, which applies them one
by one against the disk of that moment. A scan visits files one by one. `missed`
are the files changed between the first scan and the registration of the watch,
the one window the code leaves. One root is modelled; every change yields a
notice that covers it (or an ambiguous one, or the watcher fails); pure access
notices are left out.

`Remediation`: `Instances` are processes that live once each; `pid` and `group`
may be handed to a younger one as soon as a process has been reaped. `elders` ran
when the inventory was taken. `Probe`, `SendTerm`, `WaitSeesExit`,
`WaitTimesOut` and `SendKill` are the system calls of one request; when all
requests are done, `ended_groups` and `notify_completion_cleanup_results` say who
is told of what. The index of processes by session has an entry for each time a
command mentions the session (`Mentions`), as in `opencode --session ses_x --log
/logs/ses_x.log`; the entries of a process stand side by side, each is remediated
and has its own result in `outcomes`, and its own notice if the group has none. Pid and group of a process are read atomically; `setpgid` after
the inventory and Windows are not modelled. `same_uid_only` is on, as by default.

`Orphans`: to the process table come `parent` (init after an exit), `detached`
(no terminal) and `large` (over `--threshold-mb`). `CollectLive` takes the
inventory, and with it what validation will say (`rightful`); `MatchTtys` is the
later lookup of terminals by pid, which gives the candidates (`todo`); each is
remediated as in `Remediation`, or by SIGKILL at once with `--force`. Validation
in `remediate_process` repeats what the scan has allowed and never rejects.
`unprinted` says whether an output waits for `run_orphans` to return. The order
of candidates (by memory) is left open, which covers the code's.

`Remediator` is what both rely on: out of an inventory (`known`) they ask for one
process or group after the other (`target`), of the inventory only whom they ask for
is signalled or ended, a request ends in an answer when nobody asked for runs and
everyone who got a signal is reported (`terminated`), or in an error over what has
exited. In `Remediation` the target is the request in hand and those reported are
those with an outcome of their own or their group's; in `Orphans` it is the current
candidate, and `ended` is what `terminated_count` counts. Processes outside the
inventory, younger ones with an old pid among them, may be hit by either.

`MemoryGuard`: a cycle is the session rule (`rule`, `replace`) and then the guard
(`guard`); ages and times are "time since", cut at the threshold they are compared
with. Both features are enabled and in enforce mode. The session of a
rust-analyzer is fixed at birth; that the code can leave it unresolved is
`NoSession`. As in the code, the session rule is not subject to the guard's grace,
cooldown or `enabled`.

### 2.3 Leak detector and MCP server

`LeakDetector` is the detector by itself: an inventory at a time, whatever the
distance between them (`samples` is history), and restarts. `Mcp` puts it behind
the server: a scan takes its inventory (`scan_leaks`) and observes it later, when
it has the mutex (`build_scan_leaks_output`); of two calls the later inventory
may be observed first, which `overtaken` records. `cleanup` is a pass of `RunOnce`.
`list_evidence` reads the directory, and then looks at one entry at a time while
cleanups write and the user removes.

`RunOnce` has the policy as operators (eligibility, cooldown, budgets, the
decision with its rationale) and the writing of evidence in the steps of the file
system: directory, open (which empties), write, and the fallback. Evidence is
named by second and target only, so callers of one second meet in one file;
`SharedFile` says what is in it then. The
rationale matters through its length: a shorter text over a longer one leaves the
end of it.

### 2.4 Commands side by side

`Commands` runs the programs of `Program`, step by step and any two at a time:
every one refreshes the snapshot of the desktop, some load the configuration and
refresh the configured path as well, and then do their own work: evidence, the
daemon's socket and notices, the one-shot guard. The world edits, removes and
kills: the owner edits `config.toml`, `setup` rewrites it (`SetupBegins`,
`SetupEnds`), desktops open and close, evidence is removed, rust-analyzers exit.

`EventSocket`: `bind` looks for a file, removes it and binds, in separate steps;
`Drop` removes whatever is there. `Desktop`: a refresh empties the snapshot and
writes it (`SharedFile` again); a process without a desktop of its own, or whose
first notice has failed, goes through the helper and depends on the snapshot.
The helper may be missing, fail to start or exit with a failure, also for a desktop
that is open (`HelperFails`). `unexplained` records a notice lost although the desktop
saved last is open, nothing disturbed its snapshot, and the helper did not fail that
desktop. Assumed are Linux, one user, that a file which is there can be read, and that
a write succeeds unless its process is killed.

`ConfigFile`: a document is a mode and a sequence of tables; `pretty` says that setup
has written it, with arrays of two or more elements on as many lines. `load_config`
takes tables as TOML does: none twice, none without a key of its section, defaults
for a section that is missing. `parse_ra_guard_config` goes through the tables with a
current section and stops at what it does not understand; `Reading` is what it has
kept after each, a recursive function, so that it can be reasoned about.

### 2.5 Setup

`SetupWizard` has the wizard's step index and answers (moving back, disabling and
enabling included; digits and Backspace are folded into "confirms any number")
and `prompted`, the outcomes of the line prompts. `Setup` reduces each file to its
owner's part (the number of the last edit) and setup's part (the MCP entry and
whether the layout is setup's; the guard section). A command reads, backs up and
writes each file in separate steps. `fs::copy` and `fs::write` empty their target
first, hence `Cut...`: a cut `opencode.json` no longer parses; a cut `config.toml`
may (an empty file is a TOML document), and then the next install goes on from it.

## 3. Runs

| run | question | answer |
|---|---|---|
| `dedupe` | do memory, file and history agree over saves, failed saves, crashes, restarts; is this the ledger; does storage come clean? (`DedupeIInv`, `DedupeWindow`, `OpenWorkRemembered`, `ImplementsLedger`, `StorageComesClean`) | yes; clean unless the state file is torn or a silent client holds the daemon |
| `files` | may a file be removed inside its grace, or an event be marked processed over a file that was kept? (`GraceRespected`, `ProcessedMeansClean`) | no, but for files written between check and removal, and files outside the allowlist or under a root listed after a missing one |
| `cache` | is every change of a file accounted for, and does the snapshot converge? (`ChangesAccounted`, `CacheIInv`, `Converges`) | yes, but for changes between first scan and watch |
| `remediation` | who may get a signal, are outcomes true, are groups ended, does every request end as the remediator promises, does it end, who is told? (`EldersSpared`, `OutcomesTrue`, `GroupsEnded`, `ImplementsRemediator`, `Ends`, `Announced`, `RemediationIInv`) | of the processes of the inventory only accepted ones and their group mates; the rest yes, and everyone signalled is told of, again only if the command mentions the session repeatedly and the process was not yet reaped, or its pid reused |
| `scope` (violation) | is every signalled process of the inventory an accepted one? | no: `killpg` reaches rejected members |
| `guard` | patience, cooldown, the newest spared, progress (`Patience`, `CooldownKept`, `NewestSpared`, `HogsEnded`, `GuardIInv`) | yes |
| `orphans` | who may get a signal, are counts true, does every request end as the remediator promises, does guard end every orphan? (`OrphansSpared`, `CountsTrue`, `ImplementsRemediator`, `OrphansEnded`, `OrphansIInv`) | of the processes of the inventory only validated ones without a terminal; the rest yes |
| `watch` (violation) | is the output of a cycle of `orphans watch` ever printed? (`WatchPrints`) | no |
| `mcp` | is every leak found, did what is reported grow, does a listing show what is there? (`LeaksFound`, `ReportedGrowth`, `ListingTrue`, `McpIInv`) | found always; grew, over equal samples too, unless one scan overtook another; shown, and refused only when evidence was removed |
| `setup` | the wizard's checks, the owner's parts, repetition, the uid setting (`ReviewSettled`, `OwnerRecoverable`, `Idempotent`, `UidKept`, `SetupIInv`) | yes, with the exceptions called `exposed` |
| `commands` | does evidence stay readable, a lone daemon keep its socket, a notice arrive, the one-shot guard end only what is meant? (`EvidenceStands`, `SocketServed`, `LossesExplained`, `OneShotMeant`) | yes, but for evidence of one second with different decisions or cut short, notices while the snapshot is written or after it was cut, and notices that the helper, told of the right desktop, fails to show |
| `helper` (violation) | does the helper accept the configuration that setup has written? (`InstalledAccepted`) | no, if an array has two elements |

Every property of a passing run has a mutant in `PROJECT.json`. Deadlock is checked
in `setup` and `mcp`. The other configurations switch it off because the bounds
(clock, changes, commands) stop the models although the program goes on.

### 3.1 Bounds, and why they are enough

- `dedupe`: two events whose keys collide, one file, one process, a TTL and a
  grace of 1, clock 2 to 5, batches of 2, one fault; the world is quiet from 3, and
  the clock runs on for the grace and the TTL. Two events are needed for
  collisions and duplicates within a batch; the clock leaves room for an event
  inside, at and beyond the TTL and a restart in between.
- `files`: two files, one under a root behind a missing one; a grace of 2 against
  a clock of 2..4 puts a file on either side of and at the boundary; the snapshot
  may lag. Events: one cleaned up, one filtered by its tool, one disabled source.
- `cache`: two files in one directory, one version each next to absence, three
  changes, one failure: create, remove, create again while notices are pending.
- `remediation`: two accepted processes, one rejected, one of another user, and
  two pids for the four of them, so that pids and groups are shared and reused; one
  process is mentioned twice, so that it is killed and met again, dying, reaped or with
  its pid reused. Any three of the four are born (`BoundedSpec`): two fill an inventory,
  and the third reuses a pid. The safety properties hold of all four (`Spec`), too.
- `guard`: two rust-analyzers, two samples required, grace 1, cooldown 2, one
  fault: a round, its cooldown and samples within it.
- `orphans`: Opencode with a session in its command, a node process that may be its
  child or in its group, a node process of another user, and two pids, so that
  each pid may change hands between any two steps. `list`, `kill --force` and
  `guard` without `--force`, which together take every path; memory (of the node
  process) matters to `guard` only. Two candidates in a cycle occur in `kill`; in
  `guard` one process may be over the threshold.
- `mcp`: one process (histories are independent), four inventories a server against
  two required growths of 1, memory 0 (not there) to 3: growth, plateaus, falls and gaps
  before a leak is reported. Two calls, alike (symmetry), may be scan, cleanup or
  listing; one second, so that cleanups always meet in one file. Growth by less than
  counts needs a minimum of 2 and is left to the proof.
- `setup`: two edits, one fault, one dialog; numbers on both sides of every
  check. Two edits make backup and file differ, and the fault may hit either.
- `commands`: two commands of seven programs, which start in any order and may be
  the same twice, two desktops of which one has the longer snapshot, one path, one
  notice of a daemon, one change of the world and one kill. Each property
  concerns what two commands do to one file; the document is one of two, or none: an
  enforcing guard with two completion sources, and a guard that is off before a
  leak detection that is on. The runners are alike (symmetry). `helper` uses the same instance.

### 3.2 Fairness

- Completion daemon and guard: weak fairness of the daemon's steps (a thread that
  is scheduled), of the clock, and of being started again. Clients owe nothing:
  `accept` times out but reading a batch does not (`ipc.rs:112`), so the liveness
  properties except a daemon that stays in `read`. Errors and crashes are not fair.
- Cache: weak fairness of its own steps. `SF_vars(PunctualRefresh)`: notices may
  be late for a refresh, but a refresh that finds all of them comes again and
  again, because the daemon refreshes in every cycle.
- Remediation: weak fairness of the daemon alone: every wait has a timeout, and a
  process owes nothing, not even to die of SIGTERM.
- Orphans: weak fairness of the command, and strong fairness of the step in which
  `ps` succeeds: it may fail now and then, not for ever. Processes owe nothing.
- MCP server, setup and commands: safety only, no fairness. What they promise is
  about files and answers, and nothing in them waits for another but the mutex.

## 4. Proofs

Every invariant that the passing runs check is proved as `Spec => []Inv`, and so are
the action properties (`ProcessedMeansClean`, `UidKept`, `Idempotent`) and the
refinements (`ImplementsLedger`, `ImplementsRemediator` twice, the detector inside the
server). The only assumptions are the `ASSUME`s on constants, which TLC evaluates in
the runs, and that sets are finite where steps are counted. The arguments:

- **`DedupeIInv`.** `DedupeWindow` is not inductive: it says nothing about the file
  a crash falls back to. The strengthening ties every entry of the memory to the
  history (`MemoryAgrees`), every entry of a loadable file to the saved history
  (`FileAgrees`), bounds the cycle's clock (`CycleClock`: reconciliation runs on a
  clock older than what the batch has touched), and says that the event in hand
  is pending (`JobPending`). That the clock is beyond the TTL from the start is
  needed: with saturating subtraction and time 0 the two are confused.
- **`ImplementsLedger`.** Each step of the daemon is one of the ledger or a stutter
  under the mapping; what a save writes is the memory of that cycle less what has lapsed
  (`SaveTells`), which the step that ends a save needs.
- **`FilesInv`.** A resolved file is still to be checked, about to be removed,
  dealt with, or holds the completion back (`FilesAccounted`), and a removal
  rests on a check (`RemovalGrounded`); both need the clocks' order
  (`ClocksAgree`).
- **`ReconcileInv`.** From the moment a cycle infers its events, each session of a
  file that is ripe (in the snapshot, allowlisted, past the grace at the cycle's
  clock) is still to come, has that file among what is left to do for its event, or
  was completed within the TTL. What is written meanwhile is younger than the cycle,
  so that no file becomes ripe on the way. `Reconciled` says what is left at the save.
- **`CacheIInv`.** `ChangesAccounted` counts pending notices as corrections, but a
  late removal would undo a correct entry: `RemovalsMadeGood` says that such a
  notice is always followed by one that puts the file back. Outside a scan
  nothing is left to be scanned (`ScanAccounted`), so that a working watch without
  notices leaves the snapshot right but for `missed` (`AtRestIsRight`).
- **`RemediationIInv`.** What the daemon remembers about pids and groups stays true
  of the elders while pids are reused (`Remembered`), no group is struck off
  before its last process (`GroupsAccounted`), and every signal is accounted for
  by an outcome or a group (`SignalsAccounted`). Entries are done one by one, and who has
  exited gracefully is gone and seems to live again only by the pid of another
  (`EntriesAccounted`); `Announced` follows from the last two.
- **`ImplementsRemediator`.** Each step of a cleanup, and of the orphans command, is
  one of `Remediator` or a stutter. The invariants needed (`CleanupInv`,
  `CommandInv`) add that no process of another user has a signal, and that an elder
  with a signal is counted or the one in hand; of the elders a signal by pid or
  group then reaches only whom it is meant for. `PromiseHolds` carries
  `Remediator`'s own invariant over. That failures are only races
  (`FailuresAreRaces`) is part of it, and proved by itself.
- **`OrphansIInv`.** The same for the orphans command: what `rightful`, the
  terminals and the candidates say of a pid stays true of the elder that held it.
- **`DetectorIInv`, `McpIInv`.** Each history tells the samples it was built from;
  as long as no scan has overtaken another, these are the server's last inventories
  without a gap (`SamplesInOrder`); a listing still has in hand or has shown what stayed
  (`ListingFollows`). `ServerDetects` shows that the server implements the
  detector (`McpSpec => Spec`), whatever its calls do at the same time, so that
  `LeaksFound` is proved once and carries over (`ServerFindsLeaks`).
- **`GuardIInv`**: histories tell samples as above, with clock, candidates and victims.
  `Diligence` is the converse of `Patience`: outside a cooldown whoever was over the
  limit in each of the required samples is a candidate or has gone.
  `OneSparedPerSession`: of each session in an inventory exactly one is spared, the
  newest.
- **`BudgetsAreSwitches`**: with the empty history that the cleanup tool and
  `run-once` hand to the policy, a budget matters only by being zero.
- **`SetupIInv`**: the owner's last edit passes from file to document to backup to
  file at every step (`OwnerPartKept`), and the wizard's answers are settled up to
  its current step. `UidKept` needs a further invariant, `UidCarried`.
  `Idempotent` relates two whole commands: `CommandCarries` says what the one in
  hand holds at each of its steps, `InstallCarries` that after an undisturbed install
  the files are what such a command would write again, memory caps being
  whole GiB from then on, which the read-back of a cap leaves alone.
- **`SocketInv`, `DesktopInv`, `EvidenceInv`** (`CommandsProofs`): a daemon that is
  alone finds the path as its last step left it; an undisturbed snapshot is as its
  last refresh left it (`SnapshotTells`), and a notice in the helper's hands is for
  the desktop it is due (`NoticeTells`); writers of an unspoilt file write the same,
  from its beginning (`WritersAgree`).
- **`ReadersAgree`, `GuardInv`** (`CommandsProofs`): a document that both readers
  accept means the same to both, or the default guard to the helper if the table is
  an inline one, which it overlooks. Since `load_config` accepts no table twice, the
  guard's table is read once and nothing after it changes what was kept: shown along
  the tables by the absence of a least one for which it fails. A guard with the
  defaults needs three samples and ends nothing at once. `OneShotMeant` follows with
  what a runner has yet to do (`TodoTells`), has loaded (`SettingsTell`) and has
  chosen (`VictimsTell`), whatever is done to the file in between.
- **Steps counted** (`CleanupShortens`, `RefreshShortens`, and `CycleShortens` of
  the daemon, the guard and the orphans command): each step of the program that is
  under way lowers a number which no step of the world raises. With finitely many
  processes, files and events it ends if it is scheduled; this is the half of
  `Ends`, `Converges`, `StorageComesClean`, `HogsEnded` and `OrphansEnded` that can
  be said without fairness.

Only model-checked: liveness (`StorageComesClean`, `Converges`, `Ends`,
`HogsEnded`, `OrphansEnded`). A conclusion from fairness needs ENABLED, which the
prover does not have. The violations are TLC counterexamples.

## 5. Where code and words disagree

1. `scope`: `README.md:146` scopes process cleanup to processes that pass the
   marker and uid checks; `remediation.rs:269` signals the group of one that
   passed, with members that were rejected.
2. `watch`: `README.md:225` says that `watch` prints each cycle; `orphans.rs:109`
   collects the outputs of `usize::MAX` cycles (`cli.rs:358` sets no limit) and
   `cli.rs:386` prints them after the last. `guard` is built the same way.
3. `helper`: `README.md:158` gives `setup`, `status` and `ra-guard` as the usual
   verification path; `setup.rs:258` writes arrays of two or more elements on as
   many lines, and `cancerbroker-ra-guard.rs:139` refuses every line that is
   neither a header nor `key = value`, which `main.rs:71` takes for the end of it.

Noticed while modelling, without a run:

- "Cooldown must be at least ... seconds so it is not shorter than the startup
  grace" (`setup_ui.rs:116`): Enter at the prompt takes the default without the check,
  and a grace raised above it stays above it.
- The leak plan (`.sisyphus/plans/rss-leak-termination.md:44`) asks for growth at each
  of the required samples, and `leak.rs:160` keeps a history over equal samples,
  which `ReportedGrowth` therefore allows; the same plan (line 56) makes the
  reconciliation interval the sampling interval, and every batch of events
  brings a sample of its own (`daemon.rs:693`).
- The store in memory is never purged (`completion.rs:126` purges a copy).
- `bind` removes the socket of a live daemon and `Drop` that of a newer one
  (`ipc.rs:53`, `ipc.rs:132`): `SocketServed` speaks of a daemon that is alone.
- Evidence of one second and target is replaced, and two writers of different
  lengths may mix their texts (`evidence.rs:153`): `EvidenceStands` excepts them.
- A torn state file keeps the daemon from starting until someone removes it.
- The cleanup tool and `run-once` build the policy's input without samples and
  without past actions (`mcp.rs`, `cli.rs`): of the budgets only zero or not zero
  counts (`BudgetsAreSwitches`).
- A process whose command mentions its session twice is remediated twice
  (`resolution.rs:128`, `autocleanup.rs:332`) and may be notified twice, which `Announced`
  allows. Its resources are taken by the first of its results (`autocleanup.rs:352`), so
  that the notice of a later one lacks the open path that `README.md:178` promises when one exists.
- The one-shot `ra-guard` starts with an empty history, so it acts only where one
  sample is enough, and keeps no cooldown.

## 6. Not modelled, and why

- Process inventory, resources and platform code: reads of the operating system;
  they are inputs of the models. The inventory, the snapshot and the clock of a
  cycle are taken in one step; what ages between them and their use is modelled.
- Windows: every process operation is the Unix one.
- `status`, `scan` and `scan_resources` of the MCP server, metrics and packaging:
  they read and keep nothing.
- `run_daemon_once` and its variants, the port index of resolution, and
  `stale_artifacts` and `merge_watch_events_with_scan`: only tests call them.
- How a leak candidate is found to be owned through its parents (`leak.rs:95`): whom
  the detector looks at is its input.
- Text: parsing of event lines beyond accepting or refusing a batch, JSON of
  requests and answers, TOML beyond tables, keys and array lines (quoted and dotted keys
  and quoted headers among them, which TOML takes as keys and the helper's line reader,
  `cancerbroker-ra-guard.rs:119`, does not recognise), the wording of notices and tables, the drawing of the wizard and the editing of its inputs.
- The clock is taken to be monotone.

## 7. Plan

Done: completion (`CompletionStore`, `CompletionDaemon`, `CompletionHistory`,
`Ledger`), `StorageCache`, `ProcessTable`, `Remediator`, `Remediation`, `Orphans`,
`MemoryGuard`, `LeakDetector` and `Mcp`, `SetupWizard` and `Setup`, `SharedFile`,
`RunOnce`, `EventSocket`, `Desktop`, `ConfigFile` and `Commands`, each checked and, but
for liveness, proved.

What could follow, in order of worth: the sessions that resolution gives to
rust-analyzers and leak candidates, which `MemoryGuard` takes as fixed; several roots
in `StorageCache`; the one-shot guard's signals step by step, over `ProcessTable`.
