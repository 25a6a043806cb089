# remote-devbox: verification

TLA+ models of the parts of remote-devbox that keep state and run beside each
other, the TLC runs that check small instances of them, and TLAPS proofs of
what matters most for instances of any size.

Paths below are relative to the repository (`src/`). `PROJECT.json` maps every
definition to the lines it stands for, lists the hazards with the property that
would catch each, and for every property a plausible bug of the code (a
*mutant*, a definition commented `Mutant:`) that makes TLC find it violated.

## 1. The system

A *client* (a Mac or a Linux desktop) drives one *box* (a Linux machine that runs
coding agents). The client program `devbox` is TypeScript
(`clients/devbox/src`); the box is provisioned by Ansible and runs shell and
Python scripts (`scripts/`) and a compiled doctor (`box/doctor/src`). The two
talk over ssh. Nothing is a server with one serial loop: state lives in files,
and every command, timer, launchd job and agent session that touches a file is
a process of its own which may be killed at any line.

### Inventory

| Component | State | Operations | Hard behaviour | What makes it correct |
|---|---|---|---|---|
| **Heavy-command gate** (`devbox-heavy-command.sh`) | `flock`s on slot files, descriptors inherited by children, cgroup markers, the slot count file | start, ancestor walk and probe, take, wait, time out, enter a scope | many gates at once; nested work; descriptors that outlive their owner; reparenting; SIGKILL | one job per slot; no more jobs than slots; nested work never waits for its own job; every command is decided |
| **Claude account swap** (`devbox-account.sh`) | the tree's identity and credential, the vault's pairs, registry, `.lock`, `.backups` | `use`, `add`, `rm`, `gc` | two-file commits, a lock taken after the first reads, kills, a live Claude that refreshes or logs in | a label's login is the label's account's; no login is lost; a swap lands whole; interrupted and concurrent commands never mix two accounts |
| Codex / OpenCode / per-user swaps, OMP pin (`devbox-codex-account.sh`, `devbox-opencode-account.sh`, `devbox-account-user.sh`, `omp-pin*`) | as above with one file or SQLite rows | as above | as above; no org check | as above |
| **Orphan reapers** (`orphan-browser-reap.py`, `agent-rc-reap.py`, `cgroup-runaway-guard.py`) | `seen.json` (identity → first sighting), profile directories | one pass per timer tick: load, scan, reconcile, TERM, wait, KILL, save, purge | pid reuse, processes that change during a pass, clock steps, killed passes, failed saves | nothing dies before its grace; no live profile is deleted; leaks end |
| Paseo session reaper (`paseo-session-reap.py`) | none of its own | one pass: read records, read processes, TERM, KILL | records older than processes | only idle sessions end |
| **Remote-control resume** (`agent-rc-*`) | `attempts.json`, the bridge map and pointers, tmux windows | snapshot, scan, count, quarantine, launch, monitor | deaths of the server, of sessions and of cycles; several units per user | at most *maxatt* starts an hour; one process and one card per conversation; interrupted work comes back |
| **Lazy mount bridge** (`mount.ts`, `bridge.ts`, `mount-lock.ts`) | `bridges.json`, the lock file, rclone and ssh processes, the sshfs on the box | `mount up`, `down`, `status`, `recover`; reconcile | detached processes, kills between any two steps, lost connections, a busy mount | no process untracked, no label twice, no mount in use taken away, mounts come back |
| **Client recovery and health** in part (`recovery.ts`, `health.ts`) | none of its own | collect evidence, plan, act, probe again | evidence that ages while other components are recovered | only what was proven broken and ours is touched |
| **Client launchd agents** (`agent.ts`) | plists, launchd's job table, ready markers, the mode file, Chrome's profile lock and port file | agent up and down, browser mode, bind, unbind, owned recovery; the two supervisor scripts | commands cut anywhere, launchd's slow teardown, leftover markers, ports and pids that belong to someone else, Chrome re-executing itself | no job runs from a plist that changed under it; mode and agents agree; recovery spares what works; the browser comes back |
| **Sync disk** with Mutagen (`sync.ts`, `sync/mutagen.ts`; `sync/syncthing.ts` is not) | the session, the daemon and its registration | up, down, pause, resume, recover | the daemon's asynchronous stop, evidence that ages, repairs that undo each other | a stopped daemon is back; a pause is honoured; recovery converges |
| Apply lock (`apply-lock.ts`) | kernel locks | take all in order, run, release | several commands at once | no two applies of one target |
| Configuration pipeline (`config.ts`, `spec/*`) | the YAML file | load, migrate, normalise, validate, resolve, plan | numeric and reference edge cases | one meaning per file |
| **App configs** (`app-configs/*`, `remote-app-configs.sh`) | each side's file or link, the payload in each side's store, copies aside | link, unlink | content on both sides, a sync engine that moves payloads in between, commands cut anywhere | no text is lost; no link without a target; both sides read one payload |
| **OMP model presets** (`omp-model-presets/core.ts`, the extension `index.ts`) | OMP's role override, main model and thinking level, the active preset, one entry per session log, a promise queue | apply, reset, restore a session, initialize a new one | commands and session switches while a call is awaited, calls that fail half-way | roles, memory and log agree; a failed application leaves nothing |
| Session hand-off (`push.ts`, `pull.ts`, `transcript.ts`) | one transcript and its backup | push, pull | — | nothing is overwritten unasked |
| Box doctor (`box/doctor/src`) | none | collect, classify, report, recover one unit | evidence that ages | a healthy unit is not restarted |
| Command line, TUI, installer, kill guard, host scripts, Ansible roles | — | dispatch, presentation, one-shot reconcilers | — | — |

Bold components are modelled in this state of the project; `PROJECT.json`
gives, for each other one, why not.

### How they interact

* `devbox recover` (client) collects `health.ts` evidence once and calls into
  the mount, the sync and the agents; the launchd agents in turn re-run
  `devbox mount up` every minute. The mount therefore always has two callers,
  and `MountBridge` runs both. `LaunchAgents` and `SyncDisk` each contain the
  recovery of their component: evidence first, the act an arbitrary time later.
* The browser agent's plist starts a shell script that owns Chrome and a
  reverse tunnel; `LaunchAgents` treats it as one loaded job and
  `BrowserSupervisor` models what runs inside.
* `devbox config link` moves files in and out of the sync disk's directory while
  the engine of `SyncDisk` runs; `AppConfigs` contains that engine.
* The account scripts change files that running agent sessions read and write.
  `AccountSwap` contains the agent: it logs in, refreshes its token, comes
  and goes.
* The reapers kill processes that the resume machinery and agent sessions
  start; `Reaper` contains those as an environment that starts, disowns, reuses
  and ends processes at any moment of a pass.
* The gate sits under every build an agent starts; gates meet each other only
  through the kernel (locks, descriptors, process tree, cgroups), which
  `HeavyGate` models as far as the script relies on it.

## 2. Modules

| Module | Models | Checked by | Proved in |
|---|---|---|---|
| `SlotPool` | what the gate promises: at most one job per slot (abstract) | as `PoolSpec` of `HeavyGate` | `HeavyGateProofs` |
| `HeavyGate` | the gate and the kernel objects it uses | `MCHeavyGate` | `HeavyGateProofs` |
| `AccountSwap` | `devbox-account.sh` and the Claude that uses the tree | `MCAccountSwap` | `AccountSwapProofs` |
| `Reaper` | the three sighting reapers | `MCReaper` | `ReaperProofs` |
| `Resume` | `agent-rc-*.sh`, `agent-rc-*.py` but the reaper, and their units | `MCResume` | `ResumeProofs` |
| `MountLock` | `mount-lock.ts` | through `MountBridge` | `MountBridgeProofs` |
| `MountBridge` | `mount.ts`, `bridge.ts`; EXTENDS `MountLock` | `MCMountBridge` | `MountBridgeProofs` |
| `LaunchAgents` | `agent.ts`, `recovery.ts` and the agents' part of `health.ts`, launchd | `MCLaunchAgents` | `LaunchAgentsProofs` |
| `BrowserSupervisor` | the script of `renderBrowserSupervisor`, Chrome, ssh | itself | `LaunchAgentsProofs` |
| `AppConfigs` | `app-configs/*`, `remote-app-configs.sh`, the sync engine | `MCAppConfigs` | `SyncProofs` |
| `SyncDisk` | `sync.ts`, `sync/mutagen.ts`, their part of `recovery.ts` and `health.ts`, Mutagen | itself | `SyncProofs` |
| `Presets` | `omp-model-presets/core.ts` and the extension's `index.ts` | `MCPresets` | `PresetsProofs` |

### HeavyGate

State: `held[s]` are the processes that share the open file description
locked on slot *s*. This is the one kernel fact everything rests on: an `flock`
belongs to the description, so children that inherit it hold the slot too, and
the slot is free only when the last of them has closed it. `stale[s]` are the
processes that have the file open *without* the lock (after `flock -u`);
`parent`, `scope`, `marker` are PPid, cgroup and the scope's marker file;
`local[p]` are the script's shell variables.

Actions follow the script from top to bottom: `Start` (slots file, marker
check), `ProbeHeld` / `ProbeFree` / `ProbeRelease` / `ProbeParent` (the walk up
`/proc`, one descriptor and one parent at a time, the momentary lock of a probe
visible to everyone), `TakeSlot` / `NextSlot` (one `flock -n` per step),
`BeginWait`, `Poll`, `TimeOut`, `AdmitScoped`, `AdmitUnscoped`. The environment
spawns (with or without inheriting descriptors), exits, is killed, reparented,
runs a hand-written `flock(1)` on slot 0 — which the script's comment at line 174
explicitly supports — and edits the slot count. `Lineage(p)`, which the walk
climbs, is the smallest set that contains *p*'s parent and, with a process, its
parent.

Constants that name an assumption: `KeepsFd` (a script unlocks and keeps the
descriptor), `Kills` (SIGKILL anywhere).

### AccountSwap

State: the tree's two halves (`treeId`, `treeCred`), the vault's two halves per
label (`vid`, `vcred`), the registry (`rows`, `active`), the lock directory,
the backups, and `job[p]`, the shell variables of an invocation — with `active`
as it was *read before the lock*. A token has a generation: a refresh kills its
predecessor, so a parked copy may be worthless.

Each write is a step of its own: the two `mv` of a parked pair (`CommitId`,
`CommitCred`), the three of a restore (`Apply`, `Load`, `Activate`), the two of
`rm`. `Crash` may come between any of them; a SIGKILL leaves the lock
directory behind (`Stale`), every other death runs the EXIT trap.

Claude is there at any time: a session starts, ends and refreshes its token, and a
`/login` writes both halves of the tree or only the credential, at every step of an
invocation. `use` asks whether it runs once, before the lock (603), and the
label that is active is re-installed before that question (587-594).

Constants that name an assumption: `Kills` (SIGKILL anywhere) and `Online` (the org
check can be asked). Nothing the code allows is left out; what it allows and
then loses something by is recorded in the history `slips`, which no action
reads and the properties except. An *account* slip can leave a label with another
account: `use` of another label while `status` warns, which includes the second
try of a `use` that was killed between 637 and 643; `add` under a label adopted for
another account; a complete `/login` while an invocation runs. A *token* slip can
lose the only working token of an account: `use` of the active label over a token
that was refreshed since it was parked; `use` of any label when that token lies in
the tree beside the identity of another account; `/login` over it, or during an
invocation; a refresh during an invocation; `use` of a label that a killed `add` left
without a row; a second label for one account. `LabelsTrue` speaks of behaviours up to
the first account slip, `LoginsKept` and `SwapLands` up to the first of either
kind; section 5 says what each slip loses. `LockExcludes` has no
exception, nor has `PairsMatch` without kills; with them it too is proved up to the
first account slip (`PairsSurviveKills`).

### Reaper

One module for three scripts that share one algorithm: `script` is chosen
initially. `Key(p)` is the identity under which a process is remembered:
pid and start time; where the script computes the start time from `btime`, it
moves when the clock is stepped (`epoch`), in the runaway guard it does not.
`file` is `seen.json`; `fresh`, `due`, `hit`, `todo`, `seen` are the locals of a
pass. A pass is not atomic: the scan is one step (`Sweep`), every TERM and every
KILL another, and processes start, exit, change owner, get a client back, and
die in between. `sighted[p]` is a history variable: for how long *this* process
has been a candidate at every completed pass.

Constants that name an assumption: `Stepped` (during which reapers' life the
clock is stepped), `Strict` (whether a pass that could not save counts).
`Reusable`: a pid does not come round again within one pass (seconds).

### Resume

Per unit: `tmux[u]`, whether its server lives, and the resume service — `cycle[u]`
(waiting for the server, planned and about to save, launching), `mem[u]` (the
planner's copy of `attempts.json`) and `todo[u]` (its launch list). Per
conversation: the worktree, whether its transcript is within the lookback
(`fresh`), who runs it (`proc`), its claude.ai card, its entry in the bridge
map (`bmap`) and its pointer. Ages are in ticks and saturate after an hour.

`UnitStarts` is the wrapper with the trigger of the template; a cycle that still
runs absorbs the trigger, as systemd does with a start of an activating
oneshot. `Snapshot` notes any part of what runs (a session may not have
registered yet) and may retire the entry of what is neither running nor recent.
`Plan`, `Save`, and one `Skip` or `Launch` per conversation are the cycle;
server, session and cycle may die between any two. `CycleAsked` is a start of the
companion by hand, which its template calls idempotent. `known` and `recent`
are history variables; `recent` is a conversation's last launches by age, one more of
them than the attempts allow.

Simplifications: a counted attempt is launched within a tick (`Tick` waits for
the cycle), and of a conversation's cards only the present one and the one
before are told apart. Constants that name an assumption: `Torn` (a cycle is
killed in the middle of writing `attempts.json`), `Joins` (a cycle meets a
session that the server itself runs); both are false in the run, and
section 5 says what happens otherwise.

### MountLock and MountBridge

`lock` is the lock file as others can judge it: absent, created but ownerless
(between `openSync` and `writeSync`), owned by a live process, owned by a dead
one. `Create`, `Write`, `JudgeDead`, `Break`, `CheckToken`, `Unlink` are the
separate system calls. `die()` in the client is `process.exit`, which skips
`finally`: a refused `mount down` leaves its lock behind exactly as a kill does
(`Gone`).

A bridge has a nonce; `rclone[n]` and `ssh[n]` are the two detached processes,
`fs[l]` says whose sshfs is mounted at the label's mountpoint on the box.
`ssh = "cut"` is a process whose connection is gone and which has not noticed.
The actions of a start are those of `startBridge`: reserve an entry without
identities, spawn rclone, spawn ssh, commit both identities, poll for
readiness, and on failure unmount, stop, prove gone, remove. `Reconcile` runs at
the top of every command. `Evidence` is the second look of `recoverMountLive`.
Every command can be killed between any two steps, processes die, the
connection is lost, answers from the box are lost (`Fault` bounds all of these
together).

Constants that name an assumption: `Contend` (two commands may judge one stale
lock at the same time).

### LaunchAgents

`plist[l]` is the revision of the configuration that rendered the file on disk,
`job[l]` the revision launchd loaded; 0 is none. Agents with a port forward have
a process, a listener on their local port and (but the desktop's) a ready
marker. A command is a list of tasks (`todo`) that the code's loops make:
`Begin` takes the next label, and `CheckCurrent`, `Bootout`, `Unlink`, `Unready`,
`Write`, `Bootstrap`, `AwaitReady` / `AwaitFails` are the system calls of
`removeAgent` and `installAgents` in the code's order; a refusal of launchd is
`Die`. `recover all` collects its evidence in `RunRecover`; each
`RecoverOwnedAgent` looks at the plist, the job and the port again, and only the
health is as old as the collection. Supervisors start, listen, publish and fail
in between; other programs take ports; the user logs out and in (launchd loads
what it finds), cuts the command, or edits the configuration between two.
One command runs at a time: the code has no lock, and two agent commands at once
are outside the model.

### BrowserSupervisor

The shell variables are `my` (`chrome_pid`) and `port` (`cdp_port`, as the Chrome
that had it); `lock` and `marker` are the profile's `SingletonLock` and
`DevToolsActivePort`, which outlive their Chrome. Chrome is the environment: it
hands over to a holder, re-executes itself over a stale lock, relaunches and
dies. Running into a deadline while Chrome still makes progress counts as one of
the faults `MaxFaults` bounds.

### AppConfigs

A side has what the application reads (`own`: a file, the link, a foreign link),
its store's payload and the copies set aside. Contents are sets of `Texts`, since
unlinking an ssh file joins two; every edit is a text that is nowhere yet, and the
user makes as many as there are texts for. `Steps` lists the calls of a decision of
`planAppConfigLink`; between any two the engine may `Deliver`, and `Kill` may cut
the command. `live` is a history: the texts that nobody replaced and nobody gave
up by answering a question. `Careful` excludes four interleavings by name
(`HoleUnseen`, `HoleSynced`, `HoleStale`, `HoleCopy`); section 5 says
what each one loses. Deletions are delivered like everything else: `swept` is a
history of the engine having deleted the client's payload while the present
command ran, which `LinkHasTarget` excepts.

### SyncDisk

`daemon` is down, started by a command, started by launchd, or ending (`daemon
stop` has returned and the process is still there); any subcommand starts one.
`at[p]` is the step of `sync up` and of `recover`, which share
`ensureDaemonAutostart` and run beside each other. `SecondLook` is
`recoverSyncLive`, which acts only on the reason it was sent for. `SlowStops`
allows a daemon that outlives all thirty attempts to register. Only the Mutagen
engine is modelled.

### Presets

`ops` is the promise queue; each operation carries the preset state of the
entries it was given and, once applying, what a rollback returns to. One step
is the code from one call into OMP to the next, and each call may fail. `broken`
is a history of the ways in which code that works as written loses the record:
a rollback or a restore that fails half-way, a reset whose entry is not written,
and a session switch while an operation is in the queue. `FailureUndone` does not
use it. It has two narrower histories: `apart`, that the roles in memory are no
longer OMP's, which only three failures bring about (the entry of a reset, the
entry of an alias rewrite, putting the roles back in a rollback) and the next
success that sets both ends; and `lost`, the parts that the application whose turn
it is cannot put back: the roles if it began while memory was apart, and each part
whose own rollback call failed.

## 3. Runs

| Run | Instance | Question |
|---|---|---|
| `gate_slots` | 3 processes, 2 slots, SIGKILL, kept descriptors | do nested, waiting, hand-locked and killed commands ever share a slot, exceed the pool, or wait for themselves; does the gate implement `SlotPool` |
| `gate_scopes` | 3 processes, 1 slot, 2 scopes, timeout 1 | is reentry through markers and probes always covered by a running job; is every command decided |
| `swap_alone` | 1 invocation, 3 labels, 3 accounts; kills at every step; sessions start, refresh and log in at every step | do labels stay true and every adopted account keep a working login; does a swap land whole |
| `swap_pairs` | 2 invocations, 2 labels, 3 accounts; Claude writes during swaps | do parked halves agree; do critical sections exclude |
| `reaper_passes` | all three reapers, 2 pids reused once, 1 profile, grace 2, 1 clock step, 1 failed pass | grace, profiles, and whether leaks end |
| `resume_cycles` | 1 unit, 1 conversation, 2 attempts per 2 ticks, 4 deaths of unit or cycle, any number of session ends and hand-made starts | does quarantine hold; is anything resumed twice; is a noted card ever lost; does interrupted work come back |
| `mount_bridge` | the launchd job and a terminal, 1 mount, 2 nonces, 2 faults | exclusion, tracking, no duplicate, busy mounts kept, orphans stopped |
| `agents` | 1 project port that other programs use too, 2 configurations, any number of commands, cuts, failures and logins | do jobs match their plists; does server mode hold; does a completed `agent up` leave what was asked for; is a ready marker proof; does recovery spare what serves |
| `browser` | 5 pids and a stranger, 4 faults | is a stranger spared; is the browser served again in the end |
| `app_configs` | directory, file and ssh mode, 4 texts (at most three are there at first), edits between commands, cuts, the sync engine | but for the four holes, is a text ever lost; does a completed link lack its target; do two linked sides disagree |
| `sync_disk` | `up` and `recover` side by side, 3 faults | is a stopped daemon back; is a pause honoured; does recovery converge |
| `presets` | 2 presets and an alias, 2 sessions, 3 requests, at most 2 operations in the queue, 2 failing calls | is the record true; is a failed application undone, part by part |

The properties of every run hold. The type invariants of all components
are proved (section 4) and therefore not among the runs' properties.

**Bounds.** Three processes are one job, one job nested in it and one stranger;
two slots make "the other slot" exist. Three labels are the one left, the one
entered and a bystander. An account has two tokens in `swap_alone`, one parked and
one refreshed since, and one in `swap_pairs`, whose properties do not ask which
token it is. `swap_alone` keeps no backups (`Keep = 0`): no property of it reads them and
no action but their pruning depends on them. Its constraint `BeforeAccountSlip` stops
at the first account slip, after which none of its properties says anything. Two pids, each used twice, give pid reuse while
another process is judged; a grace of two ticks has a beginning, a middle and
an end; one failure and one clock step each may fall anywhere. Two bridges of
one label can exist at once, the smallest number that makes a duplicate, and
two faults allow a crash whose recovery meets another fault. One conversation
is enough for `Resume`, whose properties speak of one each: conversations of a
unit share only a file that its one cycle writes whole, and its launch list;
four deaths are two more than the attempts, so that the quarantine is reached,
left and reached again. One port has both kinds of forwards, and an edit to the
other configuration is a drift of every plist. Four faults let a browser lose its
supervisor, its holder, its tunnel and its pid in one behaviour. Two presets
are the one that was active and the one applied; the queue holds two operations, so
that one runs while one waits, and two failures can hit an application and its rollback. Four
texts are one of each side, one in the box's store, and an edit on top of them; a
text that is gone from everywhere can be written again. The
theorems of section 4 hold without these bounds.

**Symmetry** is used only in runs without liveness properties, and only over
model values that no constant distinguishes.

**Deadlock** is checked in every run but `browser`, where a served browser that
has met all its faults has nothing left to do.

**Fairness.**
`GateDecides` assumes weak fairness of a gate's own steps (an ordinary runnable
process) and nothing of the jobs it waits for; with `WaitTimeout = 0` a waiter
may wait for ever, which is what the script documents.
`Reaped` assumes that the timer fires and a pass proceeds (`PassStep`; systemd
timers of `ansible/roles/*/templates`) and that time passes; passes that fail
are bounded, since a reaper all of whose passes are killed reaps nothing.
`Returns` assumes that systemd restarts the unit (`Restart=on-failure`; the limit on
how often it does so is left out) and that a cycle proceeds; it speaks of a conversation that no further death interrupts.
`OrphanStopped` assumes that launchd starts the agent's `mount up` again and again
(`StartInterval` 60), that a command proceeds, and that signalled processes exit.
It excepts two situations by name: an ownerless lock file that a crash left,
which nothing in the code removes, and a terminal that never leaves the lock to
the agent.
`BrowserRecovers` assumes that launchd keeps the supervisor running (`KeepAlive`), that the
script, Chrome and ssh proceed, and that the box's sshd ends the dead session of an
old tunnel (its keepalive); nothing else acts.
`RecoverHeals` assumes that the user asks for recovery again and again, that a
command proceeds, and that the daemon ends or starts when told, Mutagen reconnects
and the network returns; it speaks of a session that stays active, since nobody
recovers a pause.

## 4. Proofs

The eight theorem modules follow one pattern: an inductive strengthening of
the properties, one lemma per action or group of actions, and a last step by
`PTL`. Each proves its components' type invariants first. Where a theorem has a hypothesis it is one of
the constants of section 2 that name an assumption; the others hold for every
value of the constants.

**HeavyGateProofs** — for any finite set of processes and any numbers of slots
and scopes. `SlotsAreExclusive`, `PooledJobsAreBounded`, `GateImplementsPool`: the
invariant `IInv` adds to the types who took a slot is among those that hold its
description (`HoldersHold`); two takers have different slots (`HoldersApart`); a
probe's momentary lock has one holder, and no taker (`ProbesAlone`); a
hand-written lock is on slot 0 (`WrapsOwnZero`). Without `ProbesAlone`,
`ProbeRelease` would free a slot under a job. The bound on admitted jobs is then
an injection from jobs to slots. The refinement maps every step to one of the
pool's or to a stutter, a slot under probe counting as empty.
`NestedWorkNeverQueues` (`WalkInv`): only a process that is past its own gate has
children, and it takes no lock any more (`Childless`); what the walk has passed
is free of locks (`Path`), and where it stands, the locks are those it has still to
probe (`OnTheWay`); so whoever goes on to take or wait has no ancestor with a slot.
`ProbesAreCovered` holds if no script keeps a descriptor it has unlocked
(`~KeepsFd`): then what the walk lists of a live ancestor is locked by that ancestor
(`CoverInv`). `MarkersAreCovered` holds if nothing is killed (`~Kills`): a marker names a
job that runs, since the job that wrote it removes it before it ends
(`MarkerInv`).

**ReaperProofs** — `GraceIsHeld`: what is signalled has been a
candidate, as the same process, for the whole grace period. Assumption
`Trusted`: no clock step for the runaway guard (whose identities do not move
with the clock; a step does shorten its grace) and no claim about passes that
could not save. Invariant: no sighting in the file or in the pass is of a
process, or of an epoch, still to come (`NoneAhead`); and a sighting that is the
*present* identity of its pid is no older than the time its process has been a
candidate (`AgesEarned`). Sightings of past identities may claim any age, and do
after a clock step: they match nothing any more. `ProfilesAreSpared`, without
any assumption: what a pass signals never gets an owner again (`MarkedOrphans`); every
profile in use, or seen in use, is on disk (`ProfilesExist`), so that a new
browser's own profile is none that the pass has seen; hence whoever runs beside
the signalled browsers uses a profile that the survivors name or that the scan
never saw (`UsersSpared`), even if it joined that profile after the scan.

**MountBridgeProofs** — `CommandsExclude`, `ProcessesAreTracked` and
`PairsAreUnique` while no two commands
judge one dead owner's lock at the same time (`~Contend`; with `Contend = TRUE` TLC
finds `LockExcludes` violated). The lock's invariant: the file names whoever is
between creation and deletion, and only a dead owner's file is about to
be deleted. On top of it, `PairInv`: one entry per label (`Single`), every
running process has its entry (`Tracked`), and what the command at each phase
`Relies` on — the labels it is going to start have no entry, the bridge it
starts has one, every victim is either still to be stopped or no longer
running when the entries are dropped. `BusyMountsAreKept` needs no lock at all: a
bridge being launched is no other command's and not committed yet
(`LaunchedAlone`), what is mounted for a label is a bridge of that label
(`OwnMounts`), and a bridge that was unmounted never gets its connection back
(`UnmountedOff`), so what `down` stops after the unmount is not what someone uses.

**LaunchAgentsProofs** — for any ports, contested ones included, and
configurations. `JobsMatchDisk`: no job runs from a plist that is gone or was
rewritten. Between the bootout and the bootstrap of a task its label is not
loaded (`BootedOut`); without that, `Write` and `Unlink` would change a file under
a job. It holds because `bootoutIfLoaded` dies rather than going on.
`ServerModeHolds`: once `browser mode server` is through, no agent of client mode is
on disk or loaded until a mode command starts. The argument is about task lists,
so the module first proves that `Each` lists exactly the labels it is given (a
bijection from the definition of the community module's `SetToSeq`; this is where
`Ports` must be finite). `Stopping` says that while the command runs, every label
still installed is still to be removed, and the mode is its last task; `Quiet`
that once settled no list contains an install of the client's side, because
`agent up` reads the mode before it plans, `bind` refuses, and recovery looks at
the configured agents again. `UpLeavesThePlan` (`UpInv`) is the same kind of
argument for `agent up`: what is wanted is installed or still to come
(`WantedComes`), what is not is gone or still to go (`UnwantedGoes`).
`MarkersAreProof`: a marker found between the bootstrap and the acceptance is of
this supervisor (`MarkerNew`), since `Unready` removed the old one while the label
was not loaded. `ServingIsSpared`: a job that serves holds its port (`PortHeld`),
and recovery looks at the port itself before it acts on old health.
`StrangersAreSpared` is about `BrowserSupervisor`, for any pids and faults and without
an assumption: the supervisor and its exit trap end only pids that it launched, or
that a lock names *and* that are a Chrome of the profile (`SupervisorInv`, with the
types).

**AccountSwapProofs** — `OneInvocationInTheLock` for any constants.
`PairsOfOneAccount`, for any number of invocations, if the org check answers and
nothing is killed (`Uninterrupted`): the halves an invocation carries agree from the
check on, and those in the vault but for the label whose second half is being
written (`PairInv`). For one invocation at a time (`Alone`), with kills, sessions,
refreshes and logins at every step: `LabelsKeepTheirAccount`, and if the org check
answers also `PairsSurviveKills`, `NoLoginLost` and `SwapsLand`. Their invariant is
`Named => SoloInv`, that is, nothing is claimed after an account slip; parts
of it are claimed only while `Clean`, before any slip. It has three parts. `Knows`:
what the invocation has read is still so, and how far it has got. `RegistryInv`: a
registered label's vault is its account's, both halves, which is why a pair torn
between its two renames still matches. `TokenInv`: the token of the tree works, and
a parked one that does not belongs to the account whose working token is in the
tree; no account has two labels. Together they say why a swap is safe: it parks
the tree before it restores, so that from the snapshot on all parked tokens work.

**ResumeProofs** — `NotedCardReturns` for any constants: a noted card stays in the
map while a cycle can reach its conversation, and a planned launch reads it
(`CardInv`). `NoDoubleResume`, if no cycle meets a session that the server itself
opened (`~Joins`), for any number of units: what runs, runs under a server, and
while a cycle is on, nothing of its unit is the server's own (`SoloInv`).
`QuarantineIsKept`, for one unit whose attempts file is never torn (`~Torn`): a start
that the file does not count is over an hour ago, and a conversation on a
launch list has been counted before it is launched (`CountInv`).

**SyncProofs** — `StoppedDaemonIsBack` if a daemon does not outlive the
attempts (`~SlowStops`): whoever stopped the daemon is at the registration until it
has ended, and from there every path leads to a start of it (`StopInv`).
`PauseIsHonoured` for any constants: no recovery resumes a session that was paused
when it looked the second time (`PauseInv`).
Of `AppConfigs`, for any texts, any number of edits and all modes:
`NothingIsLost` and `LinkedPairsAgree` under `Careful`, `LinksHaveTargets` with every
hole open. What is left of a command is
one of a few lists of calls, and `ConfigInv` says for each of them what the files are
then like (`AtSeed` to `AtEnd`): which side's payload may take the place of the other's,
what has just been moved aside, what a probe of the box still says. `StepsAreLists`
proves that the lists are those the decisions of `planAppConfigLink` make. The files
themselves have two invariants. `BaseKept` is about the engine, which overwrites
the side that has not changed since it last looked (`base`): what only that side has
is given up or kept elsewhere. Without it, `Deliver` would lose a text that a command
had put back. `Gone`: a payload that is nowhere on the client was never seen on
both sides, so that its absence is not carried to the box as a deletion. `Agrees`
says that, edits and cuts apart, a payload that both sides have is one payload; the
engine keeps that, and a link ends with it (`HalfLinked`, `AtEnd`). `LinksHaveTargets` has
an invariant of its own, `TargetInv`: `Heading` says only which calls are left and
for which of them the client's payload must be there (`Target`), and every call
and every delivery keeps it, except that a deletion ends `Target` and is noted in
`swept`.

**PresetsProofs** — `RecordIsTrue` and `FailureIsUndone` for any document, sessions
and bounds. Only the operation at the queue's head is under way (`HeadFirst`); what
it may return to is what it was validated with (`ApplyInv`, `OtherInv`); restores
come first in the queue, carry what their session's log says, and everything
behind them is of the session shown, unless `broken` (`QueueInv`); between two
steps of an application the roles are the active preset's (`RolesTrue`), and when no
session switch is under way the shown session's log says the same (`LogTrue`).
`FailureIsUndone` has a second layer over it, `UndoInv`: unless `apart`, memory names
the roles OMP runs with except while an application is between setting them and
noting them (`MemoryTrue`); an application has noted what it was validated
with, and each part it has put back so far is as noted, unless `lost`
(`NotedTrue`).

**Only model-checked.** Liveness (`GateDecides`, `Reaped`, `Returns`, `OrphanStopped`,
`BrowserRecovers`, `RecoverHeals`): fairness and ENABLED are outside what the prover
supports. Every safety property of the runs, invariant, action property or
refinement, has a theorem.

## 5. What was found

Disagreements between the code and what the repository says of it, and limits of
the code, met while modelling. The models follow the code in each case; where a
constant or a named exception keeps a property true, it is named.

* `devbox-account.sh:586`: `use` reads the active label before it takes the lock at
  613 and acts on it under the lock, against multi-account.md:172 ("the whole swap
  runs under one lock"). Two invocations can park one account's login under the
  other's label: with two `Procs`, `LabelsTrue` is violated.
* `devbox-account.sh:587-594`: `use` of the label that is active re-installs the
  parked credential outside the lock and before the question whether Claude
  runs (multi-account.md:163, 168-171 describe lock and refusal as unconditional).
  If the token was refreshed since it was parked, the only working one is
  overwritten by a dead one: a token slip.
* `devbox-account.sh:621-623`: a `/login` to another account that nobody has
  adopted is parked under the active label by the next `use`, against the comment at
  617-619: an account slip.
* `devbox-account.sh:639-643`: the same happens without a `/login`. A `use b` that is
  killed after the credential is restored (639) and before the registry follows (643)
  leaves a active with the login of b in the tree; the second try, its stale lock
  removed, parks b's pair under a (623). The label a then holds b's login, and a's
  own is only in the backups, which later swaps prune. `status` warns of the tree;
  nothing stops the second try. An account slip.
* `devbox-account.sh:603, 613`: a session that starts after the question, or that
  `--force` overrides, can refresh its token between the park and the restore; the
  parked copy is then dead and the refreshed one overwritten: a token slip.
* `devbox-account.sh:625-633`: a heal of the active label that is killed between
  its two writes leaves that label's identity beside another account's token. If that
  token works and its parked copy does not, the next `use` finds the org mismatch and
  moves the token to a backup only: a token slip.
* `devbox-account.sh:563-576`: an `add` killed between the parked pair and the registry
  row leaves a label that `use` accepts (582-585) and the registry does not
  know (284-291): the tree changes, `active` does not. A token slip.
* `devbox-account.sh:553-554`: a parked pair is committed by two `mv`; each is
  atomic, the pair is not (multi-account.md describes "temp-then-rename").
  `PairsMatch` holds nevertheless because adopted labels keep their account.
* `devbox-heavy-command.sh:259`: the walk takes a slot file that an ancestor
  merely has open for that ancestor's slot whenever *anyone* holds its lock,
  against the comment at 252-253 ("an fd left open on a free slot file grants
  nothing"). With `KeepsFd = TRUE` in `HeavyGateScopes.cfg`, `ProbeCovered` is
  violated.
* `devbox-heavy-command.sh`: a slot outlives its job when a child inherited the
  descriptor (README.md:42-43 speaks of the job). Freed late, never early.
* `orphan-browser-reap.py:538`, `cgroup-runaway-guard.py:457`, `agent-rc-reap.py:265`:
  a pass that cannot save what it saw leaves the old sightings, so a client that
  came back does not reset the grace (against 211-212). With `Strict = TRUE` and a
  failing save, `GraceHeld` is violated.
* `cgroup-runaway-guard.py:412`: ages are wall-clock differences while the
  identity is in ticks, so a clock step makes sightings old at once.
* `agent-rc-resume.sh:91,165`: all units of a user share `attempts.json`,
  read when planning and written whole later. Two cycles that overlap lose each
  other's counts, and a kill during the write empties the file; either breaks
  "skipped after RC_RESUME_MAX_ATTEMPTS within an hour" (13-14). With two units,
  or with `Torn = TRUE`, `QuarantineHolds` is violated.
* `ansible/roles/agent_remote/files/adapters/claude.sh:31`: the pattern for "already running" matches what a cycle
  resumed, not what the server itself opened, so a session opened while a cycle
  waits is started a second time, against agent-rc-resume.sh:178. With
  `Joins = TRUE`, `OneProcess` is violated.
* `agent-rc.service.j2:69-76`: "on EVERY start" — a unit that dies during its own
  cycle and is back before the cycle ends gets no new one; conversations which
  that cycle had already launched stay down. `Interrupted` therefore asks for
  `cycle = "off"`.
* `docs/mobile.md:61-64` says that a resumed session gets a new cloud id;
  agent-rc-resume-exec.sh:53-72 hands the old card back.
* `mount.ts:361-425`: a command that dies between reservation and commit, or an
  rclone that exits after it was identified (386, 474), leaves an entry without
  identities, which is "unknown" for ever; the label cannot be mounted again
  (contrast bridge.test.ts:91).
* `mount-lock.ts:55`: the stale lock is deleted by name, so of two commands that judge
  one dead owner's file the second may delete the first one's new lock, against
  mount-lock.test.ts:18. With `Contend = TRUE`, `LockExcludes` is violated.
* `bridge.ts:159`, `mount.ts:245`: a bridge's entry is dropped while its mount may
  still be there on the box; the next mount is refused as foreign, against
  connecting.md:280. `MountReturns` is false with the launchd job alone and one
  fault.
* `mount-lock.ts:34-35`: a crash between creating and writing the lock leaves a
  file without an owner, which is "unknown" for ever.
* `mount.ts:545,584`: `down` and `recover` judge the processes again after the
  unmount, which itself ends the ssh; if it is quick enough they refuse.
* `mount.ts:178-180`: psmisc's `fuser` exits 1 for an idle mount, so the state
  in which `recover` remounts a clean disconnected mount is hardly reachable.
* `recovery.ts:190` with `config.ts:82`: `die` inside a mount action ends
  `recover all` before the remaining components.
* `agent.ts:826-829, 997-998`: `agent up` sweeps what is "no longer configured", but
  only desktop, browser and mount agents; a monitoring agent stays when it leaves
  the configuration, and so do the autobinds of a cut `browser mode client`.
* `recovery.ts:43-106`: the dashboard's agent has no registration, and an agent that is
  loaded but not running or not ready is never recovered (its state is
  "recovering", which is skipped).
* `agent.ts:449-466`: the port is read once (491), so a supervisor that adopts Chrome's
  relaunch goes on forwarding the old port. `TunnelToOwnChrome` says that it should
  not; it is violated and belongs to no run.
* `app-configs/run.ts`: four interleavings with the sync engine lose a text, against
  remote-app-configs.sh:3 ("nothing is ever deleted, only renamed") and run.ts:158-160.
  `HoleUnseen`: the box's helper seeds its store unasked over a payload that the
  client has never received (run.ts:307, remote-app-configs.sh:127); `HoleSynced`: told
  to keep the synced copy, it seeds over it with an empty file or the one that holds
  the managed block; `HoleStale`: told the same, it pulls the box's copy over the
  client's, which an edit not synced yet has made the newer one (run.ts:125-140,
  307-308); `HoleCopy`: the engine brings the box's payload between the
  look and the copy over it (run.ts:318, 523). With `Careful = FALSE`, `NothingLost` is
  violated.
* `app-configs/run.ts:218-247`: a command cut after it renamed the box's payload leaves the
  engine that rename to carry as a deletion. If it does so while the re-run is under
  way, past the look at the client's payload, the link is made and points at
  nothing; no text is lost. `LinkHasTarget` excepts it (`swept`).
* `app-configs/plan.ts`: in directory mode, linking over a box directory whose content
  has not been synced leaves the engine with a conflict.
* `app-configs/run.ts:433-434`, `remote-app-configs.sh:182-183`: an unlink cut between
  removing the link and copying the payload leaves no file, and a rerun skips it
  (plan.ts:54, remote-app-configs.sh:165). The payload itself is kept.
* `sync/mutagen.ts:71-74`: a daemon that takes longer to end than thirty attempts to
  register comes back without registration, or not at all. With
  `SlowStops = TRUE`, `StoppedIsBack` is violated.
* `recovery.ts:92-94`: the registry has an entry for `sync_paused`, which health never
  reports.
* `omp-model-presets/index.ts:176`: entries are read before the restore is queued, and
  `appendEntry` goes to the session shown; a switch while an operation is queued
  records one session's preset in another, or restores a stale one.
* `omp-model-presets/core.ts`: a restore that fails leaves the previous session's roles
  and preset in force. `RecordTrue` excepts this, and the next, by name (`broken`).
* `omp-model-presets/core.ts:376, 394, 421-424`: a rollback puts back the roles that
  memory names, and not those OMP ran with. A reset whose entry cannot be written
  has cleared OMP's roles and not memory's; a `/preset q` that then fails puts the
  old preset's roles back, although every call of its rollback succeeds. The same holds
  after an alias rewrite whose entry is not written, and after a rollback that
  could not restore the roles. `FailureUndone` excepts the roles, and nothing else, of
  an application begun in that state (`apart`).

## 6. Not modelled

Command-line parsing, formatting, the terminal UI, the tables that classify
command lines and parse `/proc`, port and path planning, Ansible's linear
provisioning: no state of their own that two actors share. The verdicts these
give are nondeterministic inputs of the models (which processes are candidates,
which evidence is unsure). Crashes of the box as a whole are a lost connection
and the end of every process. The content of credentials is their account and
generation.

Of the modelled parts: two agent commands at once (`agent.ts` has no lock);
Syncthing's wiring and the installation of Mutagen's agent on the box; status
outputs; the retry policy's values, and settings scoped to different
directories, in `Presets`; the attempts file shared by several units, whose
effect section 5 states. The Paseo reaper's records, older than its processes
(`paseo-session-reap.py:250`), and its second kill without a second look at the
start time (209) have no property; `PROJECT.json` gives the reason for every other
hazard without one and every component without a module.

## 7. Plan

1. `Resume` for several units: the shared file as a run of its own.
2. `SessionReap` beside `Reaper` — `paseo-session-reap.py`.
3. `SiblingSwap` — the Codex, OpenCode and per-user swaps with the credential's
   shape as a parameter; `AccountSwap` and it as instances of one abstract
   promise (a label's login is the label's account's, none is lost).
4. The box doctor's recovery, and the Syncthing engine beside `SyncDisk`.
5. Pure operators in one checking module: specification validation,
   normalisation and resolution, doctor classification, each against a reference
   definition over bounded inputs.
6. Proofs: the `Trusted` of `GraceIsHeld` without its clause about passes that could
   not save, as a statement about completed passes.
