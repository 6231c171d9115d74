# A TLA+ model of writeonce-os

writeonce-os is a Linux distribution with its own user space in Rust: a PID 1,
a service supervisor, a login manager, an initramfs and an installer. This
directory holds TLA+ modules of the parts that carry its protocols, the TLC
configurations that check them on small instances, and TLAPS proofs of theorems
that hold for every instance. Paths below are relative to the repository.

## 1. Inventory

| Component | State | Operations | Correct when |
|---|---|---|---|
| Unit graph (`crates/writeonce-svc/src/graph.rs`) | registry of units, edges lifted from `[install]` and injected from `enabled.d` | `build_transaction`, `build_stop_transaction`, `add_wanted_by` | the plan is what is reachable, in an order that respects every `After=`/`Before=`; an error exactly when there is none |
| Supervisor state (`state.rs`) | state, pid and restart history per unit, `by_pid`, `pending_restarts`, `shutting_down` | start a transaction, wait for a oneshot, react to an exit, fire restarts, stop a unit, shut down | the tables name only live children; no transient state outlives its cause; a stop is complete; a shutdown is final; limits hold |
| Event loop (`signal.rs`) | epoll set, pending signals | wait, drain the signalfd, reap, serve the socket, fire the timer, exit | every exit is reaped, every restart is fired, it returns only when nothing is left |
| Control socket (`control.rs`) | waiting connections | START, STOP, RESTART, ENABLE, DISABLE, SHUTDOWN (LIST, STATUS, ENABLED, JOURNAL and CGROUPS only print) | hang-ups and errors leave memory and disk consistent |
| `enabled.d` (`enabled.rs`) | stubs on disk | load, enable, disable | what is enabled survives a crash |
| Start-up (`main.rs`) | - | load, inject, plan, listen, activate, loop | a failed unit takes down its dependents and nothing else |
| Spawn and cgroups (`spawn.rs`, `cgroup.rs`) | fds, cgroup directories | fork or clone3, exec | fails or returns a fresh child |
| initramfs (`crates/writeonce-initramfs`) | mounts, the deadline of the search | mount, parse the command line, wait for the root device, move the mounts, exec pid1 | a device that appears in time is found, nothing else is mounted over what was moved |
| pid1 (`crates/writeonce-pid1`) | signal mask, the child's pid, the shutdown's deadline | mount what is missing, spawn, reap, shut down | the machine goes down in bounded time, every zombie is reaped, no reaped pid is signalled |
| logind sessions (`crates/writeonce-logind/src/manager.rs`, `session.rs`, `state.rs`) | session records, objects on the bus, ids | CreateSession, ReleaseSession, SetIdleHint, Terminate; the rest reads, or forwards to the kernel | records and objects agree once calls are done, and a released session never comes back |
| logind inhibitors (`inhibitor.rs`) | lock records, the queue to the watcher thread, its epoll set | Inhibit, register, drain, release | a lock is released after its holder is gone, and not before |
| session-create (`crates/writeonce-session-create`) | its session, runtime directory, privileges | call logind, prepare, drop privileges, exec | what it execs has a session of its own and no privilege left |
| login (`crates/writeonce-login`) | PAM handle, echo flag, child | prompt, authenticate, open, fork, wait, close | what PAM gave is given back once on every path, and echo comes back |
| installer (`crates/writeonce-installer`) | target disk, mounts with guards, account files | verify, select, ask, partition, format, extract, customise, populate, verify again | only a disk that was consented to is wiped; mounts are unwound; "complete" means that the boot files were read back right |
| installer user interface (`tui.rs`, `prompt.rs`) | the form | keys, prompts | what is confirmed has passed every check |
| unit file parsing, wo-ctl, bootloader, kerngen, build scripts | - | straight-line conversion and I/O | not modelled, see section 7 |

How they interact: the kernel starts the initramfs, which switches to pid1 in
the same process; pid1 starts the supervisor, which starts logind and login as
services; wo-ctl talks to the supervisor over the control socket; login forks
session-create, which talks to logind over D-Bus and becomes the user's session.
The installer runs on another machine and writes the stick all of this boots from.

What is hard here: the supervisor is single-threaded but its world is not.
Children exit, timers become due, clients connect and signals arrive at any
moment and are noticed later, in an order the code does not choose; while the
supervisor waits inside one handler (for a oneshot, for a stop, for a client)
events pile up for the others. A signal can be merged with another, a flag is
borrowed by one handler and read by another, a pid is valid only until it is
reaped. In logind calls interleave at every await, and a thread of its own
watches the inhibitors. Login and session-create can be killed at any point,
which leaves their records with logind. The installer's every step can fail
after the disk is gone. `PROJECT.json` lists these hazards, each at its line,
with the properties aimed at it.

## 2. Plan

1. Unit graph and transactions: `UnitGraph`, `Transaction` (done;
   `UnitGraphProofs`, `TransactionProofs`).
2. Supervisor: `Supervisor`, composing state, event loop, control socket,
   start-up, kernel, clients and time (done; proofs in `SupervisorProofs` and
   `ProcessProofs`).
3. `Logind`, and `InhibitLock`, the abstract lock that it implements (done;
   `LogindProofs`).
4. `SessionCreate` and `Login`, composed with `Logind` (done; `LoginProofs`).
5. `Initramfs` and `Pid1`, the one process that is first both (done;
   `Pid1Proofs`).
6. `Installer`, with `InstallerForm` and `Customize` (done; `InstallerProofs`).
7. `UnitLife`, an abstract specification of one unit's life that `Supervisor` is
   shown to implement for each of its units (done; `ProcessProofs`).
8. What `Supervisor` assumes of its plans, proved of the plan builders (done;
   `UnitGraphProofs`).

Every invariant and action property of the passing runs is a theorem, three of
them under a hypothesis (section 5).

## 3. Modules

### Units and supervisor

`UnitGraph` has no state. A unit is its `UnitId`; a name that is no unit is a
member of `Names \ Units`. It defines the edges (`RequirementTargets`,
`HardRequirementTargets`, `Dependents`, `OrderEdges`; one ordering edge per
entry, as the code counts them), the sort by id (`Ascending`, a set with one
member), and a reference definition of the plans (`Plan`) that works on sets
without counting: `ClosureOf` closes the anchor under the edges, `Turn` places
the head of a queue and enqueues the units it was the last to hold back.

`Transaction` runs the two plan builders, which share all their steps but the
edges they follow and the final reversal:

| Action | `graph.rs` |
|---|---|
| `LookupFails`, `LookupAnchor` | `lookup(anchor)` |
| `ExpandClosure` | one turn of the breadth-first loop |
| `BuildEdges` | the loop that fills `order_out` and the in-degrees |
| `InitReady` | the sorted initial queue |
| `PopReady` | one turn of Kahn's loop |
| `Finish` | the cycle error, or the plan |

The iteration order of hash maps is not represented, because every place that
depends on it is followed by a sort; `PlanIsDeterministic` has a mutant without
the sort.

`Supervisor` is the whole supervisor. `pc` names the places where it blocks or
loops over system calls; between two of them a handler is one action.

| `pc` | where the code is | Actions |
|---|---|---|
| `boot` | `main::run` | `Boot`, `BootFails` |
| `start` | the loop over a transaction (`activate_plan`, `start_named`, `fire_due_restarts`) | `SkipActive`, `RefuseStart`, `StartTarget`, `SpawnFails`, `StartService`, `StartOneshot`, `StartDone` |
| `oneshot` | `wait_oneshot` | `OneshotExits`, `OneshotTimesOut` |
| `poll` | `epoll_wait` | `Poll` |
| `events` | the loop over the reported events | `NextEvent`, `EventsDone` |
| `signals`, `reap` | `drain_signalfd`, `reap` | `ReadSignal`, `SignalsDrained`, `Reap`, `ReapDone` |
| `control` | `handle_ready`, `handle_one` | `HandleStart`, `HandleStop`, `EnableRefused`, `EnablePersist`, `HandleShutdown`, `ControlDone` |
| `enable` | `enable`, after the stub is written | `EnableStart` |
| `drain`, `stopped` | `stop_unit`, waiting and returning | `DrainReap`, `Escalate`, `DrainDone`, `Stopped` |
| `fire` | `fire_due_restarts` | `FireDueRestarts` |
| `exit`, `exited` | the check at the end of an iteration | `ExitCheck` |

Around it are processes (`Exits`, `Dies`; the table `proc` keeps a child from
fork until it is reaped), clients (`Connect`, `SilentClientLeaves`), senders of
signals (`SendSignal`), time (`Tick`) and power (`PowerCycle`). Instants are
relative: a pending restart is `left` ticks away, an attempt in the restart
history has an age, a blocking wait has a `budget`. A signal that is pending
twice is pending once, as with a signalfd. The plans are constants of the
module (`StartPlan`, `StopPlan`); `MCSupervisor` gives them by the reference
definition of `UnitGraph`, which is what `Transaction` computes
(`PlanDetermined`). `Supervisor` assumes of a plan that it is a list of units and
names each once (`Plans`), which `EnabledPlansAreLists` proves of that definition.

`UnitLife` is what the supervisor promises of one unit, without pids, plans,
clocks, signals and clients: its state, whether a restart of it is scheduled,
and, of its surroundings, whether a stop is at work and whether the supervisor is
going down. It says which exits lead to a restart under which policy, that an
exit during a stop or a shutdown leads to none, that a unit in a stop's plan has
none scheduled, that a stop returns only when the unit is at rest, and that
nothing but a power cycle ends a shutdown. `Life(u)` in `Supervisor` reads these
four from the tables; `GoingDown` undoes the borrowing of `shutting_down` by
`stop_unit`. `UnitsLive` says that every unit's steps are steps of its life.

Abstracted: names, texts and logs; cgroup directories and file descriptors;
the TOML of units and stubs; SIGINT, which is handled as SIGTERM; errors of
`epoll_wait` and of reading the signalfd; a control socket that cannot be bound,
which behaves like one nobody uses.

### logind

`Logind` has the Manager and Session objects, the state behind the mutex and the
watcher thread. A method call is a task of the bus library's executor, and
`task[t].step` is the await it is at: between two awaits the code holds the
mutex, or touches nothing shared, so that is one action.

| Task | Actions | `manager.rs`, `session.rs`, `inhibitor.rs` |
|---|---|---|
| CreateSession | `CreateSession`, `ServeSession`, `AnnounceSession` | id and record; `server.at().await`; lifecycle pipe and `SessionNew` |
| ReleaseSession | `ReleaseSession`, `UnserveSession`, `AnnounceRemoved` | record; `server.remove().await`; `SessionRemoved` |
| SetIdleHint | `SetIdleHint` | one critical section |
| Inhibit | `Inhibit`, `RegisterPush`, `RegisterWake` | record and pipe; queue; wake pipe |
| watcher | `DrainPending`, `AddToEpoll`, `EpollWait`, `HandleEvent` | `run`, `drain_pending`, `release` |

`CloseHandle` is the world's: the last copy of a pipe's write end goes, because
its holder closed it or died. What may fail is the constant `MayFail`.

`InhibitLock` is what Inhibit promises, with neither pipes nor threads: a lock
is free, held, closing, gone, or stuck because the daemon could not watch it.
`LockStage` in `Logind` computes that stage from the record, the queue, the
batch, the epoll set and the holder's descriptor; `InhibitorsImplementLock` is
`InhibitLock`'s specification (`Safety /\ Fairness`) under this mapping. Its
`Safety` is also a theorem.

Abstracted: methods that only read or forward (Activate, Lock, Kill, Reboot,
PowerOff), the way a caller's credentials are resolved, seats and users (each
has one), failures of `epoll_wait` itself; the walk of `find_session_by_pid` up
to the parents of a process (`state.rs` 117-121), of which only the match with a
leader is there (`LedBy`).

### Session and login

`SessionCreate` extends `Logind` with processes: each pid goes through the
stages of `run`, and each stage either succeeds or ends the process and leaves
what was done (`Try`, `Died`). `CallCreateSession` is `Logind`'s `CreateSession`
by that process; `Reply` reaches the process only if it still waits for this
very call. A signal may end it anywhere (`ProcessEnds`, `Terminate`).

`Login` extends `SessionCreate` with one terminal. Every action that leaves the
loop body early runs the PAM destructor (`DropSession`), as Rust does; `Killed`
is a signal and runs nothing. `pamCalls` is the history of the calls on the
current handle; an open or an establishing of credentials that failed has an
entry of its own, since the code treats the two failures differently. `Fork` takes any free pid, so pids are reused while logind may
still hold records of their earlier owners.

### First process

`Initramfs` and `Pid1` share one process: `stage` runs through the first, `ExecPid1`
ends it and `Pid1` goes on with the mounts it left in the new root. Time in the
search is counted in polling intervals; the device may appear in any of them,
and also between the last poll and the look at the clock. In `Pid1` a pending
signal is a flag, as with a signalfd, and signals are read lowest number first.

| Module | Actions | Code |
|---|---|---|
| `Initramfs` | mounting, parsing, polling, mounting and moving, exec | `main.rs` `run`, `cmdline.rs`, `discover.rs`, `mount.rs`, `switch_root.rs` |
| `Pid1` | `MountEssentials`, `InstallSignals`, `SpawnPlaceholder` | `mount.rs`, `signal.rs` `install`, `exec.rs` |
| | `LoopTop`, `EpollWait`, `EpollFails`, `ReadSignal`, `Drained` | `signal.rs` `event_loop`, `drain_signalfd`, `reap_children`, `finish_shutdown` |
| world | `Signal`, `OrphanAdopted`, `ProcessExits`, `GracePasses` | - |

Abstracted: the recovery shell (a stage the process does not leave), superblocks
(the device with the wanted UUID or label is the one that appears), loaded modules
beyond whether the driver is there.

### Installer

`Installer` runs `install()` from the manifest to the dropping of its locals:
`pc` names the step, `guards` is the stack of `MountGuard`s, and every early
return goes through `unwind`, where `DropGuard` runs them last made first and
`RemoveWorkdir` deletes the work directory with whatever is still mounted in it.
Others may mount partitions of the disk and replace artifacts meanwhile
(`OthersMount`, `ArtifactChanges`); a stick may store something else than was
written. What can be mounted of a disk are its `Parts`: the whole, a partition 1
or 2, another one. `safety_check` sees the first two, and on a device whose
partitions are named with a `p` (`PNamed`) only the whole. A mount point of the
installer is `lingering` when its file system stays in use after the umount, by
a lazy umount or because another program has it mounted: `Reread` is then
answered from the page cache. It reads the files the manifest has hashes of
(`Hashed`), which `cmdline.txt` is not one of. `InstallerForm` is what is asked before: `HandleKey` for the screens,
`GatherPlan` for the prompts. `Customize` has the edits of the account files as
operators on sequences.

Abstracted: focus, drawing and messages; the fields of an account line other
than the name; the keyboard file and xinitrc; what sgdisk and mkfs do beyond
succeeding or failing; one user.

### Mutants

The definitions whose comment starts with "Mutant" are plausible bugs. No
specification uses them; each property is checked to fail when one of them
takes the place of the operation it mimics.

## 4. Runs

| Run | Checks | Instance |
|---|---|---|
| `plans` | `TypeOK`, `ClosureIsReachability`, `PlanRespectsOrdering`, `CycleErrorIsReal`, `PlanIsDeterministic`, `Terminates` | 3 units: requirement graphs split over the five directives, with and without order; every `After=` relation; repeated, dangling and contradictory entries; every anchor, unknown ones too |
| `stop` | what a stop and a shutdown leave behind, and the life of each unit (`UnitsLive`) | target, service, dependent service; 2 pids; two requests or SIGTERMs |
| `boot` | failures during activation: `BootFailurePropagates` | two oneshots, a service and a target; spawns may fail; two signals |
| `control` | every command, hang-ups, disk errors, a power cycle | one crashing service, 2 pids, a burst of 2; two requests, one power cycle |
| `live` | the eventualities | as `stop`, with a service that ignores SIGTERM |
| `calls` | logind: sessions, and the refinement of the lock | 2 calls in flight, 1 session id, 2 inhibitors, epoll reports one event at a time; every failure |
| `console` | login, session-create and logind together | one terminal, 1 call in flight, 2 pids, 2 session ids; any step may fail or be killed; serving an object may fail |
| `handover` | initramfs and pid1 | five command lines, a wait of 0 to 3 intervals, 2 orphans, graces of 0 and 2, two signals; every failure |
| `install` | installer, form and prompts | two sticks, one of them with p-named partitions, a fixed disk and a DVD; two spec files; three sysroots; every flag and failure |
| `reqcycle`, `refused`, `twice` | findings, section 6 | the smallest instance that shows them |

Bounds. `MaxEvents` = 2 requests or signals are enough for one to meet another
in any handler, and exits, crashes and restarts are not bounded, so behaviours
are infinite. Two pids suffice for two services, and for one service to be
started twice; with all of them taken, `SpawnFails` is fork's failure. Delays
and limits of one or two ticks put every deadline before, at and after every
other event. `Symmetry` permutes pids, which are only compared; it is not used
with liveness. Deadlock is not checked: `exited` is the end, and with its
requests used up an idle supervisor may wait for ever.

In `calls` one session id is enough for any number of ReleaseSession calls to
race its CreateSession, and two locks for one to be queued while the watcher
handles the other; an event buffer of one makes it come back for the rest. In
`console` two pids let one login be killed and the next one run while the first
session lives, and two ids let a pid come back under a new session. In
`handover` the clock runs past every deadline, and two orphans and the child let
SIGCHLDs merge. In `install` each size is rejected by one disk and accepted by
another, each name and password by one rule and not the next. These runs do not
check for deadlock either: ids and requests run out, the machine has
rebooted, the installer has returned.

The properties:

* `PidTablesNameOwnChildren`: `by_pid` is exactly the unreaped children, a
  unit's pid is filed under it, and `stop_unit` waits only for unreaped children.
* `TransientStatesEnd`: Activating only during `wait_oneshot`, Deactivating
  only during `stop_unit`, for a process it still waits for.
* `StopIsComplete`, `NoRestartDuringShutdown`, `ShutdownIsFinal`: a stop leaves
  no process and no restart of its plan; a shutdown leaves no restart and is
  never taken back, although `stop_unit` borrows its flag.
* `UnitsLive`: every step of the supervisor is a step of each unit's abstract life,
  or none.
* `OneProcessPerUnit`, `QuietAtExit`: without a START racing a pending restart
  (run `stop`) a unit has one process and none survives the supervisor.
* `ActiveServiceHasProcess`, `BootFailurePropagates`, `EnablePersistsFirst`: see
  their comments.
* `RestartRateLimited`: the number of restarts in the window, by the code's own
  comparison of ages with the interval; the edge of the window is not judged.
* `EveryExitIsReaped`, `StopReturns`, `PendingRestartIsConsumed`,
  `ShutdownCompletes`: liveness.
* `ObjectsMatchSessions`, `ReleasedStaysReleased`: records and objects after
  concurrent creates and releases; the one exception, a release that overtakes
  the create it belongs to, is a conjunct of the property.
* `InhibitorsImplementLock`: the refinement, safety and liveness.
* `SessionBelongsToItsProcess`: whatever is killed and whichever pid is reused,
  a process holds only a session it leads, and a script has dropped everything.
* `PamBracketed`, `EchoRestored`: the PAM calls and the terminal on every path. A
  session process runs in an open PAM session with its credentials; what was got
  is given back once, in order, and the handle is ended. The closing of a session
  whose open failed, which the code does, is a term of the property.
* `RootFoundIfInTime`, `ChildSeesMounts`: the search and its deadline; the child
  sees six file systems, each once, whichever the initramfs could move. The
  deadline is that of the parsed wait, and one of 0 or 1 intervals promises nothing.
* `PidNamesOwnChild`, `GraceNeverRestarts`, `ShutdownEnds`, `ZombiesAreReaped`:
  pid1's child, and its shutdown under repeated and merged signals.
* `WipedOnlyWithConsent`, `ConfirmedFormIsValid`: what precedes the loss of a
  disk. That the partitions fit on it is claimed of a root size from the spec file
  or the form; one typed at the prompt, and "the rest", the code does not check.
* `UnwoundInOrder`, `SuccessIsVerified`, `AccountIsWhole`: what is left of an
  installation, failed or not.

Fairness. `FairSpec` assumes weak fairness of the supervisor's parts (one
thread that never stays in one place unless it waits for something: each wait
is a guard), of `Tick` (time passes), of `Dies` (SIGKILL works) and of
`ExitsAfterTerm` (a program that does not ignore SIGTERM ends after it).
Nothing is assumed of clients, of senders of signals, or of a service left
alone. A silent client therefore may hold the supervisor for ever; it is in the
`control` run and not in `live`.

`LogindSpec` assumes that the executor polls every task and that the kernel
schedules the watcher; nothing of clients, so a lock may be held for ever and
`InhibitLock` does not promise that it is closed. `Pid1` assumes that PID 1 is
scheduled and that the time of the grace passes. A failing system call is never
forced: `EpollFails` is outside the fair part. `Login` and `Installer` are
checked for safety only; each waits for people.

## 5. Proofs

### Plans

`TransactionProofs` proves, for every finite set of units and every registry, the
invariants of run `plans`:

| Theorem | Property |
|---|---|
| `TypeCorrect` | `TypeOK` |
| `ClosureCorrect` | `ClosureIsReachability` |
| `PlanCorrect` | `PlanRespectsOrdering` |
| `CycleCorrect` | `CycleErrorIsReal` |
| `PlanDetermined` | `PlanIsDeterministic` |

They rest on `UnitsAssumption` and `RegistriesAssumption` only. None is
inductive. `IInv` adds

* `PhaseInv`: which variables a phase has not touched;
* `ClosureInv`: only queued units are still to be expanded, and everything
  collected is in every closed set with the anchor;
* `DegreeInv`: an in-degree is the number of edges from units not sorted yet;
* `KahnInv`: the units with in-degree zero are the ready and the sorted ones,
  each once, and the sorted ones respect the edges;
* `ResultInv`: the result in terms of what was sorted.

The step that carries the weight is `PopReady`: the in-degree of every unit
loses exactly the edges that leave the unit taken from the queue, repeated
entries included, so the units enqueued are those that waited for nothing else.
`CycleCorrect` then follows: leftovers have positive in-degree, so each waits
for another leftover; and a deadlocked set in a complete order would have a
first member (`FirstPosition`), which contradicts `KahnInv`.

`PlanDetermined` is a second induction, with `ReferenceInv`: after n units are
sorted, queue and order are those of turn n of the reference definition. For
that, a unit has in-degree zero exactly when everything that precedes it is
placed (`ZeroMeansPlaceable`), so both enqueue the same units, and the sort by id
leaves one order for them.

`StepsAreBounded` is the part of `Terminates` that needs no fairness: `Work`
counts the phases, the units to expand and the units to sort that are left; it
is a natural number, every step makes it smaller, and it is 2 |Units| + 4 at the
start (`WorkAtStart`). The closure's half rests on a unit being queued once
(`QueueInv`), also in requirement cycles.

`UnitGraphProofs` has what that rests on: what the recursive functions of the
reference definition compute. The induction theorems of the library take an
operator, which the provers cannot instantiate; `UpTo` does induction over an
interval with a set instead, by the least element the set lacks. With it:
`Reached` and `Turns` unfold (`ReachedUnfolds`, `TurnsUnfolds`), the closure is
the least set with the anchor that is closed under the edges
(`ClosureOfIsLeast`: |Units| rounds suffice), and every set of units has one
ascending enumeration (`AscendingExists`, `AscendingUnique`).

| Theorem | What it says |
|---|---|
| `PlansAreLists` | `Plan` answers every name with a list of loaded units without repetition, or an error, in every registry |
| `EnabledPlansAreLists` | the same with `enabled.d` injected under any target: the assumption of `Supervisor` on its plans |

### Supervisor

`SupervisorProofs` proves, for every registry, every plan a builder may return,
every set of services, pids and requests, every number of requests, signals and
power cycles (`MaxEvents` and `MaxBoots` are any numbers) and any crashes:

| Theorem | Property |
|---|---|
| `TypeCorrect` | `TypeOK` |
| `TablesCorrect` | `PidTablesNameOwnChildren` |
| `TransientCorrect` | `TransientStatesEnd` |
| `ActiveCorrect` | `ActiveServiceHasProcess` |
| `ShutdownQuiet` | `NoRestartDuringShutdown` |
| `ShutdownIrrevocable` | `ShutdownIsFinal` |
| `EnableIsDurable` | `EnablePersistsFirst` |
| `RateCorrect` | `RestartRateLimited` |

They rest on `UnitsAssumption` and `SupervisorAssumption`, which give the
constants their types: nothing is assumed of the plans but that they are lists
of units without repetition. The invariants are proved together, since none of
them is inductive: that an Active service keeps its process needs to know which unit a reaped
child belonged to (`PidTablesNameOwnChildren`), and that needs to know what
`stop_unit` still waits for. `IInv` adds

* `ServingInv`: between two waits of a handler the request is still at the head
  of the connections, `wait_oneshot` waits for a oneshot that has a pid, and
  ENABLE has written the stub before it injects the edge;
* `StopInv`: nothing is expected to die outside `stop_unit`, and while it runs
  the flag `shutting_down` is set. Without it a crash reaped during a stop could
  be scheduled for a restart, and the restored flag would not be the borrowed one.

There is one lemma per action. `ChildExit` says once what is left of a process
after `on_child_exit`, for the three places that reap. `Frame` and `SameFrame`
discharge the steps that touch no table. `ShutdownIrrevocable` follows from
`FlagStep`: while a shutdown is on, either the flag is set or `stop_unit` holds
the value to be restored. `RateCorrect` is a second induction over `IInv`: a
prune keeps exactly the recent attempts, an attempt is added only below the
limit, and time can only make attempts older.

### Processes of a unit

`ProcessProofs` builds on `SupervisorProofs`. Finding `twice` shows that
`OneProcessPerUnit`, `StopIsComplete` and `QuietAtExit` are not theorems of
`Spec`: a request may start a unit whose restart is pending, and the restart then
starts it again. So they are proved of the behaviours in which that does not
happen, as `Spec /\ []NoStartMeetsRestart => []P`. The hypothesis excludes what
the finding does and nothing else: boot, the timer, crashes, stops, shutdowns and
power cycles are all unrestricted, and so are requests for other units.

| Theorem | Property | Hypothesis |
|---|---|---|
| `OneProcessCorrect` | `OneProcessPerUnit` | `NoStartMeetsRestart` |
| `StopCorrect` | `StopIsComplete` | `NoStartMeetsRestart` |
| `QuietCorrect` | `QuietAtExit` | `NoStartMeetsRestart` |
| `BootFailureCorrect` | `BootFailurePropagates` | none |
| `LivesCorrect` | `UnitsLive` | none |
| `LifeImplemented` | `Life(u)!Spec`, for each unit | none |

`ProcessInv` adds to `IInv`

* `SoleInv`: `by_pid` and `UnitMeta.pid` are inverse to each other (`IInv` has
  only one direction), and a settled unit has no process;
* `PendingInv`: a restart is pending once, for a unit without a process. This is
  where a second process would come from: `fire_due_restarts` does not look;
* `TodoInv`: what boot and the timer are about to start has no process and no
  pending restart, and is named once. Requests need less: they pass over Active
  units (`skip`), and the other states have no process;
* `QuietInv`: no process before activation and after the last exit;
* `PlannedInv`: during `stop_unit` the plan is Inactive or Deactivating, and
  without restarts, whatever else is reaped meanwhile.

`BootInv` describes the prefix of the plan `activate_plan` has been through: in
it the failures have reached all that depends on them, and a oneshot being
waited for depends on no failed unit. That a plan names a unit once keeps later
steps from rewriting the states of that prefix.

`LifeImplemented` is the refinement, and needs no hypothesis: the histories in
which a unit is started twice are lives as well, since `UnitLife` has no pids.
The initial state maps to the initial state; `StartLed`, `OneshotLed`, `CrashLed`,
`ExitLed`, `FireLed`, `BeginStopLed`, `StoppedLed`, `ShutdownLed` and
`PowerCycleLed` map each kind of step to one of the unit it is about, and to a
stutter of the others; all other steps are stutters of every unit. It needs `IInv`
and one more invariant, `OneshotInv`: a oneshot has a process only while
`wait_oneshot` waits for it, so `reap` and `stop_unit` never meet one, and it is
Activating as long. From `IInv` come `StopInv` (during a stop the flag is set, so
that no exit reaped there is taken for a crash), `TransientStatesEnd` (outside
the waits every unit is at rest) and `NoRestartDuringShutdown` (the timer has
nothing to fire while the supervisor goes down).

### First process

`Pid1Proofs`, for every command line, wait, grace, set of failing calls, number
of orphans and number of signals:

| Theorem | Property |
|---|---|
| `TypeCorrect` | the types of both modules |
| `SearchCorrect` | `RootFoundIfInTime` |
| `PidCorrect` | `PidNamesOwnChild` |
| `MountsCorrect` | `ChildSeesMounts` |
| `GraceCorrect` | `GraceNeverRestarts` |

`SearchInv` relates the moment the device appears to the poll that missed it,
between the miss and the look at the clock. `MountsInv` says that a parent is
mounted before what lies below it, whatever subset the initramfs moved; without
it a later mount could hide an earlier one. `ChildInv` says that nothing is
missing once the child may exist.

### logind and login

`LogindProofs`, for every number of tasks, session ids, locks and events:

| Theorem | Property |
|---|---|
| `ObjectsCorrect` | `ObjectsMatchSessions` |
| `ReleasedCorrect` | `ReleasedStaysReleased` |
| `LockSafety` | `Lock!Safety`, the safety part of `InhibitorsImplementLock` |

`LogindInv` has the types, `RecordInv` (nothing is known of an id before it is
allocated), `CallsInv` (what each await of a create or a release still owes: who
holds the id, and that no two calls owe the same signal) and `WatcherInv` (where
a lock is between the mutex, the queue, the watcher's batch and its epoll set).
For the refinement, the initial state maps to the initial state and each action
to a step of `InhibitLock` or a stutter: `Inhibit` to the taking of a lock,
`CloseHandle` to its closing, `AddToEpoll` to a stutter or to the lock getting
stuck, `HandleEvent` to its release, everything else to a stutter.

`LoginProofs` extends it to the processes, for every set of pids:

| Theorem | Property |
|---|---|
| `LoginTypeCorrect` | `TypeOK` |
| `OwnershipCorrect` | `SessionBelongsToItsProcess` |
| `PamCorrect` | `PamBracketed` |
| `EchoCorrect` | `EchoRestored` |

The composition is proved in parts. `KeepsSessions` and `KeepsCall` say what a
step of logind means for a process that waits for an answer or has one; with
them the invariants of a process (`ChildInv`) need not look inside logind.
`PamInv` gives the history of PAM calls at each place of login, with `WaitInv`
for the place where it waits for its child, and `EchoInv`
that the guard never saved "off", unless a signal left it so.

### Installer

`InstallerProofs`, for every set of devices, sizes, inputs, spec files,
sysroots, changing artifacts and failing commands:

| Theorem | Property |
|---|---|
| `FormCorrect` | `ConfirmedFormIsValid` |
| `ConsentCorrect` | `WipedOnlyWithConsent` |
| `UnwindCorrect` | `UnwoundInOrder` |
| `SuccessCorrect` | `SuccessIsVerified` |
| `AccountCorrect` | `AccountIsWhole` |

The invariant: `FormInv` (a screen has the checks of the earlier ones behind it),
`ChoiceInv` and `DiskInv` (what is known of device, plan and consent at each
step), `MountInv` (which guards and mounts there are at each step, and on the
way out which mounts a guard still covers) and `ResultInv` (what a success rests
on). `AccountInv` is an induction of its own: the sysroot is as shipped until
`customize` and whole from then on; the work is in the lemmas about
`RewriteLines` and `RewriteGroup`, for files of any length.

Assumptions: `FormAssumption` and `InstallerAssumption`, types, and that the
skeleton names its placeholder at most once in each account file
(`PlaceholderOnce`; `build/skeleton/etc/passwd` and `group` do).

### What the proofs changed

A proof attempt that failed was a finding about the model. Guards of a `CASE`
that overlapped (`LockStage`, `Reply`, `RootWait`, the consent in `Confirm`) are
now `IF`s, in the order the code asks. `AccountIsWhole` was false of names that
no instance had: one that only `/etc/shadow` knew, and one that equals a
supplementary group the sysroot lacks; the first now counts as taken, and nobody
needs to be listed in the group that is their own.

### Only model-checked

* All liveness, termination included, and with it the fairness half of
  `InhibitorsImplementLock`: out of reach of the provers used. Of `Terminates`
  the bound on the steps is proved, and that a step is possible is not.
* `CrashIsRestarted` and the properties of `reqcycle` and `twice`: the code
  violates them.

## 6. Findings and observations

* `reqcycle`: units that require each other are planned; `graph.rs` line 12 and
  `docs/learning/phase-4-dependency-graph.md` say they are rejected.
* `refused`: two services crash together and the dependent's restart comes due
  while the dependency is still Failed: the dependent is marked Failed and never
  started again, whatever its policy.
* `twice`: START of a service whose restart is pending, then the restart: two
  processes, of which the first is forgotten and survives the supervisor.

Seen while modelling, and not the subject of a run:

* a crash of an unrelated service during a `stop_unit` is recorded as Inactive
  and not restarted, because the flag is borrowed (`state.rs` 250, 263);
* `initiate_shutdown` never escalates to SIGKILL, so a service that ignores
  SIGTERM keeps the supervisor from exiting (`ShutdownCompletes` excludes it;
  `plan/done/phase-4-supervisor.md` line 40 speaks of a grace period);
* `control.rs` 188-191 says that ENABLE writes a stub even for an unknown unit;
  the code returns an error first;
* DISABLE leaves the injected edge in place until the next boot;
* due restarts are started in the order they were scheduled, not "in time
  order" (`state.rs` 332);
* a stop plan need not end with its anchor (`graph.rs` 275-277) when units
  without an order between them are in it;
* a client that connects and sends nothing stops the supervisor (`control.rs` 96).
* nothing releases a session when its process ends: the lifecycle pipe's read
  end is dropped when CreateSession returns (`manager.rs` 136-139), so records of
  dead sessions accumulate, and Terminate signals whoever has the pid now;
* `existing` is returned as false in every case (`manager.rs` 46, 157);
* a ReleaseSession that overtakes the CreateSession serving the object leaves
  the object on the bus without a record;
* session ids start again at 1 when logind is restarted;
* PowerOff sends SIGUSR1 to PID 1 (`manager.rs` 446-448), which that does not
  handle (`crates/writeonce-pid1/src/signal.rs` 10-15);
* a signal that ends login while it reads a password leaves echo off for its
  successor, whose guard then saves and restores "off" (`EchoRestored` excludes it);
* when `reboot` fails PID 1 returns from main;
* the recovery shell says /proc, /sys and /dev are mounted also after they were
  moved away (`crates/writeonce-initramfs/src/main.rs` 11-12, 84);
* `--force-non-removable` lets a fixed disk be named, and `safety_check` then
  refuses it (installer `main.rs` 73-76, `detect.rs` 98-126); that check looks for
  mounts of the device and its partitions 1 and 2 under names that a device
  with a `p` before the partition number does not use;
* a root size typed at the prompt is not compared with the disk (`prompt.rs`
  67-80), and with 0, "the rest", neither form nor prompt compares the ESP with it
  (`tui.rs` 273-289): sgdisk then fails after the old table is gone
  (`WipedOnlyWithConsent` exempts both); the form accepts an ESP of 64 to 8192
  MiB, the prompt one of 100 to 4096;
* the form drops the spec file's `network.enabled_at_boot`;
* a user name that the sysroot already has gives two accounts of one name
  (`AccountIsWhole` excludes it);
* `verify.rs` line 3 speaks of a read-only mount; it is mounted read-write, and
  an umount that fails there goes unnoticed, after which the removal of the work
  directory deletes the files of the ESP (`SuccessIsVerified` excludes it); the
  root file system and `cmdline.txt` are not read again;
* an ESP that another program has mounted, or that was only detached by the lazy
  umount, keeps its page cache, so the verification reads what was written and
  not what the stick stored (`verify.rs` 20-48; `SuccessIsVerified` excludes it);
* a `pam_open_session` that fails is closed by the destructor, because the flag
  is set before the call (`pam.rs` 241), while credentials that could not be
  established are not deleted (`pam.rs` 243-250).

## 7. Not modelled

* Unit file parsing, the parsing of `enabled.d` stubs and of spec files: total
  functions from text to records. The models start from the records.
* wo-ctl: it writes one line to the control socket and prints the answer; it
  is the client of `Supervisor`'s `Connect`.
* bootloader: an EFI program that loads a kernel and jumps to it, once, without
  state or concurrency; kerngen and the build scripts: generators that run on a
  developer's machine.
* Drawing of the text interface, cgroup directories, file descriptors passed to
  services, journal files: I/O no property here depends on.
