----------------------------- MODULE Supervisor ------------------------------
(***************************************************************************)
(* writeonce-svc: the single-threaded supervisor (state.rs), its event     *)
(* loop (signal.rs), its control socket (control.rs) and its boot sequence *)
(* (main.rs), together with the kernel's process table, the clients of the *)
(* socket, and time.                                                       *)
(*                                                                         *)
(* A handler runs without interruption between two places where it blocks  *)
(* or loops over system calls; there the processes, the clients and the    *)
(* clock may move.  pc names those places.  Instants are kept relative to  *)
(* the present: a restart is left ticks away, an attempt is age ticks old, *)
(* a blocking wait has budget ticks before its deadline.                   *)
(***************************************************************************)
EXTENDS UnitGraph

CONSTANTS
  Reg,              \* the registry as loaded
  StartPlan(_, _),  \* build_transaction, given the enabled units and an anchor
  StopPlan(_, _),   \* build_stop_transaction
  Service,          \* units with a [service] section; the others are targets
  Oneshot,          \* services of Type=oneshot
  Remain,           \* oneshots with remain-after-exit
  Policy,           \* restart
  RestartSec,       \* restart-sec
  Burst,            \* start-limit-burst, 0 for no limit
  Interval,         \* start-limit-interval-sec
  TimeoutStart,     \* timeout-start-sec
  TimeoutStop,      \* timeout-stop-sec
  DefaultGrace,     \* stop grace of a plan without services
  DefaultTarget,    \* --default-target
  MultiUser,        \* the name multi-user.target
  Pids,             \* process ids
  NoPid,            \* Option::None for a pid
  IgnoresTerm,      \* services whose program survives SIGTERM
  SpawnMayFail,     \* services whose spawn may return an error
  DiskMayFail,      \* whether reading or writing enabled.d may fail
  Requests,         \* requests a client may send
  ExternalSignals,  \* signals sent to the supervisor by others
  MaxEvents,        \* bound: requests and external signals in a behaviour
  MaxBoots          \* bound: power cycles in a behaviour

States == {"Inactive", "Activating", "Active", "Deactivating", "Failed"}
Policies == {"no", "always", "on-failure", "on-abnormal"}
Commands == {"START", "STOP", "RESTART", "ENABLE", "DISABLE", "SHUTDOWN", "SILENT"}

ASSUME SupervisorAssumption ==
  /\ Reg \in Registry
  /\ \A enabled \in SUBSET Units, name \in Names :
       StartPlan(enabled, name) \in Plans /\ StopPlan(enabled, name) \in Plans
  /\ Service \subseteq Units /\ Oneshot \subseteq Service /\ Remain \subseteq Oneshot
  /\ Policy \in [Service -> Policies]
  /\ RestartSec \in [Service -> Nat] /\ Burst \in [Service -> Nat]
  /\ Interval \in [Service -> Nat]
  /\ TimeoutStart \in [Service -> Nat] /\ TimeoutStop \in [Service -> Nat]
  /\ DefaultGrace \in Nat
  /\ DefaultTarget \in Names /\ MultiUser \in Names
  /\ NoPid \notin Pids
  /\ \A r \in Requests : r \in [cmd : Commands, unit : Names, gone : BOOLEAN]
  /\ ExternalSignals \subseteq {"TERM", "HUP"}
  /\ MaxEvents \in Nat /\ MaxBoots \in Nat

NoUnit == -1

Exited == {"clean", "failed", "signaled"}   \* zombies, by wait status
Alive  == {"running", "termed", "killed"}

VARIABLES
  state,        \* UnitMeta.state
  pid,          \* UnitMeta.pid
  history,      \* UnitMeta.restart_history, as ages
  byPid,        \* by_pid
  pending,      \* pending_restarts, in insertion order
  shuttingDown, \* shutting_down
  virtual,      \* units under an injected wanted-by edge of multi-user.target
  stubs,        \* enabled.d, on disk
  proc,         \* the kernel's table of the supervisor's children
  sigs,         \* signals pending on the signalfd
  conns,        \* connections waiting on the control socket
  pc,           \* where the supervisor is
  evs,          \* epoll events of this iteration not handled yet
  shutReq,      \* handle_ready's shutdown_requested
  todo,         \* units of the transaction still to start, in order
  skip,         \* start_named passes over Active units, the others do not
  ret,          \* where the running transaction returns to
  expected,     \* stop_unit's expected
  escalated,    \* stop_unit's escalated
  was,          \* stop_unit's was_shutting_down
  budget,       \* ticks before the deadline of a blocking wait
  sent, boots   \* counters of the bounds

units   == <<state, pid, history, byPid, pending>>
disk    == <<virtual, stubs>>
kernel  == <<proc, sigs>>
start   == <<todo, skip, ret>>
stop    == <<expected, escalated, was>>
bounds  == <<sent, boots>>

vars == <<units, shuttingDown, disk, kernel, conns, pc, evs, shutReq, start, stop,
          budget, bounds>>

Restart == [unit : Service, left : Nat]

TypeOK ==
  /\ state \in [Units -> States]
  /\ pid \in [Units -> Pids \cup {NoPid}]
  /\ history \in [Service -> Seq(Nat)]
  /\ byPid \in [Pids -> Service \cup {NoUnit}]
  /\ pending \in Seq(Restart)
  /\ shuttingDown \in BOOLEAN
  /\ virtual \in SUBSET Units
  /\ stubs \in SUBSET Names
  /\ proc \in [Pids -> Exited \cup Alive \cup {"free"}]
  /\ sigs \in SUBSET {"CHLD", "TERM", "HUP"}
  /\ conns \in Seq(Requests)
  /\ pc \in {"boot", "start", "oneshot", "poll", "events", "signals", "reap", "control",
             "enable", "drain", "stopped", "fire", "exit", "exited"}
  /\ evs \in SUBSET {"signals", "control"}
  /\ shutReq \in BOOLEAN
  /\ todo \in Seq(Units)
  /\ skip \in BOOLEAN
  /\ ret \in {"poll", "control", "exit"}
  /\ expected \in SUBSET Pids
  /\ escalated \in BOOLEAN
  /\ was \in BOOLEAN
  /\ budget \in Nat
  /\ sent \in Nat
  /\ boots \in Nat

\* A machine that has just been switched on, with an empty enabled.d.
Init ==
  /\ state = [u \in Units |-> "Inactive"]
  /\ pid = [u \in Units |-> NoPid]
  /\ history = [u \in Service |-> <<>>]
  /\ byPid = [p \in Pids |-> NoUnit]
  /\ pending = <<>>
  /\ shuttingDown = FALSE
  /\ virtual = {}
  /\ stubs = {}
  /\ proc = [p \in Pids |-> "free"]
  /\ sigs = {}
  /\ conns = <<>>
  /\ pc = "boot"
  /\ evs = {}
  /\ shutReq = FALSE
  /\ todo = <<>>
  /\ skip = FALSE
  /\ ret = "poll"
  /\ expected = {}
  /\ escalated = FALSE
  /\ was = FALSE
  /\ budget = 0
  /\ sent = 0
  /\ boots = 0

------------------------------------------------------------------------------
(***************************************************************************)
(* Processes, clients, time and power.                                     *)
(***************************************************************************)

\* The child exits: its exec failed (child_exec, _exit(127)), its program
\* ended by itself or was killed by others, or it was asked to.
Exits(p, how) ==
  /\ proc[p] \in {"running", "termed"}
  /\ proc' = [proc EXCEPT ![p] = how]
  /\ sigs' = sigs \cup {"CHLD"}
  /\ UNCHANGED <<units, shuttingDown, disk, conns, pc, evs, shutReq, start, stop, budget, bounds>>

\* SIGKILL takes effect.
Dies(p) ==
  /\ proc[p] = "killed"
  /\ proc' = [proc EXCEPT ![p] = "signaled"]
  /\ sigs' = sigs \cup {"CHLD"}
  /\ UNCHANGED <<units, shuttingDown, disk, conns, pc, evs, shutReq, start, stop, budget, bounds>>

\* The signalfd and the socket exist once main::run has come to the plan.
Listening == pc \notin {"boot", "exited"}

SendSignal(s) ==
  /\ Listening
  /\ sent < MaxEvents
  /\ sent' = sent + 1
  /\ sigs' = sigs \cup {s}
  /\ UNCHANGED <<units, shuttingDown, disk, proc, conns, pc, evs, shutReq, start, stop, budget, boots>>

\* A client connects and sends its line, or no line at all ("SILENT"); gone
\* tells whether it hangs up before the first reply, so that writing to it
\* fails.
Connect(r) ==
  /\ Listening
  /\ sent < MaxEvents
  /\ sent' = sent + 1
  /\ conns' = Append(conns, r)
  /\ UNCHANGED <<units, shuttingDown, disk, kernel, pc, evs, shutReq, start, stop, budget, boots>>

\* One tick less; an instant that has passed is zero ticks away.
Sooner(n) == IF n > 0 THEN n - 1 ELSE 0

\* Ages stop counting once they are past the limit interval.
Tick ==
  /\ \/ budget > 0
     \/ \E i \in DOMAIN pending : pending[i].left > 0
     \/ \E u \in Service : \E i \in DOMAIN history[u] : history[u][i] <= Interval[u]
  /\ budget' = Sooner(budget)
  /\ pending' = [i \in DOMAIN pending |-> [pending[i] EXCEPT !.left = Sooner(@)]]
  /\ history' = [u \in Service |->
                  [i \in DOMAIN history[u] |->
                    IF history[u][i] <= Interval[u] THEN history[u][i] + 1 ELSE history[u][i]]]
  /\ UNCHANGED <<state, pid, byPid, shuttingDown, disk, kernel, conns, pc, evs, shutReq,
                 start, stop, bounds>>

\* The machine is switched off and on: only the disk survives.
PowerCycle ==
  /\ boots < MaxBoots
  /\ boots' = boots + 1
  /\ state' = [u \in Units |-> "Inactive"]
  /\ pid' = [u \in Units |-> NoPid]
  /\ history' = [u \in Service |-> <<>>]
  /\ byPid' = [p \in Pids |-> NoUnit]
  /\ pending' = <<>>
  /\ shuttingDown' = FALSE
  /\ virtual' = {}
  /\ proc' = [p \in Pids |-> "free"]
  /\ sigs' = {}
  /\ conns' = <<>>
  /\ pc' = "boot"
  /\ evs' = {}
  /\ shutReq' = FALSE
  /\ todo' = <<>>
  /\ skip' = FALSE
  /\ ret' = "poll"
  /\ expected' = {}
  /\ escalated' = FALSE
  /\ was' = FALSE
  /\ budget' = 0
  /\ UNCHANGED <<stubs, sent>>

------------------------------------------------------------------------------
(***************************************************************************)
(* start_unit_internal, over the units of a transaction in order.          *)
(***************************************************************************)

\* main::run up to activate_plan: enabled.d is injected when multi-user.target
\* is loaded, unknown names are skipped, and a failed plan is fatal.
Boot ==
  /\ pc = "boot"
  /\ virtual' = IF MultiUser \in Units THEN stubs \cap Units ELSE {}
  /\ LET plan == StartPlan(virtual', DefaultTarget)
     IN  /\ todo' = plan.units
         /\ pc' = IF plan.ok THEN "start" ELSE "exited"
  /\ skip' = FALSE
  /\ ret' = "poll"
  /\ UNCHANGED <<units, shuttingDown, stubs, kernel, conns, evs, shutReq, stop, budget, bounds>>

\* The unit files, enabled.d or the signalfd cannot be read or made: fatal.
BootFails ==
  /\ pc = "boot"
  /\ DiskMayFail
  /\ pc' = "exited"
  /\ UNCHANGED <<units, shuttingDown, disk, kernel, conns, evs, shutReq, start, stop, budget, bounds>>

Starting(u) == pc = "start" /\ todo # <<>> /\ u = Head(todo)

\* Mutant: edges lifted from [install] and BindsTo= are not followed.
FailedDirectDependency(u) == \E d \in Reg.requires[u] \cap Units : state[d] = "Failed"

FailedDependency(u) == \E d \in HardRequirementTargets(Reg, u) : state[d] = "Failed"

MayStart(u) ==
  /\ Starting(u)
  /\ ~(skip /\ state[u] = "Active")
  /\ ~FailedDependency(u)

SkipActive(u) ==
  /\ Starting(u)
  /\ skip
  /\ state[u] = "Active"
  /\ todo' = Tail(todo)
  /\ UNCHANGED <<units, shuttingDown, disk, kernel, conns, pc, evs, shutReq, skip, ret, stop,
                 budget, bounds>>

\* A Failed hard dependency fails the unit without starting it.
RefuseStart(u) ==
  /\ Starting(u)
  /\ ~(skip /\ state[u] = "Active")
  /\ FailedDependency(u)
  /\ state' = [state EXCEPT ![u] = "Failed"]
  /\ todo' = Tail(todo)
  /\ UNCHANGED <<pid, history, byPid, pending, shuttingDown, disk, kernel, conns, pc, evs,
                 shutReq, skip, ret, stop, budget, bounds>>

StartTarget(u) ==
  /\ MayStart(u)
  /\ u \notin Service
  /\ state' = [state EXCEPT ![u] = "Active"]
  /\ todo' = Tail(todo)
  /\ UNCHANGED <<pid, history, byPid, pending, shuttingDown, disk, kernel, conns, pc, evs,
                 shutReq, skip, ret, stop, budget, bounds>>

\* spawn returns an error: unknown user, unreadable cgroup, or no pid left.
SpawnFails(u) ==
  /\ MayStart(u)
  /\ u \in Service
  /\ u \in SpawnMayFail \/ \A p \in Pids : proc[p] # "free"
  /\ state' = [state EXCEPT ![u] = "Failed"]
  /\ todo' = Tail(todo)
  /\ UNCHANGED <<pid, history, byPid, pending, shuttingDown, disk, kernel, conns, pc, evs,
                 shutReq, skip, ret, stop, budget, bounds>>

\* spawn: fork or clone3 returns a pid no process of the system has.
Fork(p) ==
  /\ proc[p] = "free"
  /\ proc' = [proc EXCEPT ![p] = "running"]

\* The tables are written without looking at what they hold for the unit.
Spawn(u, p) ==
  /\ Fork(p)
  /\ pid' = [pid EXCEPT ![u] = p]
  /\ byPid' = [byPid EXCEPT ![p] = u]

StartService(u, p) ==
  /\ MayStart(u)
  /\ u \in Service \ Oneshot
  /\ Spawn(u, p)
  /\ state' = [state EXCEPT ![u] = "Active"]
  /\ todo' = Tail(todo)
  /\ UNCHANGED <<history, pending, shuttingDown, disk, sigs, conns, pc, evs, shutReq, skip, ret,
                 stop, budget, bounds>>

\* The unit stays at the head of todo while wait_oneshot polls for its exit.
StartOneshot(u, p) ==
  /\ MayStart(u)
  /\ u \in Oneshot
  /\ Spawn(u, p)
  /\ state' = [state EXCEPT ![u] = "Activating"]
  /\ budget' = TimeoutStart[u]
  /\ pc' = "oneshot"
  /\ UNCHANGED <<history, pending, shuttingDown, disk, sigs, conns, evs, shutReq, start, stop,
                 bounds>>

\* The oneshot is off the process table, in the given state.
OneshotOver(u, final) ==
  /\ proc' = [proc EXCEPT ![pid[u]] = "free"]
  /\ byPid' = [byPid EXCEPT ![pid[u]] = NoUnit]
  /\ pid' = [pid EXCEPT ![u] = NoPid]
  /\ state' = [state EXCEPT ![u] = final]
  /\ budget' = 0
  /\ todo' = Tail(todo)
  /\ pc' = "start"
  /\ UNCHANGED <<history, pending, shuttingDown, disk, conns, evs, shutReq, skip, ret, stop, bounds>>

OneshotExits(u) ==
  /\ pc = "oneshot"
  /\ u = Head(todo)
  /\ proc[pid[u]] \in Exited
  /\ OneshotOver(u, IF proc[pid[u]] # "clean" THEN "Failed"
                    ELSE IF u \in Remain THEN "Active" ELSE "Inactive")
  /\ UNCHANGED sigs

\* Mutant: the timeout leaves the state as it is.
OneshotTimesOutActivating(u) ==
  /\ pc = "oneshot"
  /\ u = Head(todo)
  /\ proc[pid[u]] \in Alive
  /\ budget = 0
  /\ OneshotOver(u, "Activating")
  /\ sigs' = sigs \cup {"CHLD"}

\* Deadline reached: SIGKILL, and a blocking waitpid.
OneshotTimesOut(u) ==
  /\ pc = "oneshot"
  /\ u = Head(todo)
  /\ proc[pid[u]] \in Alive
  /\ budget = 0
  /\ OneshotOver(u, "Failed")
  /\ sigs' = sigs \cup {"CHLD"}

StartDone ==
  /\ pc = "start"
  /\ todo = <<>>
  /\ pc' = ret
  /\ conns' = IF ret = "control" THEN Tail(conns) ELSE conns
  /\ UNCHANGED <<units, shuttingDown, disk, kernel, evs, shutReq, start, stop, budget, bounds>>

------------------------------------------------------------------------------
(***************************************************************************)
(* Exits and restarts.                                                     *)
(***************************************************************************)

WantsRestart(u, status) ==
  \/ Policy[u] = "always"
  \/ Policy[u] = "on-failure" /\ status # "clean"
  \/ Policy[u] = "on-abnormal" /\ status = "signaled"

\* The attempts still inside the limit interval, oldest first.
Recent(u) == {i \in DOMAIN history[u] : history[u][i] <= Interval[u]}

\* Mutant: the limit is off by one.
ScheduleRestartOffByOne(u, left) ==
  \E f \in Ascending(Recent(u)) :
    LET recent == [i \in DOMAIN f |-> history[u][f[i]]]
    IN  IF Burst[u] > 0 /\ Len(recent) > Burst[u]
        THEN /\ state' = [state EXCEPT ![u] = "Failed"]
             /\ history' = [history EXCEPT ![u] = recent]
             /\ UNCHANGED pending
        ELSE /\ state' = [state EXCEPT ![u] = left]
             /\ history' = [history EXCEPT ![u] = Append(recent, 0)]
             /\ pending' = Append(pending, [unit |-> u, left |-> RestartSec[u]])

\* Mutant: a unit about to be restarted keeps its state.
ScheduleRestartKeepingState(u, left) ==
  /\ history' = [history EXCEPT ![u] = Append(@, 0)]
  /\ pending' = Append(pending, [unit |-> u, left |-> RestartSec[u]])
  /\ UNCHANGED state

\* maybe_schedule_restart for a unit that has just left in the given state.
ScheduleRestart(u, left) ==
  \E f \in Ascending(Recent(u)) :
    LET recent == [i \in DOMAIN f |-> history[u][f[i]]]
    IN  IF Burst[u] > 0 /\ Len(recent) >= Burst[u]
        THEN /\ state' = [state EXCEPT ![u] = "Failed"]
             /\ history' = [history EXCEPT ![u] = recent]
             /\ UNCHANGED pending
        ELSE /\ state' = [state EXCEPT ![u] = left]
             /\ history' = [history EXCEPT ![u] = Append(recent, 0)]
             /\ pending' = Append(pending, [unit |-> u, left |-> RestartSec[u]])

\* Mutant: by_pid keeps the pid.
OnChildExitFiled(p) ==
  /\ proc[p] \in Exited
  /\ proc' = [proc EXCEPT ![p] = "free"]
  /\ pid' = [u \in Units |-> IF u = byPid[p] THEN NoPid ELSE pid[u]]
  /\ state' = [u \in Units |-> IF u = byPid[p] THEN "Inactive" ELSE state[u]]
  /\ UNCHANGED <<byPid, history, pending>>

\* Mutant: by_pid drops every pid of the unit.
OnChildExitAllOfUnit(p) ==
  /\ proc[p] \in Exited
  /\ proc' = [proc EXCEPT ![p] = "free"]
  /\ byPid' = [q \in Pids |-> IF byPid[q] = byPid[p] THEN NoUnit ELSE byPid[q]]
  /\ pid' = [u \in Units |-> IF u = byPid[p] THEN NoPid ELSE pid[u]]
  /\ state' = [u \in Units |-> IF u = byPid[p] THEN "Inactive" ELSE state[u]]
  /\ IF byPid[p] # NoUnit /\ ~shuttingDown
     THEN pending' = Append(pending, [unit |-> byPid[p], left |-> RestartSec[byPid[p]]])
     ELSE UNCHANGED pending
  /\ UNCHANGED history

\* Mutant: a planned exit is a reason to restart as well.
OnChildExitUnplanned(p) ==
  /\ proc[p] \in Exited
  /\ byPid[p] # NoUnit
  /\ proc' = [proc EXCEPT ![p] = "free"]
  /\ byPid' = [byPid EXCEPT ![p] = NoUnit]
  /\ pid' = [pid EXCEPT ![byPid[p]] = NoPid]
  /\ IF WantsRestart(byPid[p], proc[p]) THEN ScheduleRestart(byPid[p], "Failed")
     ELSE state' = [state EXCEPT ![byPid[p]] = "Inactive"] /\ UNCHANGED <<history, pending>>

\* waitpid returned p, and on_child_exit ran; a pid that is not tracked is
\* only reaped.
OnChildExit(p) ==
  /\ proc[p] \in Exited
  /\ proc' = [proc EXCEPT ![p] = "free"]
  /\ byPid' = [byPid EXCEPT ![p] = NoUnit]
  /\ LET u    == byPid[p]
         left == IF shuttingDown \/ proc[p] = "clean" THEN "Inactive" ELSE "Failed"
     IN  IF u = NoUnit THEN UNCHANGED <<state, pid, history, pending>>
         ELSE /\ pid' = [pid EXCEPT ![u] = NoPid]
              /\ IF ~shuttingDown /\ WantsRestart(u, proc[p])
                 THEN ScheduleRestart(u, left)
                 ELSE /\ state' = [state EXCEPT ![u] = left]
                      /\ UNCHANGED <<history, pending>>

Due == {i \in DOMAIN pending : pending[i].left = 0}

\* Mutant: a fired restart stays in the list.
FireAgainAndAgain ==
  /\ pc = "fire"
  /\ \E due \in Ascending(Due) : todo' = [i \in DOMAIN due |-> pending[due[i]].unit]
  /\ skip' = FALSE
  /\ ret' = "exit"
  /\ pc' = "start"
  /\ UNCHANGED <<units, shuttingDown, disk, kernel, conns, evs, shutReq, stop, budget, bounds>>

\* fire_due_restarts: the due restarts leave the list and are started in the
\* order they were scheduled.
FireDueRestarts ==
  /\ pc = "fire"
  /\ \E due \in Ascending(Due), rest \in Ascending(DOMAIN pending \ Due) :
       /\ todo' = [i \in DOMAIN due |-> pending[due[i]].unit]
       /\ pending' = [i \in DOMAIN rest |-> pending[rest[i]]]
  /\ skip' = FALSE
  /\ ret' = "exit"
  /\ pc' = "start"
  /\ UNCHANGED <<state, pid, history, byPid, shuttingDown, disk, kernel, conns, evs, shutReq,
                 stop, budget, bounds>>

\* SIGTERM to the processes in P; one that ignores it goes on running.
Terminated(P) ==
  [p \in Pids |-> IF p \in P /\ proc[p] = "running" /\ byPid[p] \notin IgnoresTerm
                  THEN "termed" ELSE proc[p]]

\* Mutant: pending restarts survive.
InitiateShutdownOnly ==
  /\ shuttingDown' = TRUE
  /\ proc' = Terminated({pid[u] : u \in Units})
  /\ UNCHANGED pending

\* Mutant: no process is told.
InitiateShutdownSilently ==
  /\ shuttingDown' = TRUE
  /\ pending' = <<>>
  /\ UNCHANGED proc

InitiateShutdown ==
  IF shuttingDown THEN UNCHANGED <<shuttingDown, pending, proc>>
  ELSE /\ shuttingDown' = TRUE
       /\ pending' = <<>>
       /\ proc' = Terminated({pid[u] : u \in Units})

AllUnitsQuiet == \A u \in Units : pid[u] = NoPid

------------------------------------------------------------------------------
(***************************************************************************)
(* The event loop.                                                         *)
(***************************************************************************)

\* Mutant: the timeout is always infinite.
PollWithoutTimer ==
  /\ pc = "poll"
  /\ sigs # {} \/ conns # <<>>
  /\ evs' = (IF sigs # {} THEN {"signals"} ELSE {})
              \cup (IF conns # <<>> THEN {"control"} ELSE {})
  /\ pc' = "events"
  /\ UNCHANGED <<units, shuttingDown, disk, kernel, conns, shutReq, start, stop, budget, bounds>>

\* epoll_wait returns: something is readable, a restart is due, or the
\* 100 ms timeout of a shutdown has passed.
Poll ==
  /\ pc = "poll"
  /\ sigs # {} \/ conns # <<>> \/ Due # {} \/ (shuttingDown /\ pending = <<>>)
  /\ evs' = (IF sigs # {} THEN {"signals"} ELSE {})
              \cup (IF conns # <<>> THEN {"control"} ELSE {})
  /\ pc' = "events"
  /\ UNCHANGED <<units, shuttingDown, disk, kernel, conns, shutReq, start, stop, budget, bounds>>

\* The ready descriptors come in either order.
NextEvent(e) ==
  /\ pc = "events"
  /\ e \in evs
  /\ evs' = evs \ {e}
  /\ pc' = e
  /\ shutReq' = FALSE
  /\ UNCHANGED <<units, shuttingDown, disk, kernel, conns, start, stop, budget, bounds>>

EventsDone ==
  /\ pc = "events"
  /\ evs = {}
  /\ pc' = "fire"
  /\ UNCHANGED <<units, shuttingDown, disk, kernel, conns, evs, shutReq, start, stop, budget, bounds>>

\* drain_signalfd reads one signal; SIGHUP only logs.
ReadSignal(s) ==
  /\ pc = "signals"
  /\ s \in sigs
  /\ sigs' = sigs \ {s}
  /\ pc' = IF s = "CHLD" THEN "reap" ELSE pc
  /\ IF s = "TERM" THEN InitiateShutdown ELSE UNCHANGED <<shuttingDown, pending, proc>>
  /\ UNCHANGED <<state, pid, history, byPid, disk, conns, evs, shutReq, start, stop, budget, bounds>>

SignalsDrained ==
  /\ pc = "signals"
  /\ sigs = {}
  /\ pc' = "events"
  /\ UNCHANGED <<units, shuttingDown, disk, kernel, conns, evs, shutReq, start, stop, budget, bounds>>

\* Mutant: one child per SIGCHLD.
ReapOne(p) ==
  /\ pc = "reap"
  /\ OnChildExit(p)
  /\ pc' = "signals"
  /\ UNCHANGED <<shuttingDown, disk, sigs, conns, evs, shutReq, start, stop, budget, bounds>>

\* reap: waitpid(-1) until it finds nothing.
Reap(p) ==
  /\ pc = "reap"
  /\ OnChildExit(p)
  /\ UNCHANGED <<shuttingDown, disk, sigs, conns, pc, evs, shutReq, start, stop, budget, bounds>>

NothingToReap == \A p \in Pids : proc[p] \notin Exited

ReapDone ==
  /\ pc = "reap"
  /\ NothingToReap
  /\ pc' = "signals"
  /\ UNCHANGED <<units, shuttingDown, disk, kernel, conns, evs, shutReq, start, stop, budget, bounds>>

\* Mutant: running units are not waited for.
ExitAtOnce ==
  /\ pc = "exit"
  /\ pc' = IF shuttingDown THEN "exited" ELSE "poll"
  /\ UNCHANGED <<units, shuttingDown, disk, kernel, conns, evs, shutReq, start, stop, budget, bounds>>

ExitCheck ==
  /\ pc = "exit"
  /\ pc' = IF shuttingDown /\ AllUnitsQuiet THEN "exited" ELSE "poll"
  /\ UNCHANGED <<units, shuttingDown, disk, kernel, conns, evs, shutReq, start, stop, budget, bounds>>

------------------------------------------------------------------------------
(***************************************************************************)
(* The control socket.  The request being served stays at the head of      *)
(* conns until its reply.  The commands that only print change nothing.    *)
(***************************************************************************)
Serving(cmd) == pc = "control" /\ conns # <<>> /\ Head(conns).cmd = cmd

Requested == Head(conns).unit

Reply == conns' = Tail(conns) /\ pc' = "control"

\* read_line has no timeout: only the client ends the wait for a line.
SilentClientLeaves ==
  /\ Serving("SILENT")
  /\ Reply
  /\ UNCHANGED <<units, shuttingDown, disk, kernel, evs, shutReq, start, stop, budget, bounds>>

\* start_named, with these units enabled.
StartNamed(enabled, name) ==
  LET plan == StartPlan(enabled, name)
  IN  IF plan.ok
      THEN /\ todo' = plan.units
           /\ skip' = TRUE
           /\ ret' = "control"
           /\ pc' = "start"
           /\ UNCHANGED conns
      ELSE Reply /\ UNCHANGED start

HandleStart ==
  /\ Serving("START")
  /\ IF Head(conns).gone THEN Reply /\ UNCHANGED start
     ELSE StartNamed(virtual, Requested)
  /\ UNCHANGED <<units, shuttingDown, disk, kernel, evs, shutReq, stop, budget, bounds>>

\* The grace is the longest timeout-stop-sec of the plan; the wait is longer
\* than the grace before SIGKILL.
Graces(plan) ==
  LET services == Elements(plan) \cap Service
  IN  IF services = {} THEN {DefaultGrace} ELSE {TimeoutStop[u] : u \in services}

GraceBegins(plan) ==
  \E grace \in Graces(plan) :
    /\ \A g \in Graces(plan) : g <= grace
    /\ budget' = grace + 1

\* Mutant: a unit without a process is signalled and waited for like the rest.
VictimsUnchecked(planned) == {pid[u] : u \in planned}

\* What stop_unit signals and waits for.
Victims(planned) == {pid[u] : u \in planned} \ {NoPid}

\* Mutant: pending restarts of the plan are kept.
BeginStopKeepingRestarts(plan) ==
  LET planned == Elements(plan)
      victims == Victims(planned)
  IN  /\ was' = shuttingDown
      /\ shuttingDown' = TRUE
      /\ state' = [u \in Units |-> IF u \notin planned THEN state[u]
                                   ELSE IF pid[u] = NoPid THEN "Inactive" ELSE "Deactivating"]
      /\ proc' = Terminated(victims)
      /\ expected' = victims
      /\ escalated' = FALSE
      /\ GraceBegins(plan)
      /\ pc' = IF victims = {} THEN "stopped" ELSE "drain"
      /\ UNCHANGED <<pid, history, byPid, pending, conns>>

\* stop_unit up to its wait: restarts are suppressed and the pending ones of
\* the plan dropped, every process of the plan gets SIGTERM.
BeginStop(plan) ==
  LET planned == Elements(plan)
      kept    == {i \in DOMAIN pending : pending[i].unit \notin planned}
      victims == Victims(planned)
  IN  /\ was' = shuttingDown
      /\ shuttingDown' = TRUE
      /\ \E f \in Ascending(kept) : pending' = [i \in DOMAIN f |-> pending[f[i]]]
      /\ state' = [u \in Units |-> IF u \notin planned THEN state[u]
                                   ELSE IF pid[u] = NoPid THEN "Inactive" ELSE "Deactivating"]
      /\ proc' = Terminated(victims)
      /\ expected' = victims
      /\ escalated' = FALSE
      /\ GraceBegins(plan)
      /\ pc' = IF victims = {} THEN "stopped" ELSE "drain"
      /\ UNCHANGED <<pid, history, byPid, conns>>

\* enabled::disable; its failure is only reported.
RemoveStub ==
  \/ stubs' = stubs \ {Requested}
  \/ DiskMayFail /\ UNCHANGED stubs

StopFails ==
  UNCHANGED <<units, shuttingDown, proc, stop, budget>>

\* STOP, RESTART and DISABLE all begin with stop_unit.  Only RESTART does
\* when its client is gone, and only DISABLE goes on after a failed plan.
HandleStop ==
  /\ \E cmd \in {"STOP", "RESTART", "DISABLE"} : Serving(cmd)
  /\ LET plan == StopPlan(virtual, Requested)
         cmd  == Head(conns).cmd
     IN  IF Head(conns).gone /\ cmd # "RESTART" THEN Reply /\ StopFails /\ UNCHANGED stubs
         ELSE IF plan.ok THEN BeginStop(plan.units) /\ UNCHANGED stubs
         ELSE /\ Reply
              /\ StopFails
              /\ IF cmd = "DISABLE" THEN RemoveStub ELSE UNCHANGED stubs
  /\ UNCHANGED <<virtual, sigs, evs, shutReq, start, bounds>>

\* The wait of stop_unit reaps whatever has exited, in the plan or not.
DrainReap(p) ==
  /\ pc = "drain"
  /\ OnChildExit(p)
  /\ expected' = expected \ {p}
  /\ UNCHANGED <<shuttingDown, disk, sigs, conns, pc, evs, shutReq, start, escalated, was, budget, bounds>>

\* Mutant: the second signal can be ignored as well.
EscalateWithTerm ==
  /\ pc = "drain"
  /\ expected # {}
  /\ budget = 0
  /\ ~escalated
  /\ escalated' = TRUE
  /\ proc' = Terminated(expected)
  /\ UNCHANGED <<units, shuttingDown, disk, sigs, conns, pc, evs, shutReq, start, expected, was, budget, bounds>>

\* The grace is over: SIGKILL, once, to what is left.
Escalate ==
  /\ pc = "drain"
  /\ expected # {}
  /\ budget = 0
  /\ ~escalated
  /\ escalated' = TRUE
  /\ proc' = [p \in Pids |-> IF p \in expected /\ proc[p] \in Alive THEN "killed" ELSE proc[p]]
  /\ UNCHANGED <<units, shuttingDown, disk, sigs, conns, pc, evs, shutReq, start, expected, was, budget, bounds>>

\* Mutant: the wait gives up at its deadline.
DrainGivesUp ==
  /\ pc = "drain"
  /\ expected = {} \/ budget = 0
  /\ pc' = "stopped"
  /\ UNCHANGED <<units, shuttingDown, disk, kernel, conns, evs, shutReq, start, stop, budget, bounds>>

DrainDone ==
  /\ pc = "drain"
  /\ expected = {}
  /\ NothingToReap
  /\ pc' = "stopped"
  /\ UNCHANGED <<units, shuttingDown, disk, kernel, conns, evs, shutReq, start, stop, budget, bounds>>

\* Mutant: the flag is cleared instead of restored.
StoppedReopens ==
  /\ pc = "stopped"
  /\ shuttingDown' = FALSE
  /\ budget' = 0
  /\ Reply
  /\ UNCHANGED <<units, disk, kernel, evs, shutReq, start, stop, bounds>>

\* stop_unit returns: the flag is restored, RESTART starts the unit again and
\* DISABLE removes the stub.
Stopped ==
  /\ pc = "stopped"
  /\ shuttingDown' = was
  /\ budget' = 0
  /\ IF Head(conns).cmd = "RESTART" THEN StartNamed(virtual, Requested)
     ELSE Reply /\ UNCHANGED start
  /\ IF Head(conns).cmd = "DISABLE" THEN RemoveStub ELSE UNCHANGED stubs
  /\ UNCHANGED <<units, virtual, kernel, evs, shutReq, stop, bounds>>

EnableRefused ==
  /\ Serving("ENABLE")
  /\ Requested \notin Units \/ DiskMayFail
  /\ Reply
  /\ UNCHANGED <<units, shuttingDown, disk, kernel, evs, shutReq, start, stop, budget, bounds>>

\* Mutant: a failed write is not noticed.
EnableUnchecked ==
  /\ Serving("ENABLE")
  /\ Requested \in Units
  /\ stubs' = stubs \cup {Requested} \/ (DiskMayFail /\ UNCHANGED stubs)
  /\ pc' = "enable"
  /\ UNCHANGED <<units, shuttingDown, virtual, kernel, conns, evs, shutReq, start, stop, budget, bounds>>

\* ENABLE first writes the stub, then tells the client.
EnablePersist ==
  /\ Serving("ENABLE")
  /\ Requested \in Units
  /\ stubs' = stubs \cup {Requested}
  /\ IF Head(conns).gone THEN Reply ELSE pc' = "enable" /\ UNCHANGED conns
  /\ UNCHANGED <<units, shuttingDown, virtual, kernel, evs, shutReq, start, stop, budget, bounds>>

\* then injects the edge, which needs multi-user.target, and starts the unit,
\* unless the client has left by now.
EnableStart ==
  /\ pc = "enable"
  /\ IF MultiUser \in Units
     THEN /\ virtual' = virtual \cup {Requested}
          /\ StartNamed(virtual', Requested) \/ (Reply /\ UNCHANGED start)
     ELSE Reply /\ UNCHANGED <<virtual, start>>
  /\ UNCHANGED <<units, shuttingDown, stubs, kernel, evs, shutReq, stop, budget, bounds>>

HandleShutdown ==
  /\ Serving("SHUTDOWN")
  /\ shutReq' = TRUE
  /\ Reply
  /\ UNCHANGED <<units, shuttingDown, disk, kernel, evs, start, stop, budget, bounds>>

\* No connection left: a SHUTDOWN among those served takes effect now.
ControlDone ==
  /\ pc = "control"
  /\ conns = <<>>
  /\ pc' = "events"
  /\ IF shutReq THEN InitiateShutdown ELSE UNCHANGED <<shuttingDown, pending, proc>>
  /\ UNCHANGED <<state, pid, history, byPid, disk, sigs, conns, evs, shutReq, start, stop, budget, bounds>>

------------------------------------------------------------------------------
Environment ==
  \/ \E p \in Pids, how \in Exited : Exits(p, how)
  \/ \E p \in Pids : Dies(p)
  \/ \E s \in ExternalSignals : SendSignal(s)
  \/ \E r \in Requests : Connect(r)
  \/ SilentClientLeaves
  \/ Tick
  \/ PowerCycle

StartUnit ==
  \/ \E u \in Units : SkipActive(u)
  \/ \E u \in Units : RefuseStart(u)
  \/ \E u \in Units : StartTarget(u)
  \/ \E u \in Units : SpawnFails(u)
  \/ \E u \in Units, p \in Pids : StartService(u, p)
  \/ \E u \in Units, p \in Pids : StartOneshot(u, p)
  \/ \E u \in Units : OneshotExits(u)
  \/ \E u \in Units : OneshotTimesOut(u)
  \/ StartDone

EventLoop ==
  \/ Poll
  \/ \E e \in {"signals", "control"} : NextEvent(e)
  \/ EventsDone
  \/ \E s \in {"CHLD", "TERM", "HUP"} : ReadSignal(s)
  \/ SignalsDrained
  \/ \E p \in Pids : Reap(p)
  \/ ReapDone
  \/ FireDueRestarts
  \/ ExitCheck

Control ==
  \/ HandleStart
  \/ HandleStop
  \/ \E p \in Pids : DrainReap(p)
  \/ Escalate
  \/ DrainDone
  \/ Stopped
  \/ EnableRefused
  \/ EnablePersist
  \/ EnableStart
  \/ HandleShutdown
  \/ ControlDone

System == Boot \/ BootFails \/ StartUnit \/ EventLoop \/ Control

Next == Environment \/ System

Spec == Init /\ [][Next]_vars

\* The supervisor keeps running (pc tells which of its parts is), time passes,
\* SIGKILL works, and a program that does not ignore SIGTERM exits after it.  Nothing is assumed of the
\* clients, of the senders of signals, or of a service left alone.
ExitsAfterTerm(p) == proc[p] = "termed" /\ \E how \in Exited : Exits(p, how)

Fairness ==
  /\ WF_vars(Boot) /\ WF_vars(StartUnit) /\ WF_vars(EventLoop) /\ WF_vars(Control)
  /\ WF_vars(Tick)
  /\ \A p \in Pids : WF_vars(Dies(p)) /\ WF_vars(ExitsAfterTerm(p))

FairSpec == Spec /\ Fairness

------------------------------------------------------------------------------
(***************************************************************************)
(* What the supervisor must guarantee.                                     *)
(***************************************************************************)

\* The tables name only children that have not been reaped, so that no
\* SIGTERM or SIGKILL and no waitpid ever meets a recycled pid: by_pid holds
\* exactly the unreaped children, a unit's pid is filed under that unit, and
\* what stop_unit still waits for is unreaped.
PidTablesNameOwnChildren ==
  /\ \A p \in Pids : byPid[p] # NoUnit <=> proc[p] # "free"
  /\ \A u \in Units : pid[u] # NoPid => byPid[pid[u]] = u
  /\ \A p \in expected : proc[p] # "free"

\* No unit is left in a transient state: Activating ends with the wait for
\* the oneshot, Deactivating with the stop that caused it, even when other
\* children are reaped meanwhile.
TransientStatesEnd ==
  \A u \in Units :
    /\ state[u] = "Activating" => pc = "oneshot" /\ u = Head(todo) /\ pid[u] # NoPid
    /\ state[u] = "Deactivating" => pc = "drain" /\ pid[u] \in expected

Planned == Elements(StopPlan(virtual, Requested).units)

\* When stop_unit returns, every unit of its plan is Inactive, all its children
\* are reaped ("All stopped units are reaped now", state.rs 406), and no
\* restart scheduled earlier will bring it back.
StopIsComplete ==
  pc = "stopped" =>
    /\ \A u \in Planned : state[u] = "Inactive"
    /\ \A p \in Pids : byPid[p] \notin Planned
    /\ \A i \in DOMAIN pending : pending[i].unit \notin Planned

\* The supervisor is going down; stop_unit borrows the flag while it waits.
GoingDown == IF pc \in {"drain", "stopped"} THEN was ELSE shuttingDown

\* Once a shutdown has begun no restart is pending, so the timer starts
\* nothing any more, whatever exits and whatever is stopped meanwhile.
NoRestartDuringShutdown == GoingDown => pending = <<>>

\* A shutdown is never taken back: a STOP or RESTART served in the middle of
\* it, which sets and resets the same flag, leaves it under way.  Only a power
\* cycle ends it.
ShutdownIsFinal == [][GoingDown /\ boots' = boots => GoingDown']_vars

\* However its exits are spread, a service with a limit has at most
\* start-limit-burst restarts scheduled within the start-limit-interval-sec
\* that ends now, the newest included (maybe_schedule_restart).  What counts as
\* within is the code's own comparison (Recent): the property bounds the number
\* of attempts and does not judge the edge of the window.
RestartRateLimited ==
  \A u \in Service : Burst[u] > 0 => Cardinality(Recent(u)) <= Burst[u]

RestartScheduled(u) == \E i \in DOMAIN pending : pending[i].unit = u

\* What the supervisor's tables say of one unit.
Life(u) == INSTANCE UnitLife WITH
  Kind     <- IF u \notin Service THEN "target" ELSE IF u \in Oneshot THEN "oneshot" ELSE "service",
  Remains  <- u \in Remain,
  Restarts <- IF u \in Service THEN Policy[u] ELSE "no",
  Limited  <- u \in Service /\ Burst[u] > 0,
  life     <- state[u],
  waiting  <- RestartScheduled(u),
  stopping <- pc \in {"drain", "stopped"},
  closing  <- GoingDown

\* Through all the interleavings of exits, requests, signals and timers, each
\* unit leads the life UnitLife allows it: no restart is scheduled for a unit
\* that is being stopped or while the supervisor goes down, a stop ends with
\* the unit at rest, and a stop in the middle of a shutdown leaves it going.
UnitsLive ==
  /\ \A u \in Units : Life(u)!Init
  /\ [][\A u \in Units : [Life(u)!Next]_(Life(u)!vars)]_vars

\* An Active service has a process the supervisor has not reaped.
ActiveServiceHasProcess ==
  \A u \in Service \ Oneshot : state[u] = "Active" => pid[u] # NoPid

\* A unit never has two processes.
OneProcessPerUnit ==
  \A p, q \in Pids : byPid[p] = byPid[q] /\ byPid[p] # NoUnit => p = q

\* signal.rs 36-37: the event loop "Returns when shutdown is requested and all
\* child processes have been reaped."
QuietAtExit == pc = "exited" => \A p \in Pids : proc[p] = "free"

BootPlan == StartPlan(virtual, DefaultTarget).units

\* After activation, a unit whose hard dependency failed before its turn is
\* Failed as well: one root failure takes down all that is ordered after it.
BootFailurePropagates ==
  pc = "start" /\ ret = "poll" /\ todo = <<>> =>
    \A i, j \in DOMAIN BootPlan :
      /\ i < j
      /\ BootPlan[i] \in HardRequirementTargets(Reg, BootPlan[j])
      /\ state[BootPlan[i]] = "Failed"
      => state[BootPlan[j]] = "Failed"

\* ENABLE persists first (control.rs 188): whatever hang-up, disk error or power
\* loss comes between its steps, a unit comes to be wanted by multi-user.target
\* only when it is already in enabled.d, where the next boot finds it.
EnablePersistsFirst == [][virtual' \subseteq virtual \cup stubs]_vars

\* Units no request can make stop_unit stop.
NeverStopped ==
  {u \in Service \ Oneshot :
     \A r \in Requests : r.cmd \in {"STOP", "RESTART", "DISABLE"} =>
       u \notin Elements(StopPlan(virtual, r.unit).units)}

\* state.rs 232-234: an exit "Schedules a restart according to the unit's
\* `RestartPolicy`, unless we're in planned shutdown."  So a booted service of
\* restart = "always" without a limit, which nobody stops, runs or is about to.
CrashIsRestarted ==
  pc = "poll" /\ ~shuttingDown =>
    \A u \in NeverStopped \cap Elements(BootPlan) :
      Policy[u] = "always" /\ Burst[u] = 0 =>
        state[u] = "Active" \/ \E i \in DOMAIN pending : pending[i].unit = u

------------------------------------------------------------------------------
\* Every child that has exited is reaped: a SIGCHLD that stands for several
\* exits, or one swallowed by another wait, loses none.
EveryExitIsReaped ==
  \A p \in Pids :
    proc[p] \in Exited ~> (proc[p] = "free" \/ pc = "exited")

\* stop_unit returns, even if a service ignores SIGTERM.
StopReturns == pc = "drain" ~> pc # "drain"

\* A scheduled restart is not forgotten: it is started, or dropped by a STOP
\* or a shutdown.
PendingRestartIsConsumed ==
  \A u \in Service :
    (\E i \in DOMAIN pending : pending[i].unit = u /\ pending[i].left = 0)
      ~> (\A i \in DOMAIN pending : pending[i].unit = u => pending[i].left > 0)

StartsUnits(r) == r.cmd \in {"START", "RESTART", "ENABLE"}

\* The supervisor exits once it is going down, unless a service that ignores
\* SIGTERM is running or somebody asks for a unit to be started meanwhile.
ShutdownCompletes ==
  (/\ shuttingDown
   /\ pc = "poll"
   /\ \A p \in Pids : byPid[p] \notin IgnoresTerm
   /\ \A i \in DOMAIN conns : ~StartsUnits(conns[i]))
    ~> (pc = "exited" \/ \E i \in DOMAIN conns : StartsUnits(conns[i]))

==============================================================================
