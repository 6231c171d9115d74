---------------------------- MODULE ProcessProofs -----------------------------
(***************************************************************************)
(* For every registry, plan and history in which no request starts a unit  *)
(* whose restart is pending: a unit has one process, a stop is complete,   *)
(* and the supervisor leaves no process behind.  And for every history:    *)
(* a failure at boot takes down what depends on it, and each unit leads    *)
(* the life UnitLife describes.                                            *)
(***************************************************************************)
EXTENDS SupervisorProofs

\* No START, RESTART or ENABLE starts a unit whose restart is pending.  The
\* code does not see to this: it starts the unit, and then again.
NoStartMeetsRestart ==
  pc = "start" /\ ret = "control" =>
    \A i \in DOMAIN pending : pending[i].unit \notin Elements(todo)

\* UnitMeta.pid is the one process by_pid has for the unit, and a unit that
\* has one is not settled.
SoleInv ==
  /\ \A p \in Pids : byPid[p] # NoUnit => pid[byPid[p]] = p
  /\ \A u \in Units : pid[u] # NoPid => state[u] \in {"Active", "Activating", "Deactivating"}

\* A restart is pending once, and only for a unit without a process.
PendingInv ==
  /\ \A i \in DOMAIN pending : pid[pending[i].unit] = NoPid
  /\ \A i, j \in DOMAIN pending : pending[i].unit = pending[j].unit => i = j

\* Boot and the timer start units that have neither a process nor a pending
\* restart, each once; requests pass over the Active ones.
TodoInv ==
  pc \in {"start", "oneshot"} =>
    IF ret = "control" THEN skip
    ELSE /\ \A i, j \in DOMAIN todo : todo[i] = todo[j] => i = j
         /\ \A i \in DOMAIN todo : pc = "start" \/ i # 1 => pid[todo[i]] = NoPid
         /\ \A i \in DOMAIN pending : pending[i].unit \notin Elements(todo)

\* Before activation and after the last exit there is no process.
QuietInv ==
  /\ pc \in {"boot", "exited"} => \A u \in Units : pid[u] = NoPid
  /\ pc = "boot" => pending = <<>>

\* While stop_unit runs, its plan only loses processes and restarts.
PlannedInv ==
  pc \in {"drain", "stopped"} =>
    /\ \A u \in Planned : state[u] \in {"Inactive", "Deactivating"}
    /\ \A i \in DOMAIN pending : pending[i].unit \notin Planned

\* The inductive invariant of these histories.
ProcessInv == SoleInv /\ PendingInv /\ TodoInv /\ QuietInv /\ PlannedInv

\* The part of the plan that activate_plan has been through.
Activated == Len(BootPlan) - Len(todo)

\* The failures have reached all that was activated, and the oneshot waited
\* for depends on none of them.
BootInv ==
  pc \in {"start", "oneshot"} /\ ret = "poll" =>
    /\ ~skip
    /\ Len(todo) <= Len(BootPlan)
    /\ \A i \in DOMAIN todo : todo[i] = BootPlan[Activated + i]
    /\ \A i, j \in 1 .. Activated :
         /\ i < j
         /\ BootPlan[i] \in HardRequirementTargets(Reg, BootPlan[j])
         /\ state[BootPlan[i]] = "Failed"
         => state[BootPlan[j]] = "Failed"
    /\ pc = "oneshot" => \A i \in 1 .. Activated :
         BootPlan[i] \in HardRequirementTargets(Reg, Head(todo)) => state[BootPlan[i]] # "Failed"

------------------------------------------------------------------------------
\* What kinds of step keep

\* The list without its head.
LEMMA TailEntries ==
  ASSUME NEW S, NEW s \in Seq(S), s # <<>>
  PROVE  /\ Head(s) = s[1] /\ 1 \in DOMAIN s /\ Head(s) \in S
         /\ Tail(s) \in Seq(S) /\ Len(Tail(s)) = Len(s) - 1
         /\ \A i \in DOMAIN Tail(s) : i + 1 \in DOMAIN s /\ i + 1 # 1 /\ Tail(s)[i] = s[i + 1]
         /\ Elements(Tail(s)) \subseteq Elements(s)
<1>1. /\ Head(s) = s[1] /\ 1 \in DOMAIN s /\ Head(s) \in S
      /\ Tail(s) \in Seq(S) /\ Len(Tail(s)) = Len(s) - 1
  OBVIOUS
<1>2. \A i \in DOMAIN Tail(s) : i + 1 \in DOMAIN s /\ i + 1 # 1 /\ Tail(s)[i] = s[i + 1]
  OBVIOUS
<1>3. Elements(Tail(s)) \subseteq Elements(s)
  BY <1>2 DEF Elements
<1>4. QED BY <1>1, <1>2, <1>3

\* A restart is of a service.
LEMMA PendingUnits ==
  ASSUME TypeOK
  PROVE  \A i \in DOMAIN pending : pending[i].unit \in Service /\ pending[i].unit \in Units
<1>1. SUFFICES ASSUME NEW i \in DOMAIN pending
               PROVE  pending[i].unit \in Service
  BY SupervisorAssumption
<1>2. pending[i] \in Restart
  BY DEF TypeOK
<1>3. QED BY <1>2 DEF Restart

\* Others move, or time passes.
LEMMA Still ==
  ASSUME ProcessInv, UNCHANGED <<state, pid, byPid, pc, todo, skip, ret, virtual>>,
         DOMAIN pending' = DOMAIN pending, pending = <<>> => pending' = <<>>,
         \A i \in DOMAIN pending : pending'[i].unit = pending[i].unit,
         pc \in {"drain", "stopped"} => Requested' = Requested
  PROVE  ProcessInv'
<1>1. SoleInv'
  BY DEF ProcessInv, SoleInv
<1>2. PendingInv'
  BY DEF ProcessInv, PendingInv
<1>3. TodoInv'
  BY DEF ProcessInv, TodoInv, Elements
<1>4. QuietInv'
  BY DEF ProcessInv, QuietInv
<1>5. PlannedInv'
  BY DEF ProcessInv, PlannedInv, Planned
<1>6. QED BY <1>1, <1>2, <1>3, <1>4, <1>5 DEF ProcessInv

\* The supervisor moves on to a place that promises nothing.
LEMMA Move ==
  ASSUME ProcessInv, UNCHANGED <<state, pid, byPid>>, pending' = pending \/ pending' = <<>>,
         pc' \notin {"start", "oneshot", "drain", "stopped", "boot"},
         pc' = "exited" => \A u \in Units : pid[u] = NoPid
  PROVE  ProcessInv'
<1>1. SoleInv'
  BY DEF ProcessInv, SoleInv
<1>2. PendingInv'
  <2>1. CASE pending' = <<>>
    BY <2>1 DEF PendingInv
  <2>2. CASE pending' = pending
    BY <2>2 DEF ProcessInv, PendingInv
  <2>3. QED BY <2>1, <2>2
<1>3. TodoInv' /\ QuietInv' /\ PlannedInv'
  BY DEF TodoInv, QuietInv, PlannedInv
<1>4. QED BY <1>1, <1>2, <1>3 DEF ProcessInv

\* A request starts a transaction, or is answered.
LEMMA StartNamedKeeps ==
  ASSUME ProcessInv, UNCHANGED <<state, pid, byPid, pending>>,
         NEW e, NEW n, StartNamed(e, n)
  PROVE  ProcessInv'
<1>1. pc' = "control" \/ (pc' = "start" /\ ret' = "control" /\ skip' = TRUE)
  BY DEF StartNamed, Reply
<1>2. CASE pc' = "control"
  BY <1>2, Move
<1>3. CASE pc' = "start" /\ ret' = "control" /\ skip' = TRUE
  <2>1. SoleInv' /\ PendingInv'
    BY DEF ProcessInv, SoleInv, PendingInv
  <2>2. TodoInv' /\ QuietInv' /\ PlannedInv'
    BY <1>3 DEF TodoInv, QuietInv, PlannedInv
  <2>3. QED BY <2>1, <2>2 DEF ProcessInv
<1>4. QED BY <1>1, <1>2, <1>3

\* What is about to be started has neither a process nor a pending restart.
LEMMA Startable ==
  ASSUME IInv, ProcessInv, NoStartMeetsRestart, NEW u \in Units, Starting(u),
         ~(skip /\ state[u] = "Active")
  PROVE  pid[u] = NoPid /\ \A i \in DOMAIN pending : pending[i].unit # u
<1>1. todo \in Seq(Units) /\ todo # <<>> /\ pc = "start" /\ u = Head(todo)
  BY DEF IInv, TypeOK, Starting
<1>2. u = todo[1] /\ 1 \in DOMAIN todo /\ u \in Elements(todo)
  BY <1>1, TailEntries DEF Elements
<1>3. CASE ret = "control"
  <2>1. state[u] \notin {"Active", "Activating", "Deactivating"}
    BY <1>1, <1>3 DEF IInv, TransientStatesEnd, ProcessInv, TodoInv
  <2>2. pid[u] = NoPid
    BY <2>1 DEF ProcessInv, SoleInv
  <2>3. QED BY <1>1, <1>2, <1>3, <2>2 DEF NoStartMeetsRestart
<1>4. CASE ret # "control"
  BY <1>1, <1>2, <1>4 DEF ProcessInv, TodoInv
<1>5. QED BY <1>3, <1>4

\* The head of the transaction has been dealt with.
LEMMA TodoPopped ==
  ASSUME IInv, TodoInv, pc \in {"start", "oneshot"}, todo # <<>>,
         pc' = "start", todo' = Tail(todo), UNCHANGED <<skip, ret, pending>>,
         \A v \in Units : v # Head(todo) => pid'[v] = pid[v]
  PROVE  TodoInv'
<1>1. todo \in Seq(Units)
  BY DEF IInv, TypeOK
<1>2. CASE ret = "control"
  BY <1>2 DEF TodoInv
<1>3. CASE ret # "control"
  <2>1. /\ \A i, j \in DOMAIN todo : todo[i] = todo[j] => i = j
        /\ \A i \in DOMAIN todo : i # 1 => pid[todo[i]] = NoPid
        /\ \A i \in DOMAIN pending : pending[i].unit \notin Elements(todo)
    BY <1>3 DEF TodoInv
  <2>2. /\ Head(todo) = todo[1] /\ 1 \in DOMAIN todo
        /\ \A i \in DOMAIN todo' : i + 1 \in DOMAIN todo /\ i + 1 # 1 /\ todo'[i] = todo[i + 1]
        /\ Elements(todo') \subseteq Elements(todo) /\ todo' \in Seq(Units)
    BY <1>1, TailEntries
  <2>3. \A i, j \in DOMAIN todo' : todo'[i] = todo'[j] => i = j
    <3>1. SUFFICES ASSUME NEW i \in DOMAIN todo', NEW j \in DOMAIN todo', todo'[i] = todo'[j]
                   PROVE  i = j
      OBVIOUS
    <3>2. i + 1 = j + 1
      BY <2>1, <2>2, <3>1
    <3>3. i \in Nat /\ j \in Nat
      BY <2>2
    <3>4. QED BY <3>2, <3>3
  <2>4. \A i \in DOMAIN todo' : pid'[todo'[i]] = NoPid
    <3>1. SUFFICES ASSUME NEW i \in DOMAIN todo' PROVE pid'[todo'[i]] = NoPid
      OBVIOUS
    <3>2. todo'[i] = todo[i + 1] /\ i + 1 \in DOMAIN todo /\ i + 1 # 1
      BY <2>2
    <3>3. todo[i + 1] # todo[1] /\ todo[i + 1] \in Units
      BY <1>1, <2>1, <2>2, <3>2
    <3>4. QED BY <2>1, <2>2, <3>2, <3>3
  <2>5. \A i \in DOMAIN pending' : pending'[i].unit \notin Elements(todo')
    BY <2>1, <2>2
  <2>6. QED BY <1>3, <2>3, <2>4, <2>5 DEF TodoInv, Elements
<1>4. QED BY <1>2, <1>3

------------------------------------------------------------------------------
\* Starting the units of a transaction

\* An Active unit is passed over.
LEMMA SkipActiveKeeps ==
  ASSUME IInv, ProcessInv, NEW u \in Units, SkipActive(u)
  PROVE  ProcessInv'
<1>1. /\ pc = "start" /\ pc' = "start" /\ todo # <<>> /\ todo' = Tail(todo)
      /\ UNCHANGED <<state, pid, byPid, pending, skip, ret>>
  BY DEF SkipActive, Starting, units
<1>2. SoleInv' /\ PendingInv'
  BY <1>1 DEF ProcessInv, SoleInv, PendingInv
<1>3. TodoInv'
  BY <1>1, TodoPopped DEF ProcessInv
<1>4. QuietInv' /\ PlannedInv'
  BY <1>1 DEF QuietInv, PlannedInv
<1>5. QED BY <1>2, <1>3, <1>4 DEF ProcessInv

\* A unit is refused, is a target, or cannot be spawned.
LEMMA SettledKeeps ==
  ASSUME IInv, ProcessInv, NoStartMeetsRestart, NEW u \in Units,
         RefuseStart(u) \/ StartTarget(u) \/ SpawnFails(u)
  PROVE  ProcessInv'
<1>1. /\ Starting(u) /\ ~(skip /\ state[u] = "Active")
      /\ todo' = Tail(todo) /\ UNCHANGED <<pid, byPid, pending, pc, skip, ret>>
      /\ \E q \in {"Active", "Failed"} : state' = [state EXCEPT ![u] = q]
  BY DEF RefuseStart, StartTarget, SpawnFails, MayStart
<1>2. pc = "start" /\ pc' = "start" /\ todo # <<>> /\ state \in [Units -> States]
  BY <1>1 DEF Starting, IInv, TypeOK
<1>3. pid[u] = NoPid
  BY <1>1, Startable
<1>4. SoleInv'
  BY <1>1, <1>2, <1>3 DEF ProcessInv, SoleInv
<1>5. PendingInv'
  BY <1>1 DEF ProcessInv, PendingInv
<1>6. TodoInv'
  BY <1>1, <1>2, TodoPopped DEF ProcessInv
<1>7. QuietInv' /\ PlannedInv'
  BY <1>2 DEF QuietInv, PlannedInv
<1>8. QED BY <1>4, <1>5, <1>6, <1>7 DEF ProcessInv

\* A process comes to a unit that has none.
LEMMA SpawnKeeps ==
  ASSUME IInv, ProcessInv, NoStartMeetsRestart, NEW u \in Units, NEW p \in Pids,
         StartService(u, p) \/ StartOneshot(u, p)
  PROVE  ProcessInv'
<1>1. /\ Starting(u) /\ ~(skip /\ state[u] = "Active") /\ u \in Service
      /\ pid' = [pid EXCEPT ![u] = p] /\ byPid' = [byPid EXCEPT ![p] = u]
      /\ UNCHANGED <<pending, skip, ret>>
      /\ \E q \in {"Active", "Activating"} : state' = [state EXCEPT ![u] = q]
      /\ \/ pc' = "start" /\ todo' = Tail(todo)
         \/ pc' = "oneshot" /\ todo' = todo
  BY SupervisorAssumption DEF StartService, StartOneshot, MayStart, Spawn, Starting, start
<1>2. /\ pc = "start" /\ todo \in Seq(Units) /\ todo # <<>> /\ u = Head(todo)
      /\ state \in [Units -> States] /\ pid \in [Units -> Pids \cup {NoPid}]
      /\ byPid \in [Pids -> Service \cup {NoUnit}] /\ pending \in Seq(Restart)
  BY <1>1 DEF Starting, IInv, TypeOK
<1>3. pid[u] = NoPid /\ \A i \in DOMAIN pending : pending[i].unit # u
  BY <1>1, Startable
<1>4. SoleInv'
  <2>1. \A q \in Pids : byPid[q] # u
    BY <1>3, NoUnitIsNone, SupervisorAssumption DEF ProcessInv, SoleInv
  <2>2. ASSUME NEW q \in Pids, byPid'[q] # NoUnit PROVE pid'[byPid'[q]] = q
    <3>1. CASE q = p
      BY <1>1, <1>2, <3>1
    <3>2. CASE q # p
      <4>1. byPid'[q] = byPid[q] /\ byPid[q] # u /\ byPid[q] # NoUnit
        BY <1>1, <1>2, <2>1, <2>2, <3>2
      <4>2. byPid[q] \in Units
        BY <1>2, <4>1, SupervisorAssumption
      <4>3. QED BY <1>1, <1>2, <4>1, <4>2 DEF ProcessInv, SoleInv
    <3>3. QED BY <3>1, <3>2
  <2>3. ASSUME NEW v \in Units, pid'[v] # NoPid
        PROVE  state'[v] \in {"Active", "Activating", "Deactivating"}
    BY <1>1, <1>2, <2>3 DEF ProcessInv, SoleInv
  <2>4. QED BY <2>2, <2>3 DEF SoleInv
<1>5. PendingInv'
  <2>1. \A i \in DOMAIN pending : pending[i].unit \in Units
    BY PendingUnits DEF IInv
  <2>2. QED BY <1>1, <1>2, <1>3, <2>1 DEF ProcessInv, PendingInv
<1>6. \A v \in Units : v # Head(todo) => pid'[v] = pid[v]
  BY <1>1, <1>2
<1>7. TodoInv'
  <2>1. CASE pc' = "start" /\ todo' = Tail(todo)
    BY <1>1, <1>2, <1>6, <2>1, TodoPopped DEF ProcessInv
  <2>2. CASE pc' = "oneshot" /\ todo' = todo
    <3>1. CASE ret = "control"
      BY <1>1, <1>2, <3>1 DEF ProcessInv, TodoInv
    <3>2. CASE ret # "control"
      <4>1. /\ \A i, j \in DOMAIN todo : todo[i] = todo[j] => i = j
            /\ \A i \in DOMAIN todo : pid[todo[i]] = NoPid
            /\ \A i \in DOMAIN pending : pending[i].unit \notin Elements(todo)
        BY <1>2, <3>2 DEF ProcessInv, TodoInv
      <4>2. ASSUME NEW i \in DOMAIN todo, i # 1 PROVE pid'[todo[i]] = NoPid
        <5>1. Head(todo) = todo[1] /\ 1 \in DOMAIN todo /\ todo[i] \in Units
          BY <1>2, TailEntries
        <5>2. todo[i] # Head(todo)
          BY <4>1, <4>2, <5>1
        <5>3. QED BY <1>6, <4>1, <5>1, <5>2
      <4>3. QED BY <1>1, <2>2, <3>2, <4>1, <4>2 DEF TodoInv, Elements
    <3>3. QED BY <3>1, <3>2
  <2>3. QED BY <1>1, <2>1, <2>2
<1>8. QuietInv' /\ PlannedInv'
  BY <1>1 DEF QuietInv, PlannedInv
<1>9. QED BY <1>4, <1>5, <1>7, <1>8 DEF ProcessInv

\* wait_oneshot has reaped the process itself.
LEMMA OneshotKeeps ==
  ASSUME IInv, ProcessInv, NEW u \in Units, OneshotExits(u) \/ OneshotTimesOut(u)
  PROVE  ProcessInv'
<1>1. /\ pc = "oneshot" /\ u = Head(todo) /\ pc' = "start" /\ todo' = Tail(todo)
      /\ byPid' = [byPid EXCEPT ![pid[u]] = NoUnit] /\ pid' = [pid EXCEPT ![u] = NoPid]
      /\ \E q \in States : state' = [state EXCEPT ![u] = q]
      /\ UNCHANGED <<pending, skip, ret>>
  BY DEF OneshotExits, OneshotTimesOut, OneshotOver, States
<1>2. /\ todo # <<>> /\ pid[u] # NoPid /\ state \in [Units -> States]
      /\ pid \in [Units -> Pids \cup {NoPid}] /\ byPid \in [Pids -> Service \cup {NoUnit}]
      /\ pending \in Seq(Restart)
  BY <1>1 DEF IInv, ServingInv, TypeOK
<1>3. SoleInv'
  <2>1. ASSUME NEW q \in Pids, byPid'[q] # NoUnit PROVE pid'[byPid'[q]] = q
    <3>1. q # pid[u] /\ byPid'[q] = byPid[q] /\ byPid[q] # NoUnit
      BY <1>1, <1>2, <2>1
    <3>2. pid[byPid[q]] = q /\ byPid[q] \in Units
      BY <1>2, <3>1, SupervisorAssumption DEF ProcessInv, SoleInv
    <3>3. QED BY <1>1, <1>2, <3>1, <3>2
  <2>2. ASSUME NEW v \in Units, pid'[v] # NoPid
        PROVE  state'[v] \in {"Active", "Activating", "Deactivating"}
    BY <1>1, <1>2, <2>2 DEF ProcessInv, SoleInv
  <2>3. QED BY <2>1, <2>2 DEF SoleInv
<1>4. PendingInv'
  <2>1. \A i \in DOMAIN pending : pending[i].unit \in Units
    BY PendingUnits DEF IInv
  <2>2. QED BY <1>1, <1>2, <2>1 DEF ProcessInv, PendingInv
<1>5. TodoInv'
  <2>1. \A v \in Units : v # Head(todo) => pid'[v] = pid[v]
    BY <1>1, <1>2
  <2>2. QED BY <1>1, <1>2, <2>1, TodoPopped DEF ProcessInv
<1>6. QuietInv' /\ PlannedInv'
  BY <1>1 DEF QuietInv, PlannedInv
<1>7. QED BY <1>3, <1>4, <1>5, <1>6 DEF ProcessInv

------------------------------------------------------------------------------
\* Exits and restarts

\* An exit schedules at most the restart of the unit that had the process, and
\* during a stop leaves that unit Inactive.
LEMMA ExitSchedules ==
  ASSUME IInv, NEW p \in Pids, OnChildExit(p)
  PROVE  /\ \/ pending' = pending
            \/ pending' = Append(pending, [unit |-> byPid[p], left |-> RestartSec[byPid[p]]])
         /\ shuttingDown => state' = [state EXCEPT ![byPid[p]] = "Inactive"]
<1>1. byPid[p] # NoUnit
  BY ChildExit, NoUnitIsNone
<1>2. CASE ~shuttingDown /\ WantsRestart(byPid[p], proc[p])
  <2>1. \E left \in {"Inactive", "Failed"} : ScheduleRestart(byPid[p], left)
    BY <1>1, <1>2 DEF OnChildExit
  <2>2. QED BY <1>2, <2>1 DEF ScheduleRestart
<1>3. CASE ~(~shuttingDown /\ WantsRestart(byPid[p], proc[p]))
  BY <1>1, <1>3 DEF OnChildExit
<1>4. QED BY <1>2, <1>3

\* The list with one more entry.
LEMMA AppendEntries ==
  ASSUME NEW S, NEW s \in Seq(S), NEW x \in S
  PROVE  \A i \in DOMAIN Append(s, x) :
           \/ i \in DOMAIN s /\ Append(s, x)[i] = s[i]
           \/ i = Len(s) + 1 /\ Append(s, x)[i] = x
OBVIOUS

\* A process is reaped, by the loop or by the wait of stop_unit.
LEMMA ExitKeeps ==
  ASSUME IInv, ProcessInv, NEW p \in Pids, OnChildExit(p), pc \in {"reap", "drain"},
         UNCHANGED <<pc, virtual, conns>>
  PROVE  ProcessInv'
<1> DEFINE u == byPid[p]
<1>1. /\ u \in Service /\ u \in Units /\ u # NoUnit
      /\ byPid' = [byPid EXCEPT ![p] = NoUnit]
      /\ pid' = [pid EXCEPT ![u] = NoPid]
      /\ \E q \in {"Inactive", "Failed"} : state' = [state EXCEPT ![u] = q]
  BY ChildExit, NoUnitIsNone, SupervisorAssumption
<1>2. /\ TypeOK /\ state \in [Units -> States] /\ pid \in [Units -> Pids \cup {NoPid}]
      /\ byPid \in [Pids -> Service \cup {NoUnit}] /\ pending \in Seq(Restart)
  BY DEF IInv, TypeOK
<1>3. /\ \/ pending' = pending
         \/ pending' = Append(pending, [unit |-> u, left |-> RestartSec[u]])
      /\ shuttingDown => pending' = pending /\ state' = [state EXCEPT ![u] = "Inactive"]
  BY ChildExit, ExitSchedules
<1>4. pid[u] = p /\ pid[u] # NoPid
  BY <1>1, SupervisorAssumption DEF ProcessInv, SoleInv
<1>5. \A i \in DOMAIN pending : pending[i].unit \in Units /\ pending[i].unit # u
  BY <1>2, <1>4, PendingUnits DEF ProcessInv, PendingInv
<1> HIDE DEF u
<1>6. SoleInv'
  <2>1. ASSUME NEW q \in Pids, byPid'[q] # NoUnit PROVE pid'[byPid'[q]] = q
    <3>1. q # p /\ byPid'[q] = byPid[q] /\ byPid[q] # NoUnit
      BY <1>1, <1>2, <2>1
    <3>2. pid[byPid[q]] = q /\ byPid[q] \in Units
      BY <1>2, <3>1, SupervisorAssumption DEF ProcessInv, SoleInv
    <3>3. byPid[q] # u
      BY <1>4, <3>1, <3>2
    <3>4. QED BY <1>1, <1>2, <3>1, <3>2, <3>3
  <2>2. ASSUME NEW v \in Units, pid'[v] # NoPid
        PROVE  state'[v] \in {"Active", "Activating", "Deactivating"}
    BY <1>1, <1>2, <2>2 DEF ProcessInv, SoleInv
  <2>3. QED BY <2>1, <2>2 DEF SoleInv
<1>7. PendingInv'
  <2>1. \A v \in Units : pid[v] = NoPid => pid'[v] = NoPid
    BY <1>1, <1>2
  <2>2. CASE pending' = pending
    BY <1>5, <2>1, <2>2 DEF ProcessInv, PendingInv
  <2>3. CASE pending' = Append(pending, [unit |-> u, left |-> RestartSec[u]])
    <3>1. [unit |-> u, left |-> RestartSec[u]] \in Restart
      BY <1>1, SupervisorAssumption DEF Restart
    <3>2. \A i \in DOMAIN pending' :
            \/ i \in DOMAIN pending /\ pending'[i].unit = pending[i].unit
            \/ i = Len(pending) + 1 /\ pending'[i].unit = u
      BY <1>2, <2>3, <3>1, AppendEntries
    <3>3. pid'[u] = NoPid
      BY <1>1, <1>2
    <3>4. \A i \in DOMAIN pending' : pid'[pending'[i].unit] = NoPid
      BY <1>5, <2>1, <3>2, <3>3 DEF ProcessInv, PendingInv
    <3>5. \A i, j \in DOMAIN pending' : pending'[i].unit = pending'[j].unit => i = j
      BY <1>5, <3>2 DEF ProcessInv, PendingInv
    <3>6. QED BY <3>4, <3>5 DEF PendingInv
  <2>4. QED BY <1>3, <2>2, <2>3
<1>8. TodoInv' /\ QuietInv'
  BY DEF TodoInv, QuietInv
<1>9. PlannedInv'
  <2>1. CASE pc = "reap"
    BY <2>1 DEF PlannedInv
  <2>2. CASE pc = "drain"
    <3>1. pending' = pending /\ state' = [state EXCEPT ![u] = "Inactive"]
      BY <1>3, <2>2 DEF IInv, StopInv
    <3>2. Planned' = Planned
      BY DEF Planned, Requested
    <3>3. /\ \A v \in Planned : state[v] \in {"Inactive", "Deactivating"}
          /\ \A i \in DOMAIN pending : pending[i].unit \notin Planned
      BY <2>2 DEF ProcessInv, PlannedInv
    <3>4. \A v \in Planned : state'[v] \in {"Inactive", "Deactivating"}
      <4>1. ASSUME NEW v \in Planned PROVE state'[v] \in {"Inactive", "Deactivating"}
        <5>1. CASE v = u
          BY <1>1, <1>2, <3>1, <5>1
        <5>2. CASE v # u
          <6>1. state'[v] = state[v]
            BY <1>2, <3>1, <5>2
          <6>2. QED BY <3>3, <6>1
        <5>3. QED BY <5>1, <5>2
      <4>2. QED BY <4>1
    <3>5. QED BY <3>1, <3>2, <3>3, <3>4 DEF PlannedInv
  <2>3. QED BY <2>1, <2>2
<1>10. QED BY <1>6, <1>7, <1>8, <1>9 DEF ProcessInv

\* Keeping some positions of a list, in order, keeps each once.
LEMMA SelectionEntries ==
  ASSUME NEW s, NEW T \in SUBSET DOMAIN s, NEW f \in Ascending(T), IsFiniteSet(T), T \subseteq Nat
  PROVE  /\ DOMAIN Select(s, f) = DOMAIN f
         /\ \A i \in DOMAIN f : f[i] \in T /\ Select(s, f)[i] = s[f[i]]
         /\ \A i, j \in DOMAIN f : f[i] = f[j] => i = j
<1>1. /\ DOMAIN Select(s, f) = DOMAIN f
      /\ \A i \in DOMAIN f : f[i] \in T /\ Select(s, f)[i] = s[f[i]]
  BY DEF Select, Ascending
<1>2. Cardinality(T) \in Nat
  BY FS_CardinalityType
<1>3. \A i, j \in DOMAIN f : f[i] = f[j] => i = j
  BY <1>1, <1>2 DEF Ascending
<1>4. QED BY <1>1, <1>3

\* What is left of the pending restarts is pending once.
LEMMA KeptPending ==
  ASSUME IInv, ProcessInv, NEW T \in SUBSET DOMAIN pending, NEW f \in Ascending(T)
  PROVE  /\ DOMAIN Select(pending, f) = DOMAIN f
         /\ \A i \in DOMAIN f : f[i] \in T /\ Select(pending, f)[i] = pending[f[i]]
         /\ \A i, j \in DOMAIN f : pending[f[i]].unit = pending[f[j]].unit => i = j
<1>1. DOMAIN pending = 1 .. Len(pending) /\ Len(pending) \in Int /\ 1 \in Int
  BY DEF IInv, TypeOK
<1>2. IsFiniteSet(T) /\ T \subseteq Nat
  BY <1>1, FS_Interval, FS_Subset
<1>3. /\ DOMAIN Select(pending, f) = DOMAIN f
      /\ \A i \in DOMAIN f : f[i] \in T /\ Select(pending, f)[i] = pending[f[i]]
      /\ \A i, j \in DOMAIN f : f[i] = f[j] => i = j
  BY <1>2, SelectionEntries
<1>4. QED BY <1>3 DEF ProcessInv, PendingInv

\* The due restarts leave the list, so that what is started is pending no more.
LEMMA FireKeeps ==
  ASSUME IInv, ProcessInv, FireDueRestarts
  PROVE  ProcessInv'
<1>1. PICK due \in Ascending(Due), rest \in Ascending(DOMAIN pending \ Due) :
        /\ todo' = [i \in DOMAIN due |-> pending[due[i]].unit]
        /\ pending' = Select(pending, rest)
  BY DEF FireDueRestarts, Select
<1>2. UNCHANGED <<state, pid, byPid>> /\ pc' = "start" /\ ret' = "exit"
  BY DEF FireDueRestarts
<1>3. Due \in SUBSET DOMAIN pending /\ DOMAIN pending \ Due \in SUBSET DOMAIN pending
  BY DEF Due
<1>4. /\ \A i \in DOMAIN due : due[i] \in Due
      /\ \A i, j \in DOMAIN due : pending[due[i]].unit = pending[due[j]].unit => i = j
  BY <1>3, KeptPending
<1>5. /\ DOMAIN pending' = DOMAIN rest
      /\ \A i \in DOMAIN rest : rest[i] \in DOMAIN pending \ Due /\ pending'[i] = pending[rest[i]]
      /\ \A i, j \in DOMAIN rest : pending[rest[i]].unit = pending[rest[j]].unit => i = j
  BY <1>1, <1>3, KeptPending
<1>6. DOMAIN todo' = DOMAIN due /\ \A i \in DOMAIN due : todo'[i] = pending[due[i]].unit
  BY <1>1
<1>7. SoleInv'
  BY <1>2 DEF ProcessInv, SoleInv
<1>8. PendingInv'
  BY <1>2, <1>5 DEF ProcessInv, PendingInv
<1>9. TodoInv'
  <2>1. \A i, j \in DOMAIN todo' : todo'[i] = todo'[j] => i = j
    BY <1>4, <1>6
  <2>2. \A i \in DOMAIN todo' : pid'[todo'[i]] = NoPid
    BY <1>2, <1>3, <1>4, <1>6 DEF ProcessInv, PendingInv
  <2>3. \A i \in DOMAIN pending' : pending'[i].unit \notin Elements(todo')
    <3>1. SUFFICES ASSUME NEW i \in DOMAIN pending', NEW j \in DOMAIN todo',
                          pending'[i].unit = todo'[j]
                   PROVE  FALSE
      BY DEF Elements
    <3>2. /\ rest[i] \in DOMAIN pending \ Due /\ due[j] \in Due
          /\ pending[rest[i]].unit = pending[due[j]].unit
      BY <1>4, <1>5, <1>6, <3>1
    <3>3. rest[i] = due[j]
      BY <1>3, <3>2 DEF ProcessInv, PendingInv
    <3>4. QED BY <3>2, <3>3
  <2>4. QED BY <1>2, <2>1, <2>2, <2>3 DEF TodoInv
<1>10. QuietInv' /\ PlannedInv'
  BY <1>2 DEF QuietInv, PlannedInv
<1>11. QED BY <1>7, <1>8, <1>9, <1>10 DEF ProcessInv

------------------------------------------------------------------------------
\* Stopping

\* A stop is of units.
LEMMA PlannedUnits ==
  ASSUME IInv, conns # <<>>
  PROVE  Planned \subseteq Units
<1>1. virtual \in SUBSET Units /\ Requested \in Names
  BY RequestTypes DEF IInv, TypeOK
<1>2. StopPlan(virtual, Requested).units \in Seq(Units)
  BY <1>1, PlanTypes
<1>3. QED BY <1>2 DEF Planned, Elements

\* The plan of a stop loses its pending restarts, and is Inactive or waited for.
LEMMA BeginStopKeeps ==
  ASSUME IInv, ProcessInv, conns # <<>>,
         BeginStop(StopPlan(virtual, Requested).units), UNCHANGED virtual
  PROVE  ProcessInv'
<1>1. PICK f \in Ascending({i \in DOMAIN pending : pending[i].unit \notin Planned}) :
        pending' = Select(pending, f)
  BY DEF BeginStop, Planned, Select
<1>2. /\ state' = [u \in Units |-> IF u \notin Planned THEN state[u]
                                   ELSE IF pid[u] = NoPid THEN "Inactive" ELSE "Deactivating"]
      /\ pc' \in {"stopped", "drain"} /\ UNCHANGED <<pid, byPid, conns>>
  BY DEF BeginStop, Planned
<1>3. /\ DOMAIN pending' = DOMAIN f
      /\ \A i \in DOMAIN f : /\ f[i] \in DOMAIN pending /\ pending[f[i]].unit \notin Planned
                             /\ pending'[i] = pending[f[i]]
      /\ \A i, j \in DOMAIN f : pending[f[i]].unit = pending[f[j]].unit => i = j
  BY <1>1, KeptPending
<1>4. Planned' = Planned
  BY <1>2 DEF Planned, Requested
<1>5. SoleInv'
  <2>1. ASSUME NEW v \in Units, pid[v] # NoPid
        PROVE  state'[v] \in {"Active", "Activating", "Deactivating"}
    BY <1>2, <2>1 DEF ProcessInv, SoleInv
  <2>2. QED BY <1>2, <2>1 DEF ProcessInv, SoleInv
<1>6. PendingInv'
  BY <1>2, <1>3 DEF ProcessInv, PendingInv
<1>7. TodoInv' /\ QuietInv'
  BY <1>2 DEF TodoInv, QuietInv
<1>8. PlannedInv'
  <2>1. Planned \subseteq Units => \A u \in Planned : state'[u] \in {"Inactive", "Deactivating"}
    BY <1>2
  <2>2. \A i \in DOMAIN pending' : pending'[i].unit \notin Planned
    BY <1>3
  <2>3. QED BY <1>4, <2>1, <2>2, PlannedUnits DEF PlannedInv
<1>9. QED BY <1>5, <1>6, <1>7, <1>8 DEF ProcessInv

\* Or the request is answered at once.
LEMMA HandleStopKeeps ==
  ASSUME IInv, ProcessInv, HandleStop
  PROVE  ProcessInv'
<1>1. UNCHANGED virtual /\ conns # <<>>
  BY DEF HandleStop, Serving
<1>2. \/ BeginStop(StopPlan(virtual, Requested).units)
      \/ pc' = "control" /\ UNCHANGED units
  BY DEF HandleStop, StopFails, Reply
<1>3. CASE pc' = "control" /\ UNCHANGED units
  BY <1>3, Move DEF units
<1>4. QED BY <1>1, <1>2, <1>3, BeginStopKeeps

\* stop_unit leaves its wait with nothing changed.
LEMMA DrainDoneKeeps ==
  ASSUME ProcessInv, DrainDone
  PROVE  ProcessInv'
<1>1. pc = "drain" /\ pc' = "stopped" /\ UNCHANGED <<state, pid, byPid, pending, virtual, conns>>
  BY DEF DrainDone, units, disk
<1>2. Planned' = Planned
  BY <1>1 DEF Planned, Requested
<1>3. SoleInv' /\ PendingInv'
  BY <1>1 DEF ProcessInv, SoleInv, PendingInv
<1>4. TodoInv' /\ QuietInv'
  BY <1>1 DEF TodoInv, QuietInv
<1>5. PlannedInv'
  BY <1>1, <1>2 DEF ProcessInv, PlannedInv
<1>6. QED BY <1>3, <1>4, <1>5 DEF ProcessInv

------------------------------------------------------------------------------
\* Booting, and everything else

\* An empty machine.
LEMMA EmptyKeeps ==
  ASSUME pid' = [u \in Units |-> NoPid], byPid' = [p \in Pids |-> NoUnit], pending' = <<>>,
         pc' = "boot"
  PROVE  ProcessInv'
<1>1. SoleInv' /\ QuietInv'
  BY DEF SoleInv, QuietInv
<1>2. PendingInv'
  BY DEF PendingInv
<1>3. TodoInv' /\ PlannedInv'
  BY DEF TodoInv, PlannedInv
<1>4. QED BY <1>1, <1>2, <1>3 DEF ProcessInv

\* Activation begins with units that have no process, each named once.
LEMMA BootKeeps ==
  ASSUME IInv, ProcessInv, Boot
  PROVE  ProcessInv'
<1>1. /\ pc = "boot" /\ pc' \in {"start", "exited"} /\ ret' = "poll"
      /\ todo' = StartPlan(virtual', DefaultTarget).units
      /\ UNCHANGED <<state, pid, byPid, pending>>
  BY DEF Boot, units
<1>2. (\A u \in Units : pid[u] = NoPid) /\ pending = <<>>
  BY <1>1 DEF ProcessInv, QuietInv
<1>3. virtual' \in SUBSET Units
  BY DEF Boot
<1>4. StartPlan(virtual', DefaultTarget) \in Plans
  BY <1>3, SupervisorAssumption
<1>5. /\ todo' \in Seq(Units)
      /\ \A i, j \in DOMAIN todo' : todo'[i] = todo'[j] => i = j
  BY <1>1, <1>4 DEF Plans
<1>6. SoleInv' /\ PendingInv'
  BY <1>1 DEF ProcessInv, SoleInv, PendingInv
<1>7. TodoInv'
  <2>1. \A i \in DOMAIN todo' : pid'[todo'[i]] = NoPid
    <3>1. \A i \in DOMAIN todo' : todo'[i] \in Units
      BY <1>5
    <3>2. QED BY <1>1, <1>2, <3>1
  <2>2. \A i \in DOMAIN pending' : pending'[i].unit \notin Elements(todo')
    BY <1>1, <1>2
  <2>3. QED BY <1>1, <1>5, <2>1, <2>2 DEF TodoInv
<1>8. QuietInv' /\ PlannedInv'
  BY <1>1, <1>2 DEF QuietInv, PlannedInv
<1>9. QED BY <1>6, <1>7, <1>8 DEF ProcessInv

\* Time passes.
LEMMA TickKeeps ==
  ASSUME IInv, ProcessInv, Tick
  PROVE  ProcessInv'
<1>1. /\ UNCHANGED <<state, pid, byPid, pc, todo, skip, ret, virtual, conns>>
      /\ pending' = [i \in DOMAIN pending |-> [pending[i] EXCEPT !.left = Sooner(@)]]
  BY DEF Tick, disk, start
<1>2. DOMAIN pending' = DOMAIN pending /\ \A i \in DOMAIN pending : pending'[i].unit = pending[i].unit
  <2>1. \A i \in DOMAIN pending : pending[i] \in [unit : Service, left : Nat]
    <3>1. \A i \in DOMAIN pending : pending[i] \in Restart
      BY DEF IInv, TypeOK
    <3>2. QED BY <3>1 DEF Restart
  <2>2. ASSUME NEW r \in [unit : Service, left : Nat], NEW n
        PROVE  [r EXCEPT !.left = n].unit = r.unit
    BY <2>2
  <2>3. QED BY <1>1, <2>1, <2>2
<1>3. pending = <<>> => pending' = <<>>
  BY <1>1
<1>4. Requested' = Requested
  BY <1>1 DEF Requested
<1>5. QED BY <1>1, <1>2, <1>3, <1>4, Still

\* The processes, the senders of signals and the clients move.
LEMMA EnvironmentKeeps ==
  ASSUME IInv, ProcessInv, Environment
  PROVE  ProcessInv'
<1>1. ASSUME UNCHANGED <<units, pc, start, virtual, conns>>
      PROVE  ProcessInv'
  <2>1. Requested' = Requested /\ UNCHANGED <<state, pid, byPid, pending, pc, todo, skip, ret, virtual>>
    BY <1>1 DEF Requested, units, start
  <2>2. QED BY <2>1, Still
<1>2. ASSUME NEW r \in Requests, Connect(r)
      PROVE  ProcessInv'
  <2>1. /\ UNCHANGED <<state, pid, byPid, pending, pc, todo, skip, ret, virtual>>
        /\ conns' = Append(conns, r)
    BY <1>2 DEF Connect, units, start, disk
  <2>2. pc \in {"drain", "stopped"} => conns # <<>> /\ conns \in Seq(Requests)
    BY DEF IInv, ServingInv, TypeOK
  <2>3. pc \in {"drain", "stopped"} => Head(conns') = Head(conns)
    BY <2>1, <2>2
  <2>4. QED BY <2>1, <2>3, Still DEF Requested
<1>3. ASSUME SilentClientLeaves
      PROVE  ProcessInv'
  <2>1. pc' = "control" /\ UNCHANGED <<state, pid, byPid, pending>>
    BY <1>3 DEF SilentClientLeaves, Reply, units
  <2>2. QED BY <2>1, Move
<1>4. ASSUME PowerCycle
      PROVE  ProcessInv'
  BY <1>4, EmptyKeeps DEF PowerCycle
<1>5. ASSUME \/ \E p \in Pids, how \in Exited : Exits(p, how)
             \/ \E p \in Pids : Dies(p)
             \/ \E s \in ExternalSignals : SendSignal(s)
      PROVE  ProcessInv'
  <2>1. UNCHANGED <<units, pc, start, virtual, conns>>
    BY <1>5 DEF Exits, Dies, SendSignal, disk
  <2>2. QED BY <1>1, <2>1
<1>6. QED BY <1>2, <1>3, <1>4, <1>5, TickKeeps DEF Environment

\* Units are started one after the other.
LEMMA StartUnitKeeps ==
  ASSUME IInv, ProcessInv, NoStartMeetsRestart, StartUnit
  PROVE  ProcessInv'
<1>1. CASE StartDone
  <2>1. UNCHANGED <<state, pid, byPid, pending>> /\ pc' = ret
    BY <1>1 DEF StartDone, units
  <2>2. ret \in {"poll", "control", "exit"}
    BY DEF IInv, TypeOK
  <2>3. QED BY <2>1, <2>2, Move
<1>2. QED BY <1>1, SkipActiveKeeps, SettledKeeps, SpawnKeeps, OneshotKeeps DEF StartUnit

\* The loop waits, reads, reaps, restarts and leaves.
LEMMA EventLoopKeeps ==
  ASSUME IInv, ProcessInv, EventLoop
  PROVE  ProcessInv'
<1>1. ASSUME \/ Poll \/ (\E e \in {"signals", "control"} : NextEvent(e)) \/ EventsDone
             \/ SignalsDrained \/ ReapDone
      PROVE  ProcessInv'
  <2>1. /\ UNCHANGED <<state, pid, byPid, pending>>
        /\ pc' \in {"events", "signals", "control", "fire"}
    BY <1>1 DEF Poll, NextEvent, EventsDone, SignalsDrained, ReapDone, units
  <2>2. QED BY <2>1, Move
<1>2. ASSUME NEW s, ReadSignal(s)
      PROVE  ProcessInv'
  <2>1. UNCHANGED <<state, pid, byPid>> /\ pc' \in {"reap", "signals"}
    BY <1>2 DEF ReadSignal
  <2>2. pending' = pending \/ pending' = <<>>
    BY <1>2 DEF ReadSignal, InitiateShutdown
  <2>3. QED BY <2>1, <2>2, Move
<1>3. ASSUME NEW p \in Pids, Reap(p)
      PROVE  ProcessInv'
  BY <1>3, ExitKeeps DEF Reap, disk
<1>4. ASSUME ExitCheck
      PROVE  ProcessInv'
  <2>1. /\ UNCHANGED <<state, pid, byPid, pending>> /\ pc' \in {"exited", "poll"}
        /\ pc' = "exited" => \A u \in Units : pid[u] = NoPid
    BY <1>4 DEF ExitCheck, units, AllUnitsQuiet
  <2>2. QED BY <2>1, Move
<1>5. QED BY <1>1, <1>2, <1>3, <1>4, FireKeeps DEF EventLoop

\* Requests are served.
LEMMA ControlKeeps ==
  ASSUME IInv, ProcessInv, Control
  PROVE  ProcessInv'
<1>1. ASSUME UNCHANGED units, pc' = "control" \/ \E e, n : StartNamed(e, n)
      PROVE  ProcessInv'
  BY <1>1, Move, StartNamedKeeps DEF units
<1>2. ASSUME HandleStart \/ Stopped \/ EnableStart \/ EnableRefused \/ HandleShutdown
      PROVE  ProcessInv'
  <2>1. UNCHANGED units /\ (pc' = "control" \/ \E e, n : StartNamed(e, n))
    BY <1>2 DEF HandleStart, Stopped, EnableStart, EnableRefused, HandleShutdown, Reply
  <2>2. QED BY <1>1, <2>1
<1>3. ASSUME EnablePersist \/ ControlDone
      PROVE  ProcessInv'
  <2>1. UNCHANGED <<state, pid, byPid>> /\ pc' \in {"control", "enable", "events"}
    BY <1>3 DEF EnablePersist, ControlDone, Reply, units
  <2>2. pending' = pending \/ pending' = <<>>
    BY <1>3 DEF EnablePersist, ControlDone, InitiateShutdown, units
  <2>3. QED BY <2>1, <2>2, Move
<1>4. ASSUME NEW p \in Pids, DrainReap(p)
      PROVE  ProcessInv'
  BY <1>4, ExitKeeps DEF DrainReap, disk
<1>5. ASSUME Escalate
      PROVE  ProcessInv'
  <2>1. Requested' = Requested /\ UNCHANGED <<state, pid, byPid, pending, pc, todo, skip, ret, virtual>>
    BY <1>5 DEF Escalate, Requested, units, start, disk
  <2>2. QED BY <2>1, Still
<1>6. QED BY <1>2, <1>3, <1>4, <1>5, HandleStopKeeps, DrainDoneKeeps DEF Control

\* Nothing but a start that meets a pending restart breaks the invariant.
LEMMA NextProcessInv == IInv /\ ProcessInv /\ NoStartMeetsRestart /\ [Next]_vars => ProcessInv'
<1>1. SUFFICES ASSUME IInv, ProcessInv, NoStartMeetsRestart, [Next]_vars PROVE ProcessInv'
  OBVIOUS
<1>2. CASE UNCHANGED vars
  <2>1. Requested' = Requested /\ UNCHANGED <<state, pid, byPid, pending, pc, todo, skip, ret, virtual>>
    BY <1>2 DEF vars, Requested, units, start, disk
  <2>2. QED BY <1>1, <2>1, Still
<1>3. CASE BootFails
  <2>1. /\ UNCHANGED <<state, pid, byPid, pending>> /\ pc = "boot" /\ pc' = "exited"
    BY <1>3 DEF BootFails, units
  <2>2. \A u \in Units : pid[u] = NoPid
    BY <1>1, <2>1 DEF ProcessInv, QuietInv
  <2>3. QED BY <1>1, <2>1, <2>2, Move
<1>4. QED BY <1>1, <1>2, <1>3, BootKeeps, EnvironmentKeeps, StartUnitKeeps, EventLoopKeeps,
             ControlKeeps DEF Next, System

\* A machine that has just been switched on.
LEMMA InitProcessInv == Init => ProcessInv
<1>1. SUFFICES ASSUME Init PROVE ProcessInv
  OBVIOUS
<1>2. SoleInv /\ QuietInv
  BY <1>1 DEF Init, SoleInv, QuietInv
<1>3. PendingInv
  BY <1>1 DEF Init, PendingInv
<1>4. TodoInv /\ PlannedInv
  BY <1>1 DEF Init, TodoInv, PlannedInv
<1>5. QED BY <1>2, <1>3, <1>4 DEF ProcessInv

\* The inductive invariant holds as long as no start meets a pending restart.
THEOREM ProcessInvariance == Spec /\ []NoStartMeetsRestart => []ProcessInv
BY InitProcessInv, NextProcessInv, Invariance, PTL DEF Spec

\* Unless a request starts a unit whose restart is pending, a unit never has
\* two processes (start_unit_internal writes its tables without looking).
THEOREM OneProcessCorrect == Spec /\ []NoStartMeetsRestart => []OneProcessPerUnit
<1>1. ProcessInv => OneProcessPerUnit
  BY DEF ProcessInv, SoleInv, OneProcessPerUnit
<1>2. QED BY <1>1, ProcessInvariance, PTL

\* Under the same hypothesis, when stop_unit returns its plan is Inactive, has
\* no process left and no restart ahead, whatever else exited meanwhile.
THEOREM StopCorrect == Spec /\ []NoStartMeetsRestart => []StopIsComplete
<1>1. IInv /\ ProcessInv => StopIsComplete
  <2>1. SUFFICES ASSUME IInv, ProcessInv, pc = "stopped"
                 PROVE  /\ \A u \in Planned : state[u] = "Inactive"
                        /\ \A p \in Pids : byPid[p] \notin Planned
                        /\ \A i \in DOMAIN pending : pending[i].unit \notin Planned
    BY DEF StopIsComplete
  <2>2. Planned \subseteq Units
    BY <2>1, PlannedUnits DEF IInv, ServingInv
  <2>3. \A u \in Planned : state[u] = "Inactive"
    BY <2>1, <2>2 DEF IInv, TransientStatesEnd, ProcessInv, PlannedInv
  <2>4. \A u \in Planned : pid[u] = NoPid
    BY <2>1, <2>2, <2>3 DEF ProcessInv, SoleInv
  <2>5. \A p \in Pids : byPid[p] \notin Planned
    BY <2>1, <2>2, <2>4, NoUnitIsNone, SupervisorAssumption DEF ProcessInv, SoleInv
  <2>6. QED BY <2>1, <2>3, <2>5 DEF ProcessInv, PlannedInv
<1>2. QED BY <1>1, Invariance, ProcessInvariance, PTL

\* Under the same hypothesis, the supervisor returns only when every child has
\* been reaped (signal.rs, run).
THEOREM QuietCorrect == Spec /\ []NoStartMeetsRestart => []QuietAtExit
<1>1. IInv /\ ProcessInv => QuietAtExit
  <2>1. SUFFICES ASSUME IInv, ProcessInv, pc = "exited", NEW p \in Pids
                 PROVE  proc[p] = "free"
    BY DEF QuietAtExit
  <2>2. byPid[p] # NoUnit => byPid[p] \in Units
    BY <2>1, SupervisorAssumption DEF IInv, TypeOK
  <2>3. byPid[p] = NoUnit
    BY <2>1, <2>2, SupervisorAssumption DEF ProcessInv, SoleInv, QuietInv
  <2>4. QED BY <2>1, <2>3 DEF IInv, PidTablesNameOwnChildren
<1>2. QED BY <1>1, Invariance, ProcessInvariance, PTL

------------------------------------------------------------------------------
\* Failures at boot, in every history

\* The plan of this boot names units, each once.
LEMMA BootPlanTypes ==
  ASSUME IInv
  PROVE  /\ BootPlan \in Seq(Units)
         /\ \A i, j \in DOMAIN BootPlan : BootPlan[i] = BootPlan[j] => i = j
<1>1. StartPlan(virtual, DefaultTarget) \in Plans
  BY SupervisorAssumption DEF IInv, TypeOK
<1>2. QED BY <1>1 DEF BootPlan, Plans

\* Where activate_plan is.
LEMMA BootPosition ==
  ASSUME IInv, BootInv, pc \in {"start", "oneshot"}, ret = "poll", todo # <<>>
  PROVE  /\ Activated \in Nat /\ Activated + 1 \in DOMAIN BootPlan
         /\ Head(todo) = BootPlan[Activated + 1] /\ Head(todo) \in Units
         /\ \A k \in 1 .. Activated : k \in DOMAIN BootPlan /\ BootPlan[k] \in Units
                                      /\ BootPlan[k] # Head(todo)
<1>1. BootPlan \in Seq(Units) /\ \A i, j \in DOMAIN BootPlan : BootPlan[i] = BootPlan[j] => i = j
  BY BootPlanTypes
<1>2. todo \in Seq(Units)
  BY DEF IInv, TypeOK
<1>3. Len(todo) <= Len(BootPlan) /\ \A i \in DOMAIN todo : todo[i] = BootPlan[Activated + i]
  BY DEF BootInv
<1>4. Head(todo) = todo[1] /\ 1 \in DOMAIN todo /\ Head(todo) \in Units /\ Len(todo) >= 1
  BY <1>2
<1>5. Activated \in Nat /\ Activated + 1 <= Len(BootPlan) /\ Len(BootPlan) \in Nat
  BY <1>1, <1>2, <1>3, <1>4 DEF Activated
<1>6. Activated + 1 \in DOMAIN BootPlan /\ \A k \in 1 .. Activated : k \in DOMAIN BootPlan
  BY <1>1, <1>5
<1>7. \A k \in 1 .. Activated : BootPlan[k] \in Units /\ BootPlan[k] # Head(todo)
  <2>1. \A k \in 1 .. Activated : k # Activated + 1
    BY <1>5
  <2>2. QED BY <1>1, <1>3, <1>4, <1>6, <2>1
<1>8. QED BY <1>3, <1>4, <1>5, <1>6, <1>7

\* The next unit of the plan has been dealt with: it failed, or nothing it
\* depends on had.
LEMMA BootAdvances ==
  ASSUME IInv, BootInv, pc \in {"start", "oneshot"}, ret = "poll", todo # <<>>,
         pc' = "start", UNCHANGED <<ret, skip, virtual>>, todo' = Tail(todo),
         NEW q, state' = [state EXCEPT ![Head(todo)] = q],
         q = "Failed" \/ \A i \in 1 .. Activated :
           BootPlan[i] \in HardRequirementTargets(Reg, Head(todo)) => state[BootPlan[i]] # "Failed"
  PROVE  BootInv'
<1>1. PICK a \in Nat : a = Activated
  BY BootPosition
<1>2. PICK plan \in Seq(Units) : plan = BootPlan
  BY BootPlanTypes
<1>3. PICK t \in Seq(Units) : t = todo
  BY DEF IInv, TypeOK
<1>4. /\ a = Len(plan) - Len(t) /\ t # <<>> /\ Len(t) <= Len(plan)
      /\ \A i \in DOMAIN t : t[i] = plan[a + i]
      /\ \A i, j \in 1 .. a : /\ i < j
                              /\ plan[i] \in HardRequirementTargets(Reg, plan[j])
                              /\ state[plan[i]] = "Failed"
                              => state[plan[j]] = "Failed"
      /\ ~skip
  BY <1>1, <1>2, <1>3 DEF BootInv, Activated
<1>5. BootPlan' = plan
  BY <1>2 DEF BootPlan
<1>6. Len(Tail(t)) = Len(t) - 1 /\ \A i \in DOMAIN Tail(t) : i + 1 \in DOMAIN t /\ Tail(t)[i] = t[i + 1]
  BY <1>3, <1>4, TailEntries
<1>7. todo' = Tail(t)
  BY <1>3
<1>8. Activated' = a + 1
  <2>1. Activated' = Len(plan) - Len(Tail(t))
    BY <1>5, <1>7 DEF Activated
  <2>2. Len(plan) \in Nat /\ Len(t) \in Nat
    OBVIOUS
  <2>3. QED BY <1>4, <1>6, <2>1, <2>2
<1>9. Len(todo') <= Len(plan)
  BY <1>4, <1>6, <1>7
<1>10. \A i \in DOMAIN todo' : todo'[i] = plan[(a + 1) + i]
  <2>1. SUFFICES ASSUME NEW i \in DOMAIN Tail(t) PROVE Tail(t)[i] = plan[(a + 1) + i]
    BY <1>7
  <2>2. Tail(t)[i] = plan[a + (i + 1)] /\ i \in Int
    BY <1>4, <1>6
  <2>3. a + (i + 1) = (a + 1) + i
    BY <2>2
  <2>4. QED BY <2>2, <2>3
<1>11. /\ Head(todo) = plan[a + 1] /\ Head(todo) \in Units
       /\ \A k \in 1 .. a : plan[k] \in Units /\ plan[k] # Head(todo)
  BY <1>1, <1>2, BootPosition
<1>12. state \in [Units -> States]
  BY DEF IInv, TypeOK
<1>13. state'[plan[a + 1]] = q /\ \A k \in 1 .. a : state'[plan[k]] = state[plan[k]]
  BY <1>11, <1>12
<1>14. ASSUME NEW i \in 1 .. (a + 1), NEW j \in 1 .. (a + 1), i < j,
              plan[i] \in HardRequirementTargets(Reg, plan[j]), state'[plan[i]] = "Failed"
       PROVE  state'[plan[j]] = "Failed"
  <2>1. i \in 1 .. a
    BY <1>14
  <2>2. state[plan[i]] = "Failed"
    BY <1>13, <1>14, <2>1
  <2>3. CASE j = a + 1
    BY <1>1, <1>2, <1>11, <1>13, <1>14, <2>1, <2>2, <2>3
  <2>4. CASE j # a + 1
    <3>1. j \in 1 .. a
      <4>1. a \in Nat /\ j \in Int /\ 1 <= j /\ j <= a + 1 /\ j # a + 1
        BY <1>1, <2>4
      <4>2. QED BY <4>1
    <3>2. QED BY <1>4, <1>13, <1>14, <2>1, <2>2, <3>1
  <2>5. QED BY <2>3, <2>4
<1>15. QED BY <1>4, <1>5, <1>8, <1>9, <1>10, <1>14 DEF BootInv

\* activate_plan begins, or goes on with one unit.
LEMMA BootSteps ==
  ASSUME IInv, BootInv, Boot \/ StartUnit
  PROVE  BootInv'
<1>1. ASSUME pc' \notin {"start", "oneshot"} \/ ret' # "poll" PROVE BootInv'
  BY <1>1 DEF BootInv
<1>2. CASE Boot
  <2>1. /\ todo' = BootPlan' /\ skip' = FALSE /\ pc' \in {"start", "exited"}
    BY <1>2 DEF Boot, BootPlan
  <2>2. todo' \in Seq(Units)
    <3>1. virtual' \in SUBSET Units
      BY <1>2 DEF Boot
    <3>2. StartPlan(virtual', DefaultTarget).units \in Seq(Units)
      BY <3>1, PlanTypes, SupervisorAssumption
    <3>3. QED BY <2>1, <3>2 DEF BootPlan
  <2>3. Activated' = 0 /\ Len(todo') <= Len(BootPlan')
    BY <2>1, <2>2 DEF Activated
  <2>4. \A i \in DOMAIN todo' : todo'[i] = BootPlan'[0 + i]
    BY <2>1, <2>2
  <2>5. QED BY <2>1, <2>3, <2>4 DEF BootInv
<1>3. CASE StartDone
  BY <1>1, <1>3 DEF StartDone, IInv, TypeOK
<1>4. CASE ret # "poll"
  BY <1>1, <1>2, <1>3, <1>4 DEF StartUnit, SkipActive, RefuseStart, StartTarget, SpawnFails,
     StartService, StartOneshot, OneshotExits, OneshotTimesOut, OneshotOver, start
<1>5. ASSUME ret = "poll", NEW u \in Units, SkipActive(u) PROVE BootInv'
  BY <1>5 DEF SkipActive, Starting, BootInv
<1>6. ASSUME ret = "poll", NEW u \in Units, RefuseStart(u) \/ StartTarget(u) \/ SpawnFails(u)
             \/ \E p \in Pids : StartService(u, p)
      PROVE  BootInv'
  <2>1. /\ pc = "start" /\ todo # <<>> /\ u = Head(todo) /\ pc' = "start" /\ todo' = Tail(todo)
        /\ UNCHANGED <<ret, skip, virtual>>
    BY <1>6 DEF RefuseStart, StartTarget, SpawnFails, StartService, MayStart, Starting, disk
  <2>2. CASE RefuseStart(u)
    <3>1. state' = [state EXCEPT ![Head(todo)] = "Failed"]
      BY <2>1, <2>2 DEF RefuseStart
    <3>2. QED BY <1>6, <2>1, <3>1, BootAdvances
  <2>3. CASE ~RefuseStart(u)
    <3>1. ~FailedDependency(Head(todo)) /\ \E q : state' = [state EXCEPT ![Head(todo)] = q]
      BY <1>6, <2>1, <2>3 DEF StartTarget, SpawnFails, StartService, MayStart
    <3>2. QED BY <1>6, <2>1, <3>1, BootAdvances DEF FailedDependency
  <2>4. QED BY <2>2, <2>3
<1>7. ASSUME ret = "poll", NEW u \in Units, NEW p \in Pids, StartOneshot(u, p) PROVE BootInv'
  <2>1. /\ pc = "start" /\ todo # <<>> /\ u = Head(todo) /\ pc' = "oneshot"
        /\ UNCHANGED <<todo, ret, skip, virtual>>
        /\ state' = [state EXCEPT ![Head(todo)] = "Activating"] /\ ~FailedDependency(Head(todo))
    BY <1>7 DEF StartOneshot, MayStart, Starting, disk, start
  <2>2. BootPlan' = BootPlan /\ Activated' = Activated
    BY <2>1 DEF BootPlan, Activated
  <2>3. \A k \in 1 .. Activated : BootPlan[k] \in Units /\ BootPlan[k] # Head(todo)
    BY <1>7, <2>1, BootPosition
  <2>4. \A k \in 1 .. Activated : state'[BootPlan[k]] = state[BootPlan[k]]
    BY <2>1, <2>3 DEF IInv, TypeOK
  <2>5. QED BY <1>7, <2>1, <2>2, <2>4 DEF BootInv, FailedDependency
<1>8. ASSUME ret = "poll", NEW u \in Units, OneshotExits(u) \/ OneshotTimesOut(u) PROVE BootInv'
  <2>1. /\ pc = "oneshot" /\ u = Head(todo) /\ pc' = "start" /\ todo' = Tail(todo)
        /\ UNCHANGED <<ret, skip, virtual>>
        /\ \E q : state' = [state EXCEPT ![Head(todo)] = q]
    BY <1>8 DEF OneshotExits, OneshotTimesOut, OneshotOver, disk
  <2>2. todo # <<>> /\ \A i \in 1 .. Activated :
          BootPlan[i] \in HardRequirementTargets(Reg, Head(todo)) => state[BootPlan[i]] # "Failed"
    BY <1>8, <2>1 DEF IInv, ServingInv, BootInv
  <2>3. QED BY <1>8, <2>1, <2>2, BootAdvances
<1>9. QED BY <1>2, <1>3, <1>4, <1>5, <1>6, <1>7, <1>8 DEF StartUnit

\* Nothing else touches an activation under way.
LEMMA NextBootInv == IInv /\ BootInv /\ [Next]_vars => BootInv'
<1>1. SUFFICES ASSUME IInv, BootInv, [Next]_vars PROVE BootInv'
  OBVIOUS
<1>2. ASSUME pc' \notin {"start", "oneshot"} \/ ret' # "poll" PROVE BootInv'
  BY <1>2 DEF BootInv
<1>3. ASSUME UNCHANGED <<pc, start, state, virtual>> PROVE BootInv'
  <2>1. UNCHANGED <<BootPlan, Activated>>
    BY <1>3 DEF BootPlan, Activated, start
  <2>2. QED BY <1>1, <1>3, <2>1 DEF BootInv, start
<1>4. CASE Environment
  <2>1. \/ UNCHANGED <<pc, start, state, virtual>>
        \/ pc' \in {"boot", "control"}
    BY <1>4 DEF Environment, Exits, Dies, SendSignal, Connect, SilentClientLeaves, Reply, Tick,
       PowerCycle, units, disk
  <2>2. QED BY <1>2, <1>3, <2>1
<1>5. CASE BootFails
  BY <1>2, <1>5 DEF BootFails
<1>6. CASE EventLoop
  <2>1. pc' \notin {"start", "oneshot"} \/ ret' # "poll"
    BY <1>6 DEF EventLoop, Poll, NextEvent, EventsDone, ReadSignal, SignalsDrained, Reap, ReapDone,
       FireDueRestarts, ExitCheck
  <2>2. QED BY <1>2, <2>1
<1>7. CASE Control
  <2>1. pc' \notin {"start", "oneshot"} \/ ret' # "poll"
    BY <1>7 DEF Control, HandleStart, HandleStop, BeginStop, DrainReap, Escalate, DrainDone, Stopped,
       EnableRefused, EnablePersist, EnableStart, HandleShutdown, ControlDone, StartNamed, Reply,
       Serving
  <2>2. QED BY <1>2, <2>1
<1>8. CASE UNCHANGED vars
  BY <1>3, <1>8 DEF vars, units, disk
<1>9. QED BY <1>1, <1>4, <1>5, <1>6, <1>7, <1>8, BootSteps DEF Next, System

\* In every behaviour the failures have reached all that was activated.
THEOREM BootInvariance == Spec => []BootInv
<1>1. Init => BootInv
  BY DEF Init, BootInv
<1>2. QED BY <1>1, NextBootInv, Invariance, PTL DEF Spec

\* Whatever the registry, the plan and the failures, one failed unit takes
\* down all that hard-depends on it and comes later in the plan
\* (activate_plan, failed_hard_dependency).
THEOREM BootFailureCorrect == Spec => []BootFailurePropagates
<1>1. IInv /\ BootInv => BootFailurePropagates
  <2>1. SUFFICES ASSUME IInv, BootInv, pc = "start", ret = "poll", todo = <<>>
                 PROVE  \A i, j \in DOMAIN BootPlan :
                          /\ i < j
                          /\ BootPlan[i] \in HardRequirementTargets(Reg, BootPlan[j])
                          /\ state[BootPlan[i]] = "Failed"
                          => state[BootPlan[j]] = "Failed"
    BY DEF BootFailurePropagates
  <2>2. Activated = Len(BootPlan) /\ DOMAIN BootPlan = 1 .. Activated
    BY <2>1, BootPlanTypes DEF Activated
  <2>3. QED BY <2>1, <2>2 DEF BootInv
<1>2. QED BY <1>1, BootInvariance, Invariance, PTL


------------------------------------------------------------------------------
\* The life of one unit

\* A oneshot has a process only while wait_oneshot waits for it, so that
\* neither the event loop nor stop_unit ever reaps one.
OneshotInv ==
  /\ \A p \in Pids : byPid[p] \in Oneshot => pc = "oneshot" /\ pid[Head(todo)] = p
  /\ pc = "oneshot" => state[Head(todo)] = "Activating"

\* The unit takes a step of its life, or none.
Led(u) == [Life(u)!Next]_(Life(u)!vars)

\* wait_oneshot takes the process of its oneshot off the table.
LEMMA OneshotOverIsLast ==
  ASSUME IInv, OneshotInv, NEW u \in Units, NEW final, pc = "oneshot", u = Head(todo),
         OneshotOver(u, final)
  PROVE  OneshotInv'
<1>1. byPid \in [Pids -> Service \cup {NoUnit}] /\ NoUnit \notin Oneshot
  BY NoUnitIsNone, SupervisorAssumption DEF IInv, TypeOK
<1>2. byPid' = [byPid EXCEPT ![pid[u]] = NoUnit] /\ pc' = "start"
  BY DEF OneshotOver
<1>3. \A p \in Pids : byPid'[p] \notin Oneshot
  BY <1>1, <1>2 DEF OneshotInv
<1>4. QED BY <1>2, <1>3 DEF OneshotInv

\* A process is spawned for a oneshot only to be waited for.
LEMMA SpawnIsWaitedFor ==
  ASSUME IInv, OneshotInv, NEW u \in Units, NEW p \in Pids,
         StartService(u, p) \/ StartOneshot(u, p)
  PROVE  OneshotInv'
<1>1. byPid \in [Pids -> Service \cup {NoUnit}] /\ state \in [Units -> States]
      /\ pid \in [Units -> Pids \cup {NoPid}]
  BY DEF IInv, TypeOK
<1>2. /\ pc = "start" /\ u = Head(todo)
      /\ byPid' = [byPid EXCEPT ![p] = u] /\ pid' = [pid EXCEPT ![u] = p]
  BY DEF StartService, StartOneshot, MayStart, Starting, Spawn
<1>3. \A q \in Pids : byPid[q] \notin Oneshot
  BY <1>2 DEF OneshotInv
<1>4. CASE StartService(u, p)
  <2>1. u \notin Oneshot /\ pc' = pc
    BY <1>4 DEF StartService
  <2>2. \A q \in Pids : byPid'[q] \notin Oneshot
    BY <1>1, <1>2, <1>3, <2>1
  <2>3. QED BY <1>2, <2>1, <2>2 DEF OneshotInv
<1>5. CASE StartOneshot(u, p)
  <2>1. /\ pc' = "oneshot" /\ todo' = todo
        /\ state' = [state EXCEPT ![u] = "Activating"]
    BY <1>5 DEF StartOneshot, start
  <2>2. \A q \in Pids : byPid'[q] \in Oneshot => q = p
    BY <1>1, <1>2, <1>3
  <2>3. pid'[u] = p /\ state'[u] = "Activating"
    BY <1>1, <1>2, <2>1
  <2>4. QED BY <1>2, <2>1, <2>2, <2>3 DEF OneshotInv
<1>6. QED BY <1>4, <1>5

\* Nobody else has to do with oneshots.
LEMMA NextOneshotInv == IInv /\ OneshotInv /\ [Next]_vars => OneshotInv'
<1>1. SUFFICES ASSUME IInv, OneshotInv, [Next]_vars PROVE OneshotInv'
  OBVIOUS
<1>2. ASSUME UNCHANGED <<pc, todo, byPid, pid, state>> PROVE OneshotInv'
  BY <1>1, <1>2 DEF OneshotInv
<1>3. ASSUME pc # "oneshot", pc' # "oneshot", \A p \in Pids : byPid'[p] = byPid[p] \/ byPid'[p] = NoUnit
      PROVE  OneshotInv'
  BY <1>1, <1>3, NoUnitIsNone, SupervisorAssumption DEF OneshotInv
<1>4. ASSUME pc # "oneshot", pc' # "oneshot", UNCHANGED byPid PROVE OneshotInv'
  BY <1>3, <1>4
<1>5. CASE Environment
  <2>1. CASE PowerCycle
    BY <2>1, NoUnitIsNone, SupervisorAssumption DEF PowerCycle, OneshotInv
  <2>2. CASE SilentClientLeaves
    BY <1>4, <2>2 DEF SilentClientLeaves, Serving, Reply, units
  <2>3. CASE ~PowerCycle /\ ~SilentClientLeaves
    BY <1>2, <1>5, <2>3 DEF Environment, Exits, Dies, SendSignal, Connect, Tick, units, start
  <2>4. QED BY <2>1, <2>2, <2>3
<1>6. CASE Boot \/ BootFails
  BY <1>4, <1>6 DEF Boot, BootFails, units
<1>7. CASE StartUnit
  <2>1. CASE \E u \in Units : OneshotExits(u) \/ OneshotTimesOut(u)
    <3>1. PICK u \in Units : pc = "oneshot" /\ u = Head(todo) /\ \E final \in States : OneshotOver(u, final)
      BY <2>1 DEF OneshotExits, OneshotTimesOut, States
    <3>2. QED BY <1>1, <3>1, OneshotOverIsLast
  <2>2. CASE \E u \in Units, p \in Pids : StartService(u, p) \/ StartOneshot(u, p)
    BY <1>1, <2>2, SpawnIsWaitedFor
  <2>3. CASE StartDone
    BY <1>1, <1>4, <2>3 DEF StartDone, units, IInv, TypeOK
  <2>4. CASE \E u \in Units : SkipActive(u) \/ RefuseStart(u) \/ StartTarget(u) \/ SpawnFails(u)
    BY <1>4, <2>4 DEF SkipActive, RefuseStart, StartTarget, SpawnFails, MayStart, Starting, units
  <2>5. QED BY <1>7, <2>1, <2>2, <2>3, <2>4 DEF StartUnit
<1>8. ASSUME NEW p \in Pids, OnChildExit(p), pc # "oneshot", pc' = pc PROVE OneshotInv'
  <2>1. byPid' = [byPid EXCEPT ![p] = NoUnit] /\ byPid \in [Pids -> Service \cup {NoUnit}]
    BY <1>1, <1>8 DEF OnChildExit, IInv, TypeOK
  <2>2. QED BY <1>3, <1>8, <2>1
<1>9. CASE EventLoop
  <2>1. CASE \E p \in Pids : Reap(p)
    BY <1>8, <2>1 DEF Reap
  <2>2. CASE ~\E p \in Pids : Reap(p)
    BY <1>4, <1>9, <2>2 DEF EventLoop, Poll, NextEvent, EventsDone, ReadSignal, SignalsDrained, ReapDone,
       FireDueRestarts, ExitCheck, units
  <2>3. QED BY <2>1, <2>2
<1>10. CASE Control
  <2>1. CASE \E p \in Pids : DrainReap(p)
    BY <1>8, <2>1 DEF DrainReap
  <2>2. CASE HandleStop
    BY <1>4, <2>2 DEF HandleStop, Serving, BeginStop, StopFails, Reply, units
  <2>3. CASE ~HandleStop /\ ~\E p \in Pids : DrainReap(p)
    BY <1>4, <1>10, <2>3 DEF Control, HandleStart, Escalate, DrainDone, Stopped, EnableRefused,
       EnablePersist, EnableStart, HandleShutdown, ControlDone, StartNamed, Reply, Serving, units
  <2>4. QED BY <2>1, <2>2, <2>3
<1>11. CASE UNCHANGED vars
  BY <1>2, <1>11 DEF vars, units, start
<1>12. QED BY <1>1, <1>5, <1>6, <1>7, <1>9, <1>10, <1>11 DEF Next, System

\* In every behaviour a oneshot has a process only while it is waited for.
LEMMA OneshotInvariance == Spec => []OneshotInv
<1>1. Init => OneshotInv
  BY NoUnitIsNone, SupervisorAssumption DEF Init, OneshotInv
<1>2. QED BY <1>1, NextOneshotInv, Invariance, PTL DEF Spec

\* Nothing the unit's life is about changes.
LEMMA Unmoved ==
  ASSUME NEW u \in Units, UNCHANGED <<state[u], RestartScheduled(u), GoingDown>>,
         pc \in {"drain", "stopped"} <=> pc' \in {"drain", "stopped"}
  PROVE  Led(u)
BY DEF Led, Life!vars

\* Outside a stop and wait_oneshot every unit has come to rest.
LEMMA AtRest ==
  ASSUME IInv, pc \notin {"oneshot", "drain"}, NEW u \in Units
  PROVE  state[u] \in {"Inactive", "Active", "Failed"}
BY DEF IInv, TypeOK, TransientStatesEnd, States

\* A unit is started, or cannot be.
LEMMA StartLed ==
  ASSUME IInv, NEW u \in Units, pc = "start", pc' \in {"start", "oneshot"},
         UNCHANGED <<pending, shuttingDown>>,
         state'[u] \in {"Failed", IF u \in Oneshot THEN "Activating" ELSE "Active"}
  PROVE  Led(u)
<1>1. UNCHANGED <<RestartScheduled(u), GoingDown>>
  BY DEF RestartScheduled, GoingDown
<1>2. state[u] \in {"Inactive", "Active", "Failed"}
  BY AtRest
<1>3. CASE state'[u] = "Failed"
  <2>1. Life(u)!StartFails
    BY <1>1, <1>2, <1>3 DEF Life!StartFails, Life!Settled
  <2>2. QED BY <2>1 DEF Led, Life!Next
<1>4. CASE state'[u] = IF u \in Oneshot THEN "Activating" ELSE "Active"
  <2>1. Life(u)!Start
    BY <1>1, <1>2, <1>4, SupervisorAssumption DEF Life!Start, Life!Settled
  <2>2. QED BY <2>1 DEF Led, Life!Next
<1>5. QED BY <1>3, <1>4

\* A oneshot ends, within wait_oneshot.
LEMMA OneshotLed ==
  ASSUME IInv, OneshotInv, NEW u \in Units, OneshotExits(u) \/ OneshotTimesOut(u), NEW v \in Units
  PROVE  Led(v)
<1>1. PICK final \in {"Failed", IF u \in Remain THEN "Active" ELSE "Inactive"} :
        /\ state' = [state EXCEPT ![u] = final]
        /\ UNCHANGED <<pending, shuttingDown>> /\ pc' = "start"
  BY DEF OneshotExits, OneshotTimesOut, OneshotOver
<1>2. pc = "oneshot" /\ u = Head(todo) /\ u \in Oneshot /\ state \in [Units -> States]
  BY DEF OneshotExits, OneshotTimesOut, IInv, ServingInv, TypeOK
<1>3. UNCHANGED <<RestartScheduled(v), GoingDown>>
  BY <1>1, <1>2 DEF RestartScheduled, GoingDown
<1>4. CASE v # u
  BY <1>1, <1>2, <1>3, <1>4 DEF Led, Life!vars
<1>5. CASE v = u
  <2>1. state[v] = "Activating" /\ state'[v] = final
    BY <1>1, <1>2, <1>5 DEF OneshotInv
  <2>2. Life(v)!OneshotEnds
    BY <1>1, <1>2, <1>3, <1>5, <2>1, SupervisorAssumption DEF Life!OneshotEnds
  <2>3. QED BY <2>2 DEF Led, Life!Next
<1>6. QED BY <1>4, <1>5

\* start_unit_internal makes each unit take a step of its life.
LEMMA StartUnitLed ==
  ASSUME IInv, OneshotInv, StartUnit, NEW v \in Units
  PROVE  Led(v)
<1>1. ASSUME UNCHANGED <<pending, shuttingDown>>, pc = "start", pc' \in {"start", "oneshot"},
             NEW u \in Units, NEW q, state' = [state EXCEPT ![u] = q],
             q \in {"Failed", IF u \in Oneshot THEN "Activating" ELSE "Active"}
      PROVE  Led(v)
  <2>1. state \in [Units -> States]
    BY DEF IInv, TypeOK
  <2>2. CASE v = u
    BY <1>1, <2>1, <2>2, StartLed
  <2>3. CASE v # u
    <3>1. UNCHANGED <<RestartScheduled(v), GoingDown, state[v]>>
      BY <1>1, <2>1, <2>3 DEF RestartScheduled, GoingDown
    <3>2. QED BY <1>1, <3>1 DEF Led, Life!vars
  <2>4. QED BY <2>2, <2>3
<1>2. CASE \E u \in Units : OneshotExits(u) \/ OneshotTimesOut(u)
  BY <1>2, OneshotLed
<1>3. CASE StartDone \/ \E u \in Units : SkipActive(u)
  <2>1. UNCHANGED <<state, pending, shuttingDown>> /\ pc = "start" /\ pc' \notin {"drain", "stopped"}
    BY <1>3 DEF StartDone, SkipActive, Starting, units, IInv, TypeOK
  <2>2. UNCHANGED <<RestartScheduled(v), GoingDown, state[v]>>
    BY <2>1 DEF RestartScheduled, GoingDown
  <2>3. QED BY <2>1, <2>2 DEF Led, Life!vars
<1>4. CASE \E u \in Units : RefuseStart(u) \/ SpawnFails(u)
  BY <1>1, <1>4 DEF RefuseStart, SpawnFails, MayStart, Starting
<1>5. CASE \E u \in Units : StartTarget(u)
  BY <1>1, <1>5, SupervisorAssumption DEF StartTarget, MayStart, Starting
<1>6. CASE \E u \in Units, p \in Pids : StartService(u, p)
  BY <1>1, <1>6 DEF StartService, MayStart, Starting
<1>7. CASE \E u \in Units, p \in Pids : StartOneshot(u, p)
  BY <1>1, <1>7 DEF StartOneshot, MayStart, Starting
<1>8. QED BY <1>2, <1>3, <1>4, <1>5, <1>6, <1>7 DEF StartUnit


\* Scheduling a restart of one unit leaves the others as they are.
LEMMA ScheduledAppend ==
  ASSUME IInv, NEW u \in Service, NEW v \in Units,
         pending' = Append(pending, [unit |-> u, left |-> RestartSec[u]])
  PROVE  /\ v = u => RestartScheduled(v)' = TRUE
         /\ v # u => RestartScheduled(v)' = RestartScheduled(v)
<1>1. pending \in Seq(Restart) /\ [unit |-> u, left |-> RestartSec[u]] \in Restart
  BY SupervisorAssumption DEF IInv, TypeOK, Restart
<1>2. DOMAIN pending' = 1 .. Len(pending) + 1 /\ DOMAIN pending = 1 .. Len(pending) /\ Len(pending) \in Nat
  BY <1>1
<1>3. \A i \in DOMAIN pending' :
        \/ i \in DOMAIN pending /\ pending'[i] = pending[i]
        \/ i = Len(pending) + 1 /\ pending'[i] = [unit |-> u, left |-> RestartSec[u]]
  BY <1>1, AppendEntries
<1>4. pending'[Len(pending) + 1].unit = u
  BY <1>2, <1>3
<1>5. \A i \in DOMAIN pending : pending'[i] = pending[i]
  BY <1>2, <1>3
<1>6. RestartScheduled(v)' <=> RestartScheduled(v) \/ v = u
  BY <1>2, <1>3, <1>4, <1>5 DEF RestartScheduled
<1>7. RestartScheduled(v) \in BOOLEAN /\ RestartScheduled(v)' \in BOOLEAN
  BY DEF RestartScheduled
<1>8. QED BY <1>6, <1>7

\* An exit nobody planned: the policy decides.
LEMMA CrashLed ==
  ASSUME IInv, OneshotInv, NEW p \in Pids, OnChildExit(p), pc = "reap", ~shuttingDown,
         UNCHANGED <<pc, shuttingDown>>, NEW u \in Units, u = byPid[p]
  PROVE  Led(u)
<1>0. PICK left \in {"Inactive", "Failed"} : left = IF proc[p] = "clean" THEN "Inactive" ELSE "Failed"
  OBVIOUS
<1>1. u \in Service /\ u \in Units /\ u # NoUnit /\ u \notin Oneshot
  BY ChildExit, NoUnitIsNone, SupervisorAssumption DEF OneshotInv
<1>2. state[u] \in {"Inactive", "Active", "Failed"} /\ state \in [Units -> States]
  BY <1>1, AtRest DEF IInv, TypeOK
<1>3. ~GoingDown /\ UNCHANGED GoingDown
  BY DEF GoingDown
<1>4. proc[p] \in Exited /\ Policy[u] \in Policies
  BY <1>1, SupervisorAssumption DEF OnChildExit
<1>5. CASE WantsRestart(u, proc[p])
  <2>1. ScheduleRestart(u, left)
    BY <1>0, <1>1, <1>5 DEF OnChildExit
  <2>2. /\ Policy[u] # "no"
        /\ Policy[u] # "always" => left = "Failed"
    BY <1>0, <1>5 DEF WantsRestart
  <2>3. \/ Burst[u] > 0 /\ state' = [state EXCEPT ![u] = "Failed"] /\ pending' = pending
        \/ /\ state' = [state EXCEPT ![u] = left]
           /\ pending' = Append(pending, [unit |-> u, left |-> RestartSec[u]])
    BY <2>1 DEF ScheduleRestart
  <2>4. CASE Burst[u] > 0 /\ state' = [state EXCEPT ![u] = "Failed"] /\ pending' = pending
    <3>1. state'[u] = "Failed" /\ UNCHANGED RestartScheduled(u)
      BY <1>1, <1>2, <2>4 DEF RestartScheduled
    <3>2. Life(u)!ExitGivesUp
      BY <1>1, <1>2, <1>3, <2>2, <2>4, <3>1 DEF Life!ExitGivesUp, Life!Crash, Life!Settled
    <3>3. QED BY <3>2 DEF Led, Life!Next
  <2>5. CASE /\ state' = [state EXCEPT ![u] = left]
             /\ pending' = Append(pending, [unit |-> u, left |-> RestartSec[u]])
    <3>1. state'[u] = left /\ RestartScheduled(u)' = TRUE
      BY <1>1, <1>2, <2>5, ScheduledAppend
    <3>2. Life(u)!Crash(left)
      BY <1>1, <1>2, <1>3, <3>1 DEF Life!Crash, Life!Settled
    <3>3. Life(u)!ExitRestarts
      BY <1>1, <2>2, <3>1, <3>2 DEF Life!ExitRestarts
    <3>4. QED BY <3>3 DEF Led, Life!Next
  <2>6. QED BY <2>3, <2>4, <2>5
<1>6. CASE ~WantsRestart(u, proc[p])
  <2>1. state' = [state EXCEPT ![u] = left] /\ pending' = pending
    BY <1>0, <1>1, <1>6 DEF OnChildExit
  <2>2. /\ Policy[u] # "always"
        /\ Policy[u] = "on-failure" => left = "Inactive"
    BY <1>0, <1>4, <1>6 DEF WantsRestart, Exited
  <2>3. state'[u] = left /\ UNCHANGED RestartScheduled(u)
    BY <1>1, <1>2, <2>1 DEF RestartScheduled
  <2>4. Life(u)!Crash(left)
    BY <1>1, <1>2, <1>3, <2>3 DEF Life!Crash, Life!Settled
  <2>5. Life(u)!ExitStays
    BY <1>1, <2>2, <2>3, <2>4 DEF Life!ExitStays
  <2>6. QED BY <2>5 DEF Led, Life!Next
<1>7. QED BY <1>5, <1>6

\* A process is reaped, by the loop or by the wait of stop_unit.
LEMMA ExitLed ==
  ASSUME IInv, OneshotInv, NEW p \in Pids, OnChildExit(p), pc \in {"reap", "drain"},
         UNCHANGED <<pc, shuttingDown, was>>, NEW v \in Units
  PROVE  Led(v)
<1> DEFINE u == byPid[p]
<1>1. /\ u \in Service /\ u \in Units /\ u \notin Oneshot
      /\ \E q \in {"Inactive", "Failed"} : state' = [state EXCEPT ![u] = q]
  BY ChildExit, SupervisorAssumption DEF OneshotInv
<1>2. state \in [Units -> States]
  BY DEF IInv, TypeOK
<1>3. UNCHANGED GoingDown
  BY DEF GoingDown
<1>4. /\ \/ pending' = pending
         \/ pending' = Append(pending, [unit |-> u, left |-> RestartSec[u]])
      /\ shuttingDown => pending' = pending /\ state' = [state EXCEPT ![u] = "Inactive"]
  BY ChildExit, ExitSchedules
<1>5. CASE v # u
  <2>1. state'[v] = state[v]
    BY <1>1, <1>2, <1>5
  <2>2. UNCHANGED RestartScheduled(v)
    <3>1. CASE pending' = pending
      BY <3>1 DEF RestartScheduled
    <3>2. CASE pending' = Append(pending, [unit |-> u, left |-> RestartSec[u]])
      BY <1>1, <1>5, <3>2, ScheduledAppend
    <3>3. QED BY <1>4, <3>1, <3>2
  <2>3. QED BY <1>3, <2>1, <2>2, Unmoved
<1>6. CASE v = u /\ ~shuttingDown
  <2>1. pc = "reap"
    BY <1>6 DEF IInv, StopInv
  <2>2. QED BY <1>6, <2>1, CrashLed
<1>7. CASE v = u /\ shuttingDown
  <2>1. state'[v] = "Inactive" /\ UNCHANGED RestartScheduled(v)
    BY <1>1, <1>2, <1>4, <1>7 DEF RestartScheduled
  <2>2. state[v] # "Activating"
    BY DEF IInv, TransientStatesEnd
  <2>3. pc \in {"drain", "stopped"} \/ GoingDown
    BY <1>7 DEF GoingDown
  <2>4. Life(v)!ExitPlanned
    BY <1>1, <1>3, <1>7, <2>1, <2>2, <2>3 DEF Life!ExitPlanned
  <2>5. QED BY <2>4 DEF Led, Life!Next
<1>8. QED BY <1>5, <1>6, <1>7


\* Of the restarts kept, those of a unit are the ones it had at the positions
\* kept.
LEMMA ScheduledSelect ==
  ASSUME NEW T \in SUBSET DOMAIN pending, NEW f \in Ascending(T), pending' = Select(pending, f), NEW v
  PROVE  /\ RestartScheduled(v)' <=> \E i \in T : pending[i].unit = v
         /\ RestartScheduled(v) \in BOOLEAN /\ RestartScheduled(v)' \in BOOLEAN
<1>1. /\ DOMAIN pending' = DOMAIN f
      /\ \A i \in DOMAIN f : f[i] \in T /\ pending'[i] = pending[f[i]]
      /\ \A x \in T : \E i \in DOMAIN f : f[i] = x
  BY DEF Select, Ascending
<1>2. RestartScheduled(v)' <=> \E i \in T : pending[i].unit = v
  BY <1>1 DEF RestartScheduled
<1>3. RestartScheduled(v) \in BOOLEAN /\ RestartScheduled(v)' \in BOOLEAN
  BY DEF RestartScheduled
<1>4. QED BY <1>2, <1>3

\* The timer takes due restarts off the list.
LEMMA FireLed ==
  ASSUME IInv, FireDueRestarts, NEW v \in Units
  PROVE  Led(v)
<1>1. PICK rest \in Ascending(DOMAIN pending \ Due) : pending' = Select(pending, rest)
  BY DEF FireDueRestarts, Select
<1>2. /\ pc = "fire" /\ pc' = "start" /\ UNCHANGED <<state, GoingDown>>
  BY DEF FireDueRestarts, GoingDown
<1>3. DOMAIN pending \ Due \in SUBSET DOMAIN pending
  OBVIOUS
<1>4. /\ RestartScheduled(v)' => RestartScheduled(v)
      /\ RestartScheduled(v) \in BOOLEAN /\ RestartScheduled(v)' \in BOOLEAN
  <2> HIDE DEF Due
  <2>1. /\ RestartScheduled(v)' <=> \E i \in DOMAIN pending \ Due : pending[i].unit = v
        /\ RestartScheduled(v) \in BOOLEAN /\ RestartScheduled(v)' \in BOOLEAN
    BY <1>1, <1>3, ScheduledSelect
  <2>2. QED BY <2>1 DEF RestartScheduled
<1>5. CASE RestartScheduled(v)' = RestartScheduled(v)
  BY <1>2, <1>5, Unmoved
<1>6. CASE RestartScheduled(v)' # RestartScheduled(v)
  <2>1. RestartScheduled(v) /\ RestartScheduled(v)' = FALSE
    BY <1>4, <1>6
  <2>2. ~GoingDown
    BY <2>1 DEF IInv, NoRestartDuringShutdown, RestartScheduled
  <2>3. state[v] \in {"Inactive", "Active", "Failed"}
    BY <1>2, AtRest
  <2>4. Life(v)!Fire
    BY <1>2, <2>1, <2>2, <2>3 DEF Life!Fire, Life!Settled
  <2>5. QED BY <2>4 DEF Led, Life!Next
<1>7. QED BY <1>5, <1>6

\* stop_unit begins: a unit of its plan has no restart scheduled any more.
LEMMA BeginStopLed ==
  ASSUME IInv, OneshotInv, pc = "control", NEW plan \in Seq(Units), BeginStop(plan), NEW v \in Units
  PROVE  Led(v)
<1> DEFINE planned == Elements(plan)
           kept    == {i \in DOMAIN pending : pending[i].unit \notin planned}
<1>1. PICK f \in Ascending(kept) : pending' = Select(pending, f)
  BY DEF BeginStop, Select
<1>2. /\ state' = [u \in Units |-> IF u \notin planned THEN state[u]
                                   ELSE IF pid[u] = NoPid THEN "Inactive" ELSE "Deactivating"]
      /\ was' = shuttingDown
      /\ pc' \in {"stopped", "drain"}
  BY DEF BeginStop
<1>3. UNCHANGED GoingDown
  BY <1>2 DEF GoingDown
<1>4. state[v] \in {"Inactive", "Active", "Failed"}
  BY AtRest
<1>5. /\ RestartScheduled(v)' <=> RestartScheduled(v) /\ v \notin planned
      /\ RestartScheduled(v) \in BOOLEAN /\ RestartScheduled(v)' \in BOOLEAN
  <2>1. kept \in SUBSET DOMAIN pending
    OBVIOUS
  <2>2. /\ RestartScheduled(v)' <=> \E i \in kept : pending[i].unit = v
        /\ RestartScheduled(v) \in BOOLEAN /\ RestartScheduled(v)' \in BOOLEAN
    <3> HIDE DEF kept
    <3>1. QED BY <1>1, <2>1, ScheduledSelect
  <2>3. QED BY <2>2 DEF RestartScheduled
<1> HIDE DEF planned, kept
<1>6. CASE v \notin planned
  <2>1. state'[v] = state[v] /\ RestartScheduled(v)' = RestartScheduled(v)
    BY <1>2, <1>5, <1>6
  <2>2. Life(v)!BeginStop
    BY <1>2, <1>3, <1>4, <2>1 DEF Life!BeginStop, Life!Settled
  <2>3. QED BY <2>2 DEF Led, Life!Next
<1>7. CASE v \in planned
  <2>1. RestartScheduled(v)' = FALSE
    BY <1>5, <1>7
  <2>2. state'[v] = "Inactive" \/ (state'[v] = "Deactivating" /\ pid[v] # NoPid)
    BY <1>2, <1>7
  <2>3. pid[v] # NoPid => v \in Service /\ v \notin Oneshot
    <3>1. SUFFICES ASSUME pid[v] # NoPid PROVE v \in Service /\ v \notin Oneshot
      OBVIOUS
    <3>2. pid[v] \in Pids /\ byPid[pid[v]] = v
      BY <3>1 DEF IInv, TypeOK, PidTablesNameOwnChildren
    <3>3. QED BY <3>2, NoUnitIsNone DEF IInv, TypeOK, OneshotInv
  <2>4. Life(v)!BeginStop
    BY <1>2, <1>3, <1>4, <2>1, <2>2, <2>3 DEF Life!BeginStop, Life!Settled
  <2>5. QED BY <2>4 DEF Led, Life!Next
<1>8. QED BY <1>6, <1>7

\* stop_unit returns, with every unit at rest.
LEMMA StoppedLed ==
  ASSUME IInv, Stopped, NEW v \in Units
  PROVE  Led(v)
<1>1. pc = "stopped" /\ pc' \in {"start", "control"} /\ UNCHANGED <<state, pending>> /\ shuttingDown' = was
  BY DEF Stopped, StartNamed, Reply, units
<1>2. UNCHANGED <<GoingDown, RestartScheduled(v)>>
  BY <1>1 DEF GoingDown, RestartScheduled
<1>3. state[v] \in {"Inactive", "Active", "Failed"}
  BY <1>1, AtRest
<1>4. Life(v)!EndStop
  BY <1>1, <1>2, <1>3 DEF Life!EndStop, Life!Settled
<1>5. QED BY <1>4 DEF Led, Life!Next

\* initiate_shutdown drops the restarts, once.
LEMMA ShutdownLed ==
  ASSUME IInv, InitiateShutdown, UNCHANGED state, NEW v \in Units,
         pc \notin {"drain", "stopped"}, pc' \notin {"drain", "stopped"}
  PROVE  Led(v)
<1>1. CASE shuttingDown
  <2>1. UNCHANGED <<GoingDown, RestartScheduled(v), state[v]>>
    BY <1>1 DEF InitiateShutdown, GoingDown, RestartScheduled
  <2>2. QED BY <2>1, Unmoved
<1>2. CASE ~shuttingDown
  <2>1. ~GoingDown /\ GoingDown' = TRUE
    BY <1>2 DEF InitiateShutdown, GoingDown
  <2>2. RestartScheduled(v)' = FALSE
    BY <1>2 DEF InitiateShutdown, RestartScheduled
  <2>3. Life(v)!Shutdown
    BY <2>1, <2>2 DEF Life!Shutdown
  <2>4. QED BY <2>3 DEF Led, Life!Next
<1>3. QED BY <1>1, <1>2

\* Only the disk survives.
LEMMA PowerCycleLed ==
  ASSUME PowerCycle, NEW v \in Units
  PROVE  Led(v)
<1>1. /\ state'[v] = "Inactive" /\ RestartScheduled(v)' = FALSE
      /\ pc' = "boot" /\ GoingDown' = FALSE
  BY DEF PowerCycle, RestartScheduled, GoingDown
<1>2. Life(v)!PowerCycle
  BY <1>1 DEF Life!PowerCycle
<1>3. QED BY <1>2 DEF Led, Life!Next


\* Time passes: a restart stays scheduled until it is taken.
LEMMA TickLed ==
  ASSUME IInv, Tick, NEW v \in Units
  PROVE  Led(v)
<1>1. /\ pending' = [i \in DOMAIN pending |-> [pending[i] EXCEPT !.left = Sooner(@)]]
      /\ UNCHANGED <<state, pc, shuttingDown, was>>
  BY DEF Tick, stop
<1>2. \A i \in DOMAIN pending : pending[i] \in Restart
  BY DEF IInv, TypeOK
<1>3. \A i \in DOMAIN pending : pending'[i].unit = pending[i].unit
  BY <1>1, <1>2 DEF Restart
<1>4. DOMAIN pending' = DOMAIN pending
  BY <1>1
<1>5. UNCHANGED <<GoingDown, RestartScheduled(v)>>
  BY <1>1, <1>3, <1>4 DEF GoingDown, RestartScheduled
<1>6. QED BY <1>1, <1>5, Unmoved

\* Every step of the supervisor is a step of each unit's life, or none.
LEMMA NextLed ==
  ASSUME IInv, OneshotInv, [Next]_vars, NEW v \in Units
  PROVE  Led(v)
<1> USE DEF units, stop
<1>1. ASSUME UNCHANGED <<state, pending, shuttingDown, was>>,
             pc \in {"drain", "stopped"} <=> pc' \in {"drain", "stopped"}
      PROVE  Led(v)
  <2>1. UNCHANGED <<GoingDown, RestartScheduled(v), state[v]>>
    BY <1>1 DEF GoingDown, RestartScheduled
  <2>2. QED BY <1>1, <2>1, Unmoved
<1>2. CASE Environment
  <2>1. CASE ~PowerCycle /\ ~Tick
    BY <1>1, <1>2, <2>1 DEF Environment, Exits, Dies, SendSignal, Connect, SilentClientLeaves,
       Serving, Reply
  <2>2. QED BY <1>2, <2>1, PowerCycleLed, TickLed DEF Environment
<1>3. CASE Boot \/ BootFails
  BY <1>1, <1>3 DEF Boot, BootFails
<1>4. CASE EventLoop
  <2>1. CASE \E p \in Pids : Reap(p)
    BY <2>1, ExitLed DEF Reap
  <2>2. CASE \E s \in {"CHLD", "TERM", "HUP"} : ReadSignal(s)
    <3>1. /\ pc = "signals" /\ pc' \in {"signals", "reap"} /\ UNCHANGED <<state, was>>
          /\ InitiateShutdown \/ UNCHANGED <<shuttingDown, pending>>
      BY <2>2 DEF ReadSignal
    <3>2. QED BY <1>1, <3>1, ShutdownLed
  <2>3. CASE Poll \/ EventsDone \/ SignalsDrained \/ ReapDone \/ ExitCheck
             \/ \E e \in {"signals", "control"} : NextEvent(e)
    BY <1>1, <2>3 DEF Poll, NextEvent, EventsDone, SignalsDrained, ReapDone, ExitCheck
  <2>4. QED BY <1>4, <2>1, <2>2, <2>3, FireLed DEF EventLoop
<1>5. CASE Control
  <2>1. CASE HandleStop
    <3>1. pc = "control" /\ conns # <<>> /\ (BeginStop(StopPlan(virtual, Requested).units) \/ (Reply /\ StopFails))
      BY <2>1 DEF HandleStop, Serving
    <3>2. StopPlan(virtual, Requested).units \in Seq(Units)
      BY <3>1, RequestTypes, PlanTypes DEF IInv, TypeOK
    <3>3. CASE BeginStop(StopPlan(virtual, Requested).units)
      BY <3>1, <3>2, <3>3, BeginStopLed
    <3>4. CASE Reply /\ StopFails
      BY <1>1, <3>1, <3>4 DEF Reply, StopFails
    <3>5. QED BY <3>1, <3>3, <3>4
  <2>2. CASE \E p \in Pids : DrainReap(p)
    BY <2>2, ExitLed DEF DrainReap
  <2>3. CASE ControlDone
    <3>1. /\ pc = "control" /\ pc' = "events" /\ UNCHANGED <<state, was>>
          /\ InitiateShutdown \/ UNCHANGED <<shuttingDown, pending>>
      BY <2>3 DEF ControlDone
    <3>2. QED BY <1>1, <3>1, ShutdownLed
  <2>4. CASE Escalate \/ DrainDone \/ HandleShutdown \/ EnableRefused \/ EnablePersist
    BY <1>1, <2>4 DEF Escalate, DrainDone, HandleShutdown, EnableRefused, EnablePersist, Serving, Reply
  <2>5. CASE HandleStart \/ EnableStart
    BY <1>1, <2>5 DEF HandleStart, EnableStart, StartNamed, Serving, Reply
  <2>6. QED BY <1>5, <2>1, <2>2, <2>3, <2>4, <2>5, StoppedLed DEF Control
<1>6. CASE UNCHANGED vars
  BY <1>1, <1>6 DEF vars
<1>7. QED BY <1>2, <1>3, <1>4, <1>5, <1>6, StartUnitLed DEF Next, System

\* A unit begins its life with the supervisor.
LEMMA InitLed ==
  ASSUME Init, NEW v \in Units
  PROVE  Life(v)!Init
<1>1. RestartScheduled(v) = FALSE /\ GoingDown = FALSE /\ state[v] = "Inactive" /\ pc = "boot"
  BY DEF Init, RestartScheduled, GoingDown
<1>2. QED BY <1>1 DEF Life!Init

\* Each unit of every supervisor leads the life UnitLife describes: the
\* supervisor, with its tables, plans, timers, clients and signals, implements
\* the life of each unit (start_unit_internal, on_child_exit,
\* maybe_schedule_restart, fire_due_restarts, stop_unit, initiate_shutdown).
THEOREM LifeImplemented ==
  ASSUME NEW u \in Units
  PROVE  Spec => Life(u)!Spec
<1>1. Init => Life(u)!Init
  BY InitLed
<1>2. IInv /\ OneshotInv /\ [Next]_vars => [Life(u)!Next]_(Life(u)!vars)
  BY NextLed DEF Led
<1>3. QED BY <1>1, <1>2, Invariance, OneshotInvariance, PTL DEF Spec, Life!Spec

\* All units at once: no exit, request, signal or timer makes one of them take
\* a step UnitLife does not allow.
THEOREM LivesCorrect == Spec => UnitsLive
<1>1. Init => \A u \in Units : Life(u)!Init
  BY InitLed
<1>2. IInv /\ OneshotInv /\ [Next]_vars => [\A u \in Units : [Life(u)!Next]_(Life(u)!vars)]_vars
  BY NextLed DEF Led
<1>3. QED BY <1>1, <1>2, Invariance, OneshotInvariance, PTL DEF Spec, UnitsLive

==============================================================================
