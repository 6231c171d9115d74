--------------------------- MODULE SupervisorProofs ---------------------------
(***************************************************************************)
(* For every registry, every set of services and pids and every history of *)
(* requests, signals, exits and power cycles: the types of Supervisor, and *)
(* the invariants on its tables that no test of a single handler reaches.  *)
(***************************************************************************)
EXTENDS Supervisor, FiniteSetTheorems, TLAPS

\* The request being served is still there, and so is the oneshot waited for.
ServingInv ==
  /\ pc \in {"drain", "stopped", "enable"} => conns # <<>>
  /\ pc \in {"start", "oneshot"} /\ ret = "control" => conns # <<>>
  /\ pc = "enable" => Requested \in Units \cap stubs
  /\ pc = "oneshot" => todo # <<>> /\ Head(todo) \in Oneshot /\ pid[Head(todo)] # NoPid

\* stop_unit waits for processes only in its loop, and shutting_down is set
\* until it returns.
StopInv ==
  /\ pc # "drain" => expected = {}
  /\ pc \in {"drain", "stopped"} => shuttingDown

\* The inductive invariant.
IInv ==
  /\ TypeOK
  /\ ServingInv
  /\ StopInv
  /\ PidTablesNameOwnChildren
  /\ TransientStatesEnd
  /\ ActiveServiceHasProcess
  /\ NoRestartDuringShutdown

\* The variables the invariant is about, beyond those TypeOK and ServingInv
\* speak of.
tables == <<units, shuttingDown, proc, stop>>

------------------------------------------------------------------------------
\* No unit is NoUnit.
LEMMA NoUnitIsNone == NoUnit \notin Units /\ NoUnit \notin Service
BY UnitsAssumption, SupervisorAssumption DEF NoUnit

\* A table keeps its type when one entry is replaced.
LEMMA Override ==
  ASSUME NEW S, NEW V, NEW f \in [S -> V], NEW x \in S, NEW v \in V
  PROVE  [f EXCEPT ![x] = v] \in [S -> V]
OBVIOUS

\* So does a list when something is pushed,
LEMMA Pushed ==
  ASSUME NEW S, NEW s \in Seq(S), NEW x \in S
  PROVE  Append(s, x) \in Seq(S)
OBVIOUS

\* or its first entry taken.
LEMMA Popped ==
  ASSUME NEW S, NEW s \in Seq(S), s # <<>>
  PROVE  Head(s) \in S /\ Tail(s) \in Seq(S)
OBVIOUS

\* A list changed entry by entry stays a list.
LEMMA Entrywise ==
  ASSUME NEW X, NEW Y, NEW s \in Seq(X), NEW t \in [DOMAIN s -> Y]
  PROVE  t \in Seq(Y)
<1>1. DOMAIN s = 1 .. Len(s) /\ Len(s) \in Nat
  OBVIOUS
<1>2. QED BY <1>1

\* The entries of a list at some positions.
Select(s, f) == [i \in DOMAIN f |-> s[f[i]]]

\* Keeping some positions of a list, in order, gives a list of the same kind.
LEMMA Selection ==
  ASSUME NEW X, NEW s \in Seq(X), NEW T \in SUBSET DOMAIN s, NEW f \in Ascending(T)
  PROVE  Select(s, f) \in Seq(X) /\ (s = <<>> => Select(s, f) = <<>>)
<1>1. IsFiniteSet(DOMAIN s)
  <2>1. DOMAIN s = 1 .. Len(s) /\ 1 \in Int /\ Len(s) \in Int
    OBVIOUS
  <2>2. QED BY <2>1, FS_Interval
<1>2. IsFiniteSet(T) /\ Cardinality(T) \in Nat
  BY <1>1, FS_Subset, FS_CardinalityType
<1>3. f \in [1 .. Cardinality(T) -> T]
  BY DEF Ascending
<1>4. \A i \in 1 .. Cardinality(T) : s[f[i]] \in X
  BY <1>3
<1>5. Select(s, f) \in Seq(X)
  BY <1>2, <1>3, <1>4 DEF Select
<1>6. ASSUME s = <<>> PROVE Select(s, f) = <<>>
  <2>1. T = {}
    BY <1>6
  <2>2. Cardinality(T) = 0
    BY <2>1, FS_EmptySet
  <2>3. QED BY <1>3, <1>5, <2>2 DEF Select
<1>7. QED BY <1>5, <1>6

\* SIGTERM changes no table entry from free to taken or back.
LEMMA TerminatedKeeps ==
  ASSUME TypeOK, NEW P
  PROVE  /\ Terminated(P) \in [Pids -> Exited \cup Alive \cup {"free"}]
         /\ \A p \in Pids : Terminated(P)[p] = "free" <=> proc[p] = "free"
BY DEF TypeOK, Terminated, Exited, Alive

\* What is left of a process after waitpid: its unit, and only that, has lost
\* its pid and is Inactive or Failed; during a stop or a shutdown nothing is
\* scheduled.
LEMMA ChildExit ==
  ASSUME IInv, NEW p \in Pids, OnChildExit(p)
  PROVE  /\ proc[p] # "free" /\ byPid[p] \in Service
         /\ proc' = [proc EXCEPT ![p] = "free"]
         /\ byPid' = [byPid EXCEPT ![p] = NoUnit]
         /\ pid' = [pid EXCEPT ![byPid[p]] = NoPid]
         /\ \E q \in {"Inactive", "Failed"} : state' = [state EXCEPT ![byPid[p]] = q]
         /\ history' \in [Service -> Seq(Nat)]
         /\ pending' \in Seq(Restart)
         /\ shuttingDown => pending' = pending
<1> DEFINE u == byPid[p]
           left == IF shuttingDown \/ proc[p] = "clean" THEN "Inactive" ELSE "Failed"
<1>1. /\ TypeOK /\ PidTablesNameOwnChildren
  BY DEF IInv
<1>2. proc[p] # "free" /\ u \in Service /\ u # NoUnit
  BY <1>1, NoUnitIsNone DEF OnChildExit, TypeOK, PidTablesNameOwnChildren, Exited
<1>3. /\ proc' = [proc EXCEPT ![p] = "free"]
      /\ byPid' = [byPid EXCEPT ![p] = NoUnit]
      /\ pid' = [pid EXCEPT ![u] = NoPid]
  BY <1>2 DEF OnChildExit
<1>4. CASE ~shuttingDown /\ WantsRestart(u, proc[p])
  <2>1. ScheduleRestart(u, left)
    BY <1>2, <1>4 DEF OnChildExit
  <2>2. PICK f \in Ascending(Recent(u)) :
          LET recent == [i \in DOMAIN f |-> history[u][f[i]]]
          IN  IF Burst[u] > 0 /\ Len(recent) >= Burst[u]
              THEN /\ state' = [state EXCEPT ![u] = "Failed"]
                   /\ history' = [history EXCEPT ![u] = recent]
                   /\ UNCHANGED pending
              ELSE /\ state' = [state EXCEPT ![u] = left]
                   /\ history' = [history EXCEPT ![u] = Append(recent, 0)]
                   /\ pending' = Append(pending, [unit |-> u, left |-> RestartSec[u]])
    BY <2>1 DEF ScheduleRestart
  <2> DEFINE recent == [i \in DOMAIN f |-> history[u][f[i]]]
  <2>3. recent \in Seq(Nat)
    <3>1. history[u] \in Seq(Nat) /\ Recent(u) \in SUBSET DOMAIN history[u]
      BY <1>1, <1>2 DEF TypeOK, Recent
    <3>2. Select(history[u], f) \in Seq(Nat)
      BY <3>1, Selection
    <3>3. QED BY <3>2 DEF Select
  <2> HIDE DEF recent, u, left
  <2>4. Append(recent, 0) \in Seq(Nat)
    BY <2>3
  <2>5. [unit |-> u, left |-> RestartSec[u]] \in Restart
    BY <1>2, SupervisorAssumption DEF Restart
  <2>6. history \in [Service -> Seq(Nat)] /\ pending \in Seq(Restart)
    BY <1>1 DEF TypeOK
  <2>7. CASE /\ state' = [state EXCEPT ![u] = "Failed"]
             /\ history' = [history EXCEPT ![u] = recent]
             /\ UNCHANGED pending
    <3>1. history' \in [Service -> Seq(Nat)]
      BY <1>2, <2>3, <2>6, <2>7, Override, Zenon
    <3>2. QED BY <1>2, <1>3, <1>4, <2>6, <2>7, <3>1 DEF u
  <2>8. CASE /\ state' = [state EXCEPT ![u] = left]
             /\ history' = [history EXCEPT ![u] = Append(recent, 0)]
             /\ pending' = Append(pending, [unit |-> u, left |-> RestartSec[u]])
    <3>1. history' \in [Service -> Seq(Nat)]
      BY <1>2, <2>4, <2>6, <2>8, Override, Zenon
    <3>2. pending' \in Seq(Restart)
      BY <2>5, <2>6, <2>8, Pushed, Zenon
    <3>3. QED BY <1>2, <1>3, <1>4, <2>8, <3>1, <3>2 DEF u, left
  <2>9. QED BY <2>2, <2>7, <2>8 DEF recent
<1>5. CASE ~(~shuttingDown /\ WantsRestart(u, proc[p]))
  <2>1. state' = [state EXCEPT ![u] = left] /\ UNCHANGED <<history, pending>>
    BY <1>2, <1>5 DEF OnChildExit
  <2>2. QED BY <1>1, <1>2, <1>3, <2>1 DEF TypeOK
<1>6. QED BY <1>4, <1>5

\* A step that changes no table, outside the waits of stop_unit and
\* wait_oneshot, can only break the types and what is being served.
LEMMA Frame ==
  ASSUME IInv, UNCHANGED tables,
         pc \notin {"oneshot", "drain", "stopped"}, pc' \notin {"drain", "stopped"},
         TypeOK', ServingInv'
  PROVE  IInv'
BY DEF IInv, tables, units, stop, StopInv, PidTablesNameOwnChildren, TransientStatesEnd,
       ActiveServiceHasProcess, NoRestartDuringShutdown, GoingDown

\* The same when the supervisor itself does not move.
LEMMA SameFrame ==
  ASSUME IInv, UNCHANGED <<tables, pc, todo>>, TypeOK', ServingInv'
  PROVE  IInv'
BY DEF IInv, tables, units, stop, StopInv, PidTablesNameOwnChildren, TransientStatesEnd,
       ActiveServiceHasProcess, NoRestartDuringShutdown, GoingDown

\* A plan is a list of units, for whatever is enabled and asked for.
LEMMA PlanTypes ==
  ASSUME NEW e \in SUBSET Units, NEW n \in Names
  PROVE  /\ StartPlan(e, n).units \in Seq(Units) /\ StartPlan(e, n).ok \in BOOLEAN
         /\ StopPlan(e, n).units \in Seq(Units) /\ StopPlan(e, n).ok \in BOOLEAN
<1>1. StartPlan(e, n) \in Plans /\ StopPlan(e, n) \in Plans
  BY SupervisorAssumption
<1>2. QED BY <1>1 DEF Plans

\* A request being served names something.
LEMMA RequestTypes ==
  ASSUME TypeOK, conns # <<>>
  PROVE  Requested \in Names /\ Tail(conns) \in Seq(Requests)
<1>1. Head(conns) \in Requests /\ Tail(conns) \in Seq(Requests)
  BY DEF TypeOK
<1>2. Head(conns) \in [cmd : Commands, unit : Names, gone : BOOLEAN]
  BY <1>1, SupervisorAssumption
<1>3. QED BY <1>1, <1>2 DEF Requested

\* start_named leaves a list of units to start, or a reply.
LEMMA StartNamedTypes ==
  ASSUME TypeOK, conns # <<>>, NEW e \in SUBSET Units, StartNamed(e, Requested)
  PROVE  /\ todo' \in Seq(Units) /\ skip' \in BOOLEAN /\ ret' \in {"poll", "control", "exit"}
         /\ conns' \in Seq(Requests)
         /\ pc' \in {"start", "control"}
         /\ pc' = "start" => conns' # <<>>
<1>1. StartPlan(e, Requested).units \in Seq(Units)
  BY RequestTypes, PlanTypes
<1>2. CASE StartPlan(e, Requested).ok
  BY <1>1, <1>2 DEF StartNamed, TypeOK
<1>3. CASE ~StartPlan(e, Requested).ok
  BY <1>3, RequestTypes DEF StartNamed, Reply, start, TypeOK
<1>4. QED BY <1>2, <1>3

\* A shutdown drops the restarts and takes no process off the table.
LEMMA ShutdownKeeps ==
  ASSUME IInv, pc \notin {"drain", "stopped"}, InitiateShutdown
  PROVE  /\ shuttingDown' = TRUE
         /\ pending' = <<>>
         /\ proc' \in [Pids -> Exited \cup Alive \cup {"free"}]
         /\ \A p \in Pids : proc'[p] = "free" <=> proc[p] = "free"
<1>1. TypeOK /\ NoRestartDuringShutdown
  BY DEF IInv
<1>2. CASE shuttingDown
  BY <1>1, <1>2 DEF InitiateShutdown, TypeOK, NoRestartDuringShutdown, GoingDown
<1>3. CASE ~shuttingDown
  BY <1>1, <1>3, TerminatedKeeps DEF InitiateShutdown
<1>4. QED BY <1>2, <1>3

\* The wait of stop_unit begins with nothing transient but what it caused.
LEMMA BeginStopStep ==
  ASSUME IInv, pc = "control", conns # <<>>, NEW plan \in Seq(Units), BeginStop(plan),
         UNCHANGED <<disk, sigs, evs, shutReq, start, bounds>>
  PROVE  IInv'
<1> DEFINE planned == Elements(plan)
           victims == {pid[u] : u \in planned} \ {NoPid}
           kept    == {i \in DOMAIN pending : pending[i].unit \notin planned}
<1>1. TypeOK /\ StopInv /\ PidTablesNameOwnChildren
  BY DEF IInv
<1>2. planned \subseteq Units
  BY DEF Elements
<1>3. victims \subseteq Pids
  BY <1>1, <1>2 DEF TypeOK
<1> HIDE DEF planned
<1>4. PICK f \in Ascending(kept) : pending' = Select(pending, f)
  BY DEF BeginStop, planned, Select
<1>5. pending' \in Seq(Restart) /\ (pending = <<>> => pending' = <<>>)
  <2>1. pending \in Seq(Restart) /\ kept \in SUBSET DOMAIN pending
    BY <1>1 DEF TypeOK
  <2> HIDE DEF kept
  <2>2. QED BY <1>4, <2>1, Selection
<1>6. /\ was' = shuttingDown /\ shuttingDown' = TRUE /\ escalated' = FALSE
      /\ state' = [u \in Units |-> IF u \notin planned THEN state[u]
                                   ELSE IF pid[u] = NoPid THEN "Inactive" ELSE "Deactivating"]
      /\ proc' = Terminated(victims)
      /\ expected' = victims
      /\ pc' = IF victims = {} THEN "stopped" ELSE "drain"
      /\ UNCHANGED <<pid, history, byPid, conns>>
  BY DEF BeginStop, planned, Victims
<1>7. budget' \in Nat
  <2>1. Graces(plan) \subseteq Nat
    BY SupervisorAssumption DEF Graces
  <2>2. PICK grace \in Graces(plan) : budget' = grace + 1
    BY DEF BeginStop, GraceBegins
  <2>3. QED BY <2>1, <2>2
<1>8. /\ proc' \in [Pids -> Exited \cup Alive \cup {"free"}]
      /\ \A p \in Pids : proc'[p] = "free" <=> proc[p] = "free"
  BY <1>1, <1>6, TerminatedKeeps
<1>9. TypeOK'
  <2>1. state' \in [Units -> States]
    BY <1>1, <1>6 DEF TypeOK, States
  <2>2. expected' \in SUBSET Pids /\ pc' \in {"stopped", "drain"}
    BY <1>3, <1>6
  <2> HIDE DEF victims
  <2>3. QED BY <1>1, <1>5, <1>6, <1>7, <1>8, <2>1, <2>2 DEF TypeOK, disk, start, bounds
<1>10. ServingInv'
  BY <1>6 DEF ServingInv
<1>11. StopInv'
  BY <1>6 DEF StopInv
<1>12. PidTablesNameOwnChildren'
  <2>1. \A p \in victims : proc[p] # "free"
    BY <1>1, <1>2, <1>3, NoUnitIsNone DEF TypeOK, PidTablesNameOwnChildren
  <2>2. QED BY <1>1, <1>3, <1>6, <1>8, <2>1 DEF PidTablesNameOwnChildren
<1>13. TransientStatesEnd'
  <2>1. \A u \in Units : state[u] \notin {"Activating", "Deactivating"}
    BY DEF IInv, TransientStatesEnd
  <2>2. \A u \in planned : pid[u] # NoPid => pid[u] \in victims
    OBVIOUS
  <2>3. QED BY <1>6, <2>1, <2>2 DEF TransientStatesEnd
<1>14. ActiveServiceHasProcess'
  BY <1>6, SupervisorAssumption DEF IInv, ActiveServiceHasProcess
<1>15. NoRestartDuringShutdown'
  BY <1>5, <1>6 DEF IInv, NoRestartDuringShutdown, GoingDown
<1>16. QED BY <1>9, <1>10, <1>11, <1>12, <1>13, <1>14, <1>15 DEF IInv

------------------------------------------------------------------------------
\* A child that exits stays on the table until it is reaped.
LEMMA ExitsStep ==
  ASSUME IInv, NEW p \in Pids, NEW how \in Exited, Exits(p, how)
  PROVE  IInv'
<1> USE SupervisorAssumption DEF units, disk, kernel, start, stop, bounds
<1>1. TypeOK'
  BY DEF IInv, TypeOK, States, Exited, Alive, Exits
<1>2. ServingInv'
  BY DEF IInv, TypeOK, ServingInv, Requested, Exits
<1>3. StopInv'
  BY DEF IInv, StopInv, Exits
<1>4. PidTablesNameOwnChildren'
  BY DEF IInv, TypeOK, PidTablesNameOwnChildren, Exited, Exits
<1>5. TransientStatesEnd'
  BY DEF IInv, TypeOK, StopInv, TransientStatesEnd, Exits
<1>6. ActiveServiceHasProcess'
  BY DEF IInv, TypeOK, ActiveServiceHasProcess, Exits
<1>7. NoRestartDuringShutdown'
  BY DEF IInv, TypeOK, StopInv, NoRestartDuringShutdown, GoingDown, Exits
<1>8. QED BY <1>1, <1>2, <1>3, <1>4, <1>5, <1>6, <1>7 DEF IInv

\* So does one that is killed.
LEMMA DiesStep ==
  ASSUME IInv, NEW p \in Pids, Dies(p)
  PROVE  IInv'
<1> USE SupervisorAssumption DEF units, disk, kernel, start, stop, bounds
<1>1. TypeOK'
  BY DEF IInv, TypeOK, States, Exited, Alive, Dies
<1>2. ServingInv'
  BY DEF IInv, TypeOK, ServingInv, Requested, Dies
<1>3. StopInv'
  BY DEF IInv, StopInv, Dies
<1>4. PidTablesNameOwnChildren'
  BY DEF IInv, TypeOK, StopInv, PidTablesNameOwnChildren, Dies
<1>5. TransientStatesEnd'
  BY DEF IInv, TypeOK, StopInv, TransientStatesEnd, Dies
<1>6. ActiveServiceHasProcess'
  BY DEF IInv, TypeOK, ActiveServiceHasProcess, Dies
<1>7. NoRestartDuringShutdown'
  BY DEF IInv, TypeOK, StopInv, NoRestartDuringShutdown, GoingDown, Dies
<1>8. QED BY <1>1, <1>2, <1>3, <1>4, <1>5, <1>6, <1>7 DEF IInv

\* A signal waits on the signalfd.
LEMMA SendSignalStep ==
  ASSUME IInv, NEW s \in ExternalSignals, SendSignal(s)
  PROVE  IInv'
<1> USE SupervisorAssumption DEF units, disk, kernel, start, stop, bounds
<1>1. TypeOK'
  BY DEF IInv, TypeOK, States, Exited, Alive, SendSignal
<1>2. ServingInv'
  BY DEF IInv, TypeOK, ServingInv, Requested, SendSignal
<1>3. QED BY <1>1, <1>2, SameFrame DEF tables, SendSignal

\* A connection waits behind the request being served.
LEMMA ConnectStep ==
  ASSUME IInv, NEW r \in Requests, Connect(r)
  PROVE  IInv'
<1> USE SupervisorAssumption DEF units, disk, kernel, start, stop, bounds
<1>1. TypeOK'
  BY DEF IInv, TypeOK, States, Exited, Alive, Connect
<1>2. ServingInv'
  <2>1. conns \in Seq(Requests) /\ conns' = Append(conns, r)
    BY DEF IInv, TypeOK, Connect
  <2>2. conns' # <<>> /\ (conns # <<>> => Head(conns') = Head(conns))
    BY <2>1
  <2>3. UNCHANGED <<pc, ret, stubs, todo, pid>> /\ ServingInv
    BY DEF IInv, Connect
  <2>4. QED BY <2>2, <2>3 DEF ServingInv, Requested
<1>3. QED BY <1>1, <1>2, SameFrame DEF tables, Connect

\* A client that leaves without a line changes nothing.
LEMMA SilentClientLeavesStep ==
  ASSUME IInv, SilentClientLeaves
  PROVE  IInv'
<1> USE SupervisorAssumption DEF units, disk, kernel, start, stop, bounds
<1>1. TypeOK'
  BY DEF IInv, TypeOK, States, Exited, Alive, SilentClientLeaves, Serving, Reply
<1>2. ServingInv'
  BY DEF IInv, TypeOK, ServingInv, Requested, SilentClientLeaves, Serving, Reply
<1>3. QED BY <1>1, <1>2, Frame DEF tables, SilentClientLeaves, Serving, Reply

\* Time moves deadlines and ages only, and no deadline below zero.
LEMMA TickStep ==
  ASSUME IInv, Tick
  PROVE  IInv'
<1> USE SupervisorAssumption DEF units, disk, kernel, start, stop, bounds
<1>1. TypeOK'
  <2>1. budget' \in Nat
    BY DEF IInv, TypeOK, Tick, Sooner
  <2>2. pending' \in Seq(Restart)
    <3>1. \A i \in DOMAIN pending : pending[i] \in Restart
      BY DEF IInv, TypeOK
    <3>2. \A i \in DOMAIN pending : [pending[i] EXCEPT !.left = Sooner(@)] \in Restart
      BY <3>1 DEF Restart, Sooner
    <3>3. pending \in Seq(Restart)
      BY DEF IInv, TypeOK
    <3>4. pending' \in [DOMAIN pending -> Restart]
      BY <3>2 DEF Tick
    <3>5. QED BY <3>3, <3>4, Entrywise
  <2>3. history' \in [Service -> Seq(Nat)]
    <3>1. ASSUME NEW u \in Service
          PROVE  [i \in DOMAIN history[u] |->
                    IF history[u][i] <= Interval[u] THEN history[u][i] + 1 ELSE history[u][i]]
                   \in Seq(Nat)
      <4>1. history[u] \in Seq(Nat)
        BY DEF IInv, TypeOK
      <4>2. \A i \in DOMAIN history[u] : history[u][i] \in Nat
        BY <4>1
      <4>3. [i \in DOMAIN history[u] |->
               IF history[u][i] <= Interval[u] THEN history[u][i] + 1 ELSE history[u][i]]
              \in [DOMAIN history[u] -> Nat]
        BY <4>2
      <4>4. QED BY <4>1, <4>3, Entrywise
    <3>2. QED BY <3>1 DEF Tick
  <2>4. /\ TypeOK
        /\ UNCHANGED <<state, pid, byPid, shuttingDown, disk, kernel, conns, pc, evs, shutReq,
                       start, stop, bounds>>
    BY DEF IInv, Tick
  <2>5. QED BY <2>1, <2>2, <2>3, <2>4 DEF TypeOK
<1>2. ServingInv'
  BY DEF IInv, TypeOK, ServingInv, Requested, Tick, Sooner
<1>3. StopInv'
  BY DEF IInv, StopInv, Tick, Sooner
<1>4. PidTablesNameOwnChildren'
  BY DEF IInv, TypeOK, StopInv, PidTablesNameOwnChildren, Tick, Sooner
<1>5. TransientStatesEnd'
  BY DEF IInv, TypeOK, StopInv, TransientStatesEnd, Tick, Sooner
<1>6. ActiveServiceHasProcess'
  BY DEF IInv, TypeOK, ActiveServiceHasProcess, Tick, Sooner
<1>7. NoRestartDuringShutdown'
  BY DEF IInv, TypeOK, StopInv, NoRestartDuringShutdown, GoingDown, Tick, Sooner
<1>8. QED BY <1>1, <1>2, <1>3, <1>4, <1>5, <1>6, <1>7 DEF IInv

\* After a power cycle the tables are empty.
LEMMA PowerCycleStep ==
  ASSUME IInv, PowerCycle
  PROVE  IInv'
<1> USE SupervisorAssumption DEF units, disk, kernel, start, stop, bounds
<1>1. TypeOK'
  <2>1. state' \in [Units -> States] /\ pid' \in [Units -> Pids \cup {NoPid}]
    BY DEF PowerCycle, States
  <2>2. history' \in [Service -> Seq(Nat)] /\ pending' \in Seq(Restart)
    BY DEF PowerCycle
  <2>3. /\ byPid' \in [Pids -> Service \cup {NoUnit}]
        /\ proc' \in [Pids -> Exited \cup Alive \cup {"free"}]
    BY DEF PowerCycle
  <2>4. conns' \in Seq(Requests) /\ todo' \in Seq(Units)
    BY DEF PowerCycle
  <2>5. boots' \in Nat
    BY DEF IInv, TypeOK, PowerCycle
  <2>6. QED BY <2>1, <2>2, <2>3, <2>4, <2>5 DEF IInv, TypeOK, PowerCycle
<1>2. ServingInv'
  BY DEF IInv, TypeOK, ServingInv, Requested, PowerCycle
<1>3. StopInv'
  BY DEF IInv, StopInv, PowerCycle
<1>4. PidTablesNameOwnChildren'
  BY DEF IInv, TypeOK, StopInv, PidTablesNameOwnChildren, PowerCycle
<1>5. TransientStatesEnd'
  BY DEF IInv, TypeOK, StopInv, TransientStatesEnd, PowerCycle
<1>6. ActiveServiceHasProcess'
  BY DEF IInv, TypeOK, ActiveServiceHasProcess, PowerCycle
<1>7. NoRestartDuringShutdown'
  BY DEF IInv, TypeOK, StopInv, NoRestartDuringShutdown, GoingDown, PowerCycle
<1>8. QED BY <1>1, <1>2, <1>3, <1>4, <1>5, <1>6, <1>7 DEF IInv

\* main::run has a plan, or gives up.
LEMMA BootStep ==
  ASSUME IInv, Boot
  PROVE  IInv'
<1> USE SupervisorAssumption DEF units, disk, kernel, start, stop, bounds
<1>1. TypeOK'
  <2>1. virtual' \in SUBSET Units
    BY DEF Boot
  <2>2. StartPlan(virtual', DefaultTarget).units \in Seq(Units)
    BY <2>1, PlanTypes
  <2>3. todo' \in Seq(Units) /\ pc' \in {"start", "exited"}
    BY <2>2 DEF Boot
  <2>4. QED BY <2>1, <2>3 DEF IInv, TypeOK, Boot
<1>2. ServingInv'
  BY DEF IInv, TypeOK, ServingInv, Requested, Boot
<1>3. QED BY <1>1, <1>2, Frame DEF tables, Boot

\* main::run gives up before there is anything to supervise.
LEMMA BootFailsStep ==
  ASSUME IInv, BootFails
  PROVE  IInv'
<1> USE SupervisorAssumption DEF units, disk, kernel, start, stop, bounds
<1>1. TypeOK'
  BY DEF IInv, TypeOK, States, Exited, Alive, BootFails
<1>2. ServingInv'
  BY DEF IInv, TypeOK, ServingInv, Requested, BootFails
<1>3. QED BY <1>1, <1>2, Frame DEF tables, BootFails

\* start_named passes over an Active unit.
LEMMA SkipActiveStep ==
  ASSUME IInv, NEW u \in Units, SkipActive(u)
  PROVE  IInv'
<1> USE SupervisorAssumption DEF units, disk, kernel, start, stop, bounds
<1>1. TypeOK'
  BY DEF IInv, TypeOK, States, Exited, Alive, SkipActive, Starting
<1>2. ServingInv'
  BY DEF IInv, TypeOK, ServingInv, Requested, SkipActive, Starting
<1>3. QED BY <1>1, <1>2, Frame DEF tables, SkipActive, Starting

\* A refused unit becomes Failed, and keeps its process if it has one.
LEMMA RefuseStartStep ==
  ASSUME IInv, NEW u \in Units, RefuseStart(u)
  PROVE  IInv'
<1> USE SupervisorAssumption DEF units, disk, kernel, start, stop, bounds
<1>1. TypeOK'
  BY DEF IInv, TypeOK, States, Exited, Alive, RefuseStart, Starting
<1>2. ServingInv'
  BY DEF IInv, TypeOK, ServingInv, Requested, RefuseStart, Starting
<1>3. StopInv'
  BY DEF IInv, StopInv, RefuseStart, Starting
<1>4. PidTablesNameOwnChildren'
  BY DEF IInv, TypeOK, StopInv, PidTablesNameOwnChildren, RefuseStart, Starting
<1>5. TransientStatesEnd'
  BY DEF IInv, TypeOK, StopInv, TransientStatesEnd, RefuseStart, Starting
<1>6. ActiveServiceHasProcess'
  BY DEF IInv, TypeOK, ActiveServiceHasProcess, RefuseStart, Starting
<1>7. NoRestartDuringShutdown'
  BY DEF IInv, TypeOK, StopInv, NoRestartDuringShutdown, GoingDown, RefuseStart, Starting
<1>8. QED BY <1>1, <1>2, <1>3, <1>4, <1>5, <1>6, <1>7 DEF IInv

\* A target has no process.
LEMMA StartTargetStep ==
  ASSUME IInv, NEW u \in Units, StartTarget(u)
  PROVE  IInv'
<1> USE SupervisorAssumption DEF units, disk, kernel, start, stop, bounds
<1>1. TypeOK'
  BY DEF IInv, TypeOK, States, Exited, Alive, StartTarget, MayStart, Starting
<1>2. ServingInv'
  BY DEF IInv, TypeOK, ServingInv, Requested, StartTarget, MayStart, Starting
<1>3. StopInv'
  BY DEF IInv, StopInv, StartTarget, MayStart, Starting
<1>4. PidTablesNameOwnChildren'
  BY DEF IInv, TypeOK, StopInv, PidTablesNameOwnChildren, StartTarget, MayStart, Starting
<1>5. TransientStatesEnd'
  BY DEF IInv, TypeOK, StopInv, TransientStatesEnd, StartTarget, MayStart, Starting
<1>6. ActiveServiceHasProcess'
  BY DEF IInv, TypeOK, ActiveServiceHasProcess, StartTarget, MayStart, Starting
<1>7. NoRestartDuringShutdown'
  BY DEF IInv, TypeOK, StopInv, NoRestartDuringShutdown, GoingDown, StartTarget, MayStart, Starting
<1>8. QED BY <1>1, <1>2, <1>3, <1>4, <1>5, <1>6, <1>7 DEF IInv

\* A failed spawn leaves the tables as they were.
LEMMA SpawnFailsStep ==
  ASSUME IInv, NEW u \in Units, SpawnFails(u)
  PROVE  IInv'
<1> USE SupervisorAssumption DEF units, disk, kernel, start, stop, bounds
<1>1. TypeOK'
  BY DEF IInv, TypeOK, States, Exited, Alive, SpawnFails, MayStart, Starting
<1>2. ServingInv'
  BY DEF IInv, TypeOK, ServingInv, Requested, SpawnFails, MayStart, Starting
<1>3. StopInv'
  BY DEF IInv, StopInv, SpawnFails, MayStart, Starting
<1>4. PidTablesNameOwnChildren'
  BY DEF IInv, TypeOK, StopInv, PidTablesNameOwnChildren, SpawnFails, MayStart, Starting
<1>5. TransientStatesEnd'
  BY DEF IInv, TypeOK, StopInv, TransientStatesEnd, SpawnFails, MayStart, Starting
<1>6. ActiveServiceHasProcess'
  BY DEF IInv, TypeOK, ActiveServiceHasProcess, SpawnFails, MayStart, Starting
<1>7. NoRestartDuringShutdown'
  BY DEF IInv, TypeOK, StopInv, NoRestartDuringShutdown, GoingDown, SpawnFails, MayStart, Starting
<1>8. QED BY <1>1, <1>2, <1>3, <1>4, <1>5, <1>6, <1>7 DEF IInv

\* The pid of a new process was free, so no unit was filed under it.
LEMMA StartServiceStep ==
  ASSUME IInv, NEW u \in Units, NEW p \in Pids, StartService(u, p)
  PROVE  IInv'
<1> USE SupervisorAssumption DEF units, disk, kernel, start, stop, bounds
<1>1. TypeOK'
  BY DEF IInv, TypeOK, States, Exited, Alive, StartService, Spawn, Fork, MayStart, Starting
<1>2. ServingInv'
  BY DEF IInv, TypeOK, ServingInv, Requested, StartService, Spawn, Fork, MayStart, Starting
<1>3. StopInv'
  BY DEF IInv, StopInv, StartService, Spawn, Fork, MayStart, Starting
<1>4. PidTablesNameOwnChildren'
  BY NoUnitIsNone DEF IInv, TypeOK, StopInv, PidTablesNameOwnChildren, StartService, Spawn, Fork,
       MayStart, Starting
<1>5. TransientStatesEnd'
  BY DEF IInv, TypeOK, StopInv, TransientStatesEnd, StartService, Spawn, Fork, MayStart, Starting
<1>6. ActiveServiceHasProcess'
  BY DEF IInv, TypeOK, ActiveServiceHasProcess, StartService, Spawn, Fork, MayStart, Starting
<1>7. NoRestartDuringShutdown'
  BY DEF IInv, TypeOK, StopInv, NoRestartDuringShutdown, GoingDown, StartService, Spawn, Fork, MayStart, Starting
<1>8. QED BY <1>1, <1>2, <1>3, <1>4, <1>5, <1>6, <1>7 DEF IInv

\* The same for a oneshot, which is then waited for.
LEMMA StartOneshotStep ==
  ASSUME IInv, NEW u \in Units, NEW p \in Pids, StartOneshot(u, p)
  PROVE  IInv'
<1> USE SupervisorAssumption DEF units, disk, kernel, start, stop, bounds
<1>1. TypeOK'
  BY DEF IInv, TypeOK, States, Exited, Alive, StartOneshot, Spawn, Fork, MayStart, Starting
<1>2. ServingInv'
  BY DEF IInv, TypeOK, ServingInv, Requested, StartOneshot, Spawn, Fork, MayStart, Starting
<1>3. StopInv'
  BY DEF IInv, StopInv, StartOneshot, Spawn, Fork, MayStart, Starting
<1>4. PidTablesNameOwnChildren'
  BY NoUnitIsNone DEF IInv, TypeOK, StopInv, PidTablesNameOwnChildren, StartOneshot, Spawn, Fork,
       MayStart, Starting
<1>5. TransientStatesEnd'
  BY DEF IInv, TypeOK, StopInv, TransientStatesEnd, StartOneshot, Spawn, Fork, MayStart, Starting
<1>6. ActiveServiceHasProcess'
  BY DEF IInv, TypeOK, ActiveServiceHasProcess, StartOneshot, Spawn, Fork, MayStart, Starting
<1>7. NoRestartDuringShutdown'
  BY DEF IInv, TypeOK, StopInv, NoRestartDuringShutdown, GoingDown, StartOneshot, Spawn, Fork, MayStart, Starting
<1>8. QED BY <1>1, <1>2, <1>3, <1>4, <1>5, <1>6, <1>7 DEF IInv

\* wait_oneshot reaped the oneshot: it loses pid and Activating together.
LEMMA OneshotExitsStep ==
  ASSUME IInv, NEW u \in Units, OneshotExits(u)
  PROVE  IInv'
<1> USE SupervisorAssumption DEF units, disk, kernel, start, stop, bounds
<1>1. TypeOK'
  <2>1. todo' \in Seq(Units)
    BY DEF IInv, TypeOK, ServingInv, OneshotExits, OneshotOver
  <2>2. state' \in [Units -> States]
    BY DEF IInv, TypeOK, States, OneshotExits, OneshotOver
  <2>3. /\ pid' \in [Units -> Pids \cup {NoPid}]
        /\ byPid' \in [Pids -> Service \cup {NoUnit}]
        /\ proc' \in [Pids -> Exited \cup Alive \cup {"free"}]
    BY DEF IInv, TypeOK, OneshotExits, OneshotOver
  <2>4. QED BY <2>1, <2>2, <2>3 DEF IInv, TypeOK, OneshotExits, OneshotOver
<1>2. ServingInv'
  BY DEF IInv, TypeOK, ServingInv, Requested, OneshotExits, OneshotOver
<1>3. StopInv'
  BY DEF IInv, StopInv, OneshotExits, OneshotOver
<1>4. PidTablesNameOwnChildren'
  BY DEF IInv, TypeOK, StopInv, PidTablesNameOwnChildren, OneshotExits, OneshotOver
<1>5. TransientStatesEnd'
  BY DEF IInv, TypeOK, StopInv, TransientStatesEnd, OneshotExits, OneshotOver
<1>6. ActiveServiceHasProcess'
  BY DEF IInv, TypeOK, ActiveServiceHasProcess, OneshotExits, OneshotOver
<1>7. NoRestartDuringShutdown'
  BY DEF IInv, TypeOK, StopInv, NoRestartDuringShutdown, GoingDown, OneshotExits, OneshotOver
<1>8. QED BY <1>1, <1>2, <1>3, <1>4, <1>5, <1>6, <1>7 DEF IInv

\* wait_oneshot killed and reaped it: the same.
LEMMA OneshotTimesOutStep ==
  ASSUME IInv, NEW u \in Units, OneshotTimesOut(u)
  PROVE  IInv'
<1> USE SupervisorAssumption DEF units, disk, kernel, start, stop, bounds
<1>1. TypeOK'
  <2>1. todo' \in Seq(Units)
    BY DEF IInv, TypeOK, ServingInv, OneshotTimesOut, OneshotOver
  <2>2. state' \in [Units -> States]
    BY DEF IInv, TypeOK, States, OneshotTimesOut, OneshotOver
  <2>3. /\ pid' \in [Units -> Pids \cup {NoPid}]
        /\ byPid' \in [Pids -> Service \cup {NoUnit}]
        /\ proc' \in [Pids -> Exited \cup Alive \cup {"free"}]
    BY DEF IInv, TypeOK, OneshotTimesOut, OneshotOver
  <2>4. QED BY <2>1, <2>2, <2>3 DEF IInv, TypeOK, OneshotTimesOut, OneshotOver
<1>2. ServingInv'
  BY DEF IInv, TypeOK, ServingInv, Requested, OneshotTimesOut, OneshotOver
<1>3. StopInv'
  BY DEF IInv, StopInv, OneshotTimesOut, OneshotOver
<1>4. PidTablesNameOwnChildren'
  BY DEF IInv, TypeOK, StopInv, PidTablesNameOwnChildren, OneshotTimesOut, OneshotOver
<1>5. TransientStatesEnd'
  BY DEF IInv, TypeOK, StopInv, TransientStatesEnd, OneshotTimesOut, OneshotOver
<1>6. ActiveServiceHasProcess'
  BY DEF IInv, TypeOK, ActiveServiceHasProcess, OneshotTimesOut, OneshotOver
<1>7. NoRestartDuringShutdown'
  BY DEF IInv, TypeOK, StopInv, NoRestartDuringShutdown, GoingDown, OneshotTimesOut, OneshotOver
<1>8. QED BY <1>1, <1>2, <1>3, <1>4, <1>5, <1>6, <1>7 DEF IInv

\* The transaction returns to where it was asked for.
LEMMA StartDoneStep ==
  ASSUME IInv, StartDone
  PROVE  IInv'
<1> USE SupervisorAssumption DEF units, disk, kernel, start, stop, bounds
<1>1. TypeOK'
  <2>1. conns' \in Seq(Requests)
    BY DEF IInv, TypeOK, ServingInv, StartDone
  <2>2. QED BY <2>1 DEF IInv, TypeOK, StartDone
<1>2. ServingInv'
  BY DEF IInv, TypeOK, ServingInv, Requested, StartDone
<1>3. QED BY <1>1, <1>2, Frame DEF tables, IInv, TypeOK, StartDone

\* epoll_wait returns.
LEMMA PollStep ==
  ASSUME IInv, Poll
  PROVE  IInv'
<1> USE SupervisorAssumption DEF units, disk, kernel, start, stop, bounds
<1>1. TypeOK'
  BY DEF IInv, TypeOK, States, Exited, Alive, Poll
<1>2. ServingInv'
  BY DEF IInv, TypeOK, ServingInv, Requested, Poll
<1>3. QED BY <1>1, <1>2, Frame DEF tables, Poll

\* The next ready descriptor is handled.
LEMMA NextEventStep ==
  ASSUME IInv, NEW e \in {"signals", "control"}, NextEvent(e)
  PROVE  IInv'
<1> USE SupervisorAssumption DEF units, disk, kernel, start, stop, bounds
<1>1. TypeOK'
  BY DEF IInv, TypeOK, States, Exited, Alive, NextEvent
<1>2. ServingInv'
  BY DEF IInv, TypeOK, ServingInv, Requested, NextEvent
<1>3. QED BY <1>1, <1>2, Frame DEF tables, NextEvent

\* All of them are.
LEMMA EventsDoneStep ==
  ASSUME IInv, EventsDone
  PROVE  IInv'
<1> USE SupervisorAssumption DEF units, disk, kernel, start, stop, bounds
<1>1. TypeOK'
  BY DEF IInv, TypeOK, States, Exited, Alive, EventsDone
<1>2. ServingInv'
  BY DEF IInv, TypeOK, ServingInv, Requested, EventsDone
<1>3. QED BY <1>1, <1>2, Frame DEF tables, EventsDone

\* A signal is read; SIGTERM begins the shutdown.
LEMMA ReadSignalStep ==
  ASSUME IInv, NEW s \in {"CHLD", "TERM", "HUP"}, ReadSignal(s)
  PROVE  IInv'
<1> USE SupervisorAssumption DEF units, disk, kernel, start, stop, bounds
<1>0. /\ shuttingDown' \in BOOLEAN /\ pending' \in Seq(Restart)
      /\ proc' \in [Pids -> Exited \cup Alive \cup {"free"}]
      /\ \A p \in Pids : proc'[p] = "free" <=> proc[p] = "free"
  <2>1. CASE s = "TERM"
    BY <2>1, ShutdownKeeps DEF ReadSignal
  <2>2. CASE s # "TERM"
    BY <2>2 DEF IInv, TypeOK, ReadSignal
  <2>3. QED BY <2>1, <2>2
<1>1. TypeOK'
  BY <1>0 DEF IInv, TypeOK, ReadSignal
<1>2. ServingInv'
  BY DEF IInv, TypeOK, ServingInv, Requested, ReadSignal, InitiateShutdown
<1>3. StopInv'
  BY DEF IInv, StopInv, ReadSignal, InitiateShutdown
<1>4. PidTablesNameOwnChildren'
  BY <1>0 DEF IInv, TypeOK, StopInv, PidTablesNameOwnChildren, ReadSignal
<1>5. TransientStatesEnd'
  BY DEF IInv, TypeOK, StopInv, TransientStatesEnd, ReadSignal, InitiateShutdown
<1>6. ActiveServiceHasProcess'
  BY DEF IInv, TypeOK, ActiveServiceHasProcess, ReadSignal, InitiateShutdown
<1>7. NoRestartDuringShutdown'
  BY DEF IInv, TypeOK, StopInv, NoRestartDuringShutdown, GoingDown, ReadSignal, InitiateShutdown
<1>8. QED BY <1>1, <1>2, <1>3, <1>4, <1>5, <1>6, <1>7 DEF IInv

\* The signalfd is empty.
LEMMA SignalsDrainedStep ==
  ASSUME IInv, SignalsDrained
  PROVE  IInv'
<1> USE SupervisorAssumption DEF units, disk, kernel, start, stop, bounds
<1>1. TypeOK'
  BY DEF IInv, TypeOK, States, Exited, Alive, SignalsDrained
<1>2. ServingInv'
  BY DEF IInv, TypeOK, ServingInv, Requested, SignalsDrained
<1>3. QED BY <1>1, <1>2, Frame DEF tables, SignalsDrained

\* on_child_exit in the event loop.
LEMMA ReapStep ==
  ASSUME IInv, NEW p \in Pids, Reap(p)
  PROVE  IInv'
<1> USE SupervisorAssumption DEF units, disk, kernel, start, stop, bounds
<1>0. /\ proc[p] # "free" /\ byPid[p] \in Service
      /\ proc' = [proc EXCEPT ![p] = "free"]
      /\ byPid' = [byPid EXCEPT ![p] = NoUnit]
      /\ pid' = [pid EXCEPT ![byPid[p]] = NoPid]
      /\ \E q \in {"Inactive", "Failed"} : state' = [state EXCEPT ![byPid[p]] = q]
      /\ history' \in [Service -> Seq(Nat)]
      /\ pending' \in Seq(Restart)
      /\ shuttingDown => pending' = pending
  BY ChildExit DEF Reap
<1>1. TypeOK'
  BY <1>0 DEF IInv, TypeOK, States, Reap
<1>2. ServingInv'
  BY DEF IInv, TypeOK, ServingInv, Requested, Reap
<1>3. StopInv'
  BY DEF IInv, StopInv, Reap
<1>4. PidTablesNameOwnChildren'
  BY <1>0, NoUnitIsNone DEF IInv, TypeOK, StopInv, PidTablesNameOwnChildren, Reap
<1>5. TransientStatesEnd'
  BY <1>0 DEF IInv, TypeOK, TransientStatesEnd, Reap
<1>6. ActiveServiceHasProcess'
  BY <1>0 DEF IInv, TypeOK, ActiveServiceHasProcess, Reap
<1>7. NoRestartDuringShutdown'
  BY <1>0 DEF IInv, NoRestartDuringShutdown, GoingDown, Reap
<1>8. QED BY <1>1, <1>2, <1>3, <1>4, <1>5, <1>6, <1>7 DEF IInv

\* waitpid finds nothing more.
LEMMA ReapDoneStep ==
  ASSUME IInv, ReapDone
  PROVE  IInv'
<1> USE SupervisorAssumption DEF units, disk, kernel, start, stop, bounds
<1>1. TypeOK'
  BY DEF IInv, TypeOK, States, Exited, Alive, ReapDone
<1>2. ServingInv'
  BY DEF IInv, TypeOK, ServingInv, Requested, ReapDone
<1>3. QED BY <1>1, <1>2, Frame DEF tables, ReapDone

\* The due restarts move from the list to the transaction.
LEMMA FireDueRestartsStep ==
  ASSUME IInv, FireDueRestarts
  PROVE  IInv'
<1> USE SupervisorAssumption DEF units, disk, kernel, start, stop, bounds
<1>0. PICK due \in Ascending(Due), rest \in Ascending(DOMAIN pending \ Due) :
        /\ todo' = [i \in DOMAIN due |-> pending[due[i]].unit]
        /\ pending' = Select(pending, rest)
  BY DEF FireDueRestarts, Select
<1>a. /\ Select(pending, due) \in Seq(Restart)
      /\ Select(pending, rest) \in Seq(Restart)
      /\ pending = <<>> => Select(pending, rest) = <<>>
  <2>1. /\ pending \in Seq(Restart)
        /\ Due \in SUBSET DOMAIN pending /\ DOMAIN pending \ Due \in SUBSET DOMAIN pending
    BY DEF IInv, TypeOK, Due
  <2>2. QED BY <2>1, <1>0, Selection
<1>b. todo' \in Seq(Units)
  <2>1. \A i \in DOMAIN Select(pending, due) : Select(pending, due)[i] \in Restart
    BY <1>a
  <2>2. \A i \in DOMAIN Select(pending, due) : Select(pending, due)[i].unit \in Units
    BY <2>1 DEF Restart
  <2>3. todo' = [i \in DOMAIN Select(pending, due) |-> Select(pending, due)[i].unit]
    BY <1>0 DEF Select
  <2>4. todo' \in [DOMAIN Select(pending, due) -> Units]
    BY <2>2, <2>3
  <2>5. QED BY <1>a, <2>4, Entrywise
<1>1. TypeOK'
  BY <1>0, <1>a, <1>b DEF IInv, TypeOK, FireDueRestarts
<1>2. ServingInv'
  BY DEF IInv, TypeOK, ServingInv, Requested, FireDueRestarts
<1>3. StopInv'
  BY DEF IInv, StopInv, FireDueRestarts
<1>4. PidTablesNameOwnChildren'
  BY DEF IInv, TypeOK, StopInv, PidTablesNameOwnChildren, FireDueRestarts
<1>5. TransientStatesEnd'
  BY DEF IInv, TypeOK, StopInv, TransientStatesEnd, FireDueRestarts
<1>6. ActiveServiceHasProcess'
  BY DEF IInv, TypeOK, ActiveServiceHasProcess, FireDueRestarts
<1>7. NoRestartDuringShutdown'
  BY <1>0, <1>a DEF IInv, NoRestartDuringShutdown, GoingDown, FireDueRestarts
<1>8. QED BY <1>1, <1>2, <1>3, <1>4, <1>5, <1>6, <1>7 DEF IInv

\* The loop goes on or returns.
LEMMA ExitCheckStep ==
  ASSUME IInv, ExitCheck
  PROVE  IInv'
<1> USE SupervisorAssumption DEF units, disk, kernel, start, stop, bounds
<1>1. TypeOK'
  BY DEF IInv, TypeOK, States, Exited, Alive, ExitCheck
<1>2. ServingInv'
  BY DEF IInv, TypeOK, ServingInv, Requested, ExitCheck
<1>3. QED BY <1>1, <1>2, Frame DEF tables, ExitCheck

\* START plans, or replies.
LEMMA HandleStartStep ==
  ASSUME IInv, HandleStart
  PROVE  IInv'
<1> USE SupervisorAssumption DEF units, disk, kernel, start, stop, bounds
<1>0. /\ todo' \in Seq(Units) /\ skip' \in BOOLEAN /\ ret' \in {"poll", "control", "exit"}
      /\ conns' \in Seq(Requests) /\ pc' \in {"start", "control"}
  <2>1. TypeOK /\ conns # <<>> /\ virtual \in SUBSET Units
    BY DEF IInv, TypeOK, HandleStart, Serving
  <2>2. CASE Head(conns).gone
    BY <2>1, <2>2, RequestTypes DEF TypeOK, HandleStart, Reply
  <2>3. CASE ~Head(conns).gone
    BY <2>1, <2>3, StartNamedTypes DEF HandleStart
  <2>4. QED BY <2>2, <2>3
<1>1. TypeOK'
  BY <1>0 DEF IInv, TypeOK, HandleStart
<1>2. ServingInv'
  BY DEF IInv, TypeOK, ServingInv, Requested, HandleStart, StartNamed, Serving, Reply
<1>3. QED BY <1>1, <1>2, Frame DEF tables, HandleStart, StartNamed, Serving, Reply

\* STOP, RESTART and DISABLE begin a stop, or reply.
LEMMA HandleStopStep ==
  ASSUME IInv, HandleStop
  PROVE  IInv'
<1>1. TypeOK /\ pc = "control" /\ conns # <<>> /\ virtual \in SUBSET Units
  BY DEF IInv, TypeOK, HandleStop, Serving
<1>2. Requested \in Names /\ Tail(conns) \in Seq(Requests)
  BY <1>1, RequestTypes
<1>3. StopPlan(virtual, Requested).units \in Seq(Units)
  BY <1>1, <1>2, PlanTypes
<1>4. CASE /\ BeginStop(StopPlan(virtual, Requested).units)
           /\ UNCHANGED stubs
  BY <1>1, <1>3, <1>4, BeginStopStep DEF HandleStop, disk
<1>5. CASE Reply /\ StopFails /\ (RemoveStub \/ UNCHANGED stubs)
  <2>1. stubs' \in SUBSET Names
    BY <1>1, <1>5 DEF TypeOK, RemoveStub
  <2>2. /\ conns' = Tail(conns) /\ pc' = "control"
        /\ UNCHANGED <<units, shuttingDown, proc, stop, budget, virtual, sigs, evs, shutReq,
                       start, bounds>>
    BY <1>5 DEF HandleStop, Reply, StopFails
  <2>3. TypeOK'
    BY <1>1, <1>2, <2>1, <2>2 DEF TypeOK, units, stop, start, bounds
  <2>4. ServingInv'
    BY <2>2 DEF ServingInv
  <2>5. QED BY <1>1, <2>2, <2>3, <2>4, Frame DEF tables
<1>6. QED BY <1>4, <1>5 DEF HandleStop

\* on_child_exit in the wait of stop_unit: the child may belong to the plan or
\* not, and is no longer waited for.
LEMMA DrainReapStep ==
  ASSUME IInv, NEW p \in Pids, DrainReap(p)
  PROVE  IInv'
<1> USE SupervisorAssumption DEF units, disk, kernel, start, stop, bounds
<1>0. /\ proc[p] # "free" /\ byPid[p] \in Service
      /\ proc' = [proc EXCEPT ![p] = "free"]
      /\ byPid' = [byPid EXCEPT ![p] = NoUnit]
      /\ pid' = [pid EXCEPT ![byPid[p]] = NoPid]
      /\ \E q \in {"Inactive", "Failed"} : state' = [state EXCEPT ![byPid[p]] = q]
      /\ history' \in [Service -> Seq(Nat)]
      /\ pending' \in Seq(Restart)
      /\ shuttingDown => pending' = pending
  BY ChildExit DEF DrainReap
<1>1. TypeOK'
  <2>1. TypeOK /\ Service \subseteq Units
    BY DEF IInv
  <2>2. state' \in [Units -> States] /\ pid' \in [Units -> Pids \cup {NoPid}]
    BY <1>0, <2>1 DEF TypeOK, States
  <2>3. /\ byPid' \in [Pids -> Service \cup {NoUnit}]
        /\ proc' \in [Pids -> Exited \cup Alive \cup {"free"}]
    BY <1>0, <2>1 DEF TypeOK
  <2>4. expected' \in SUBSET Pids
    BY <2>1 DEF TypeOK, DrainReap
  <2>5. QED BY <1>0, <2>1, <2>2, <2>3, <2>4 DEF TypeOK, DrainReap
<1>2. ServingInv'
  BY DEF IInv, TypeOK, ServingInv, Requested, DrainReap
<1>3. StopInv'
  BY DEF IInv, StopInv, DrainReap
<1>4. PidTablesNameOwnChildren'
  BY <1>0, NoUnitIsNone DEF IInv, TypeOK, StopInv, PidTablesNameOwnChildren, DrainReap
<1>5. TransientStatesEnd'
  BY <1>0 DEF IInv, TypeOK, PidTablesNameOwnChildren, TransientStatesEnd, DrainReap
<1>6. ActiveServiceHasProcess'
  BY <1>0 DEF IInv, TypeOK, ActiveServiceHasProcess, DrainReap
<1>7. NoRestartDuringShutdown'
  BY <1>0 DEF IInv, StopInv, NoRestartDuringShutdown, GoingDown, DrainReap
<1>8. QED BY <1>1, <1>2, <1>3, <1>4, <1>5, <1>6, <1>7 DEF IInv

\* SIGKILL takes no process off the table.
LEMMA EscalateStep ==
  ASSUME IInv, Escalate
  PROVE  IInv'
<1> USE SupervisorAssumption DEF units, disk, kernel, start, stop, bounds
<1>1. TypeOK'
  BY DEF IInv, TypeOK, States, Exited, Alive, Escalate
<1>2. ServingInv'
  BY DEF IInv, TypeOK, ServingInv, Requested, Escalate
<1>3. StopInv'
  BY DEF IInv, StopInv, Escalate
<1>4. PidTablesNameOwnChildren'
  BY DEF IInv, TypeOK, StopInv, PidTablesNameOwnChildren, Escalate
<1>5. TransientStatesEnd'
  BY DEF IInv, TypeOK, StopInv, TransientStatesEnd, Escalate
<1>6. ActiveServiceHasProcess'
  BY DEF IInv, TypeOK, ActiveServiceHasProcess, Escalate
<1>7. NoRestartDuringShutdown'
  BY DEF IInv, TypeOK, StopInv, NoRestartDuringShutdown, GoingDown, Escalate
<1>8. QED BY <1>1, <1>2, <1>3, <1>4, <1>5, <1>6, <1>7 DEF IInv

\* Nothing is waited for any more, so nothing is Deactivating.
LEMMA DrainDoneStep ==
  ASSUME IInv, DrainDone
  PROVE  IInv'
<1> USE SupervisorAssumption DEF units, disk, kernel, start, stop, bounds
<1>1. TypeOK'
  BY DEF IInv, TypeOK, States, Exited, Alive, DrainDone
<1>2. ServingInv'
  BY DEF IInv, TypeOK, ServingInv, Requested, DrainDone
<1>3. StopInv'
  BY DEF IInv, StopInv, DrainDone
<1>4. PidTablesNameOwnChildren'
  BY DEF IInv, TypeOK, StopInv, PidTablesNameOwnChildren, DrainDone
<1>5. TransientStatesEnd'
  BY DEF IInv, TypeOK, StopInv, TransientStatesEnd, DrainDone
<1>6. ActiveServiceHasProcess'
  BY DEF IInv, TypeOK, ActiveServiceHasProcess, DrainDone
<1>7. NoRestartDuringShutdown'
  BY DEF IInv, TypeOK, StopInv, NoRestartDuringShutdown, GoingDown, DrainDone
<1>8. QED BY <1>1, <1>2, <1>3, <1>4, <1>5, <1>6, <1>7 DEF IInv

\* stop_unit gives the flag back as it found it.
LEMMA StoppedStep ==
  ASSUME IInv, Stopped
  PROVE  IInv'
<1> USE SupervisorAssumption DEF units, disk, kernel, start, stop, bounds
<1>0. /\ todo' \in Seq(Units) /\ skip' \in BOOLEAN /\ ret' \in {"poll", "control", "exit"}
      /\ conns' \in Seq(Requests) /\ pc' \in {"start", "control"}
  <2>1. TypeOK /\ conns # <<>> /\ virtual \in SUBSET Units
    BY DEF IInv, TypeOK, ServingInv, Stopped
  <2>2. CASE StartNamed(virtual, Requested)
    BY <2>1, <2>2, StartNamedTypes
  <2>3. CASE Reply /\ UNCHANGED start
    BY <2>1, <2>3, RequestTypes DEF TypeOK, Reply
  <2>4. QED BY <2>2, <2>3 DEF Stopped
<1>1. TypeOK'
  <2>1. stubs' \in SUBSET Names
    BY DEF IInv, TypeOK, Stopped, RemoveStub
  <2>2. QED BY <1>0, <2>1 DEF IInv, TypeOK, Stopped
<1>2. ServingInv'
  BY DEF IInv, TypeOK, ServingInv, Requested, Stopped, StartNamed, Reply, RemoveStub
<1>3. StopInv'
  BY DEF IInv, StopInv, Stopped, StartNamed, Reply, RemoveStub
<1>4. PidTablesNameOwnChildren'
  BY DEF IInv, TypeOK, StopInv, PidTablesNameOwnChildren, Stopped, StartNamed, Reply, RemoveStub
<1>5. TransientStatesEnd'
  BY DEF IInv, TypeOK, StopInv, TransientStatesEnd, Stopped, StartNamed, Reply, RemoveStub
<1>6. ActiveServiceHasProcess'
  BY DEF IInv, TypeOK, ActiveServiceHasProcess, Stopped, StartNamed, Reply, RemoveStub
<1>7. NoRestartDuringShutdown'
  BY DEF IInv, TypeOK, StopInv, NoRestartDuringShutdown, GoingDown, Stopped, StartNamed, Reply, RemoveStub
<1>8. QED BY <1>1, <1>2, <1>3, <1>4, <1>5, <1>6, <1>7 DEF IInv

\* ENABLE of an unknown unit, or with a failing disk, only replies.
LEMMA EnableRefusedStep ==
  ASSUME IInv, EnableRefused
  PROVE  IInv'
<1> USE SupervisorAssumption DEF units, disk, kernel, start, stop, bounds
<1>1. TypeOK'
  BY DEF IInv, TypeOK, States, Exited, Alive, EnableRefused, Serving, Reply
<1>2. ServingInv'
  BY DEF IInv, TypeOK, ServingInv, Requested, EnableRefused, Serving, Reply
<1>3. QED BY <1>1, <1>2, Frame DEF tables, EnableRefused, Serving, Reply

\* ENABLE wrote the stub.
LEMMA EnablePersistStep ==
  ASSUME IInv, EnablePersist
  PROVE  IInv'
<1> USE SupervisorAssumption DEF units, disk, kernel, start, stop, bounds
<1>1. TypeOK'
  <2>1. conns' \in Seq(Requests) /\ pc' \in {"control", "enable"}
    BY RequestTypes DEF IInv, TypeOK, EnablePersist, Serving, Reply
  <2>2. stubs' \in SUBSET Names
    BY UnitsAssumption DEF IInv, TypeOK, EnablePersist
  <2>3. QED BY <2>1, <2>2 DEF IInv, TypeOK, EnablePersist
<1>2. ServingInv'
  BY DEF IInv, TypeOK, ServingInv, Requested, EnablePersist, Serving, Reply
<1>3. QED BY <1>1, <1>2, Frame DEF tables, EnablePersist, Serving, Reply

\* ENABLE injects the edge and starts the unit.
LEMMA EnableStartStep ==
  ASSUME IInv, EnableStart
  PROVE  IInv'
<1> USE SupervisorAssumption DEF units, disk, kernel, start, stop, bounds
<1>0. /\ virtual' \in SUBSET Units
      /\ todo' \in Seq(Units) /\ skip' \in BOOLEAN /\ ret' \in {"poll", "control", "exit"}
      /\ conns' \in Seq(Requests) /\ pc' \in {"start", "control"}
  <2>1. TypeOK /\ conns # <<>> /\ Requested \in Units
    BY DEF IInv, ServingInv, EnableStart
  <2>2. virtual' \in SUBSET Units
    BY <2>1 DEF TypeOK, EnableStart
  <2>3. CASE StartNamed(virtual', Requested)
    BY <2>1, <2>2, <2>3, StartNamedTypes
  <2>4. CASE Reply /\ UNCHANGED start
    BY <2>1, <2>2, <2>4, RequestTypes DEF TypeOK, Reply
  <2>5. QED BY <2>3, <2>4 DEF EnableStart
<1>1. TypeOK'
  BY <1>0 DEF IInv, TypeOK, EnableStart
<1>2. ServingInv'
  BY DEF IInv, TypeOK, ServingInv, Requested, EnableStart, StartNamed, Reply
<1>3. QED BY <1>1, <1>2, Frame DEF tables, EnableStart, StartNamed, Reply

\* SHUTDOWN is noted.
LEMMA HandleShutdownStep ==
  ASSUME IInv, HandleShutdown
  PROVE  IInv'
<1> USE SupervisorAssumption DEF units, disk, kernel, start, stop, bounds
<1>1. TypeOK'
  BY DEF IInv, TypeOK, States, Exited, Alive, HandleShutdown, Serving, Reply
<1>2. ServingInv'
  BY DEF IInv, TypeOK, ServingInv, Requested, HandleShutdown, Serving, Reply
<1>3. QED BY <1>1, <1>2, Frame DEF tables, HandleShutdown, Serving, Reply

\* A SHUTDOWN that was noted takes effect.
LEMMA ControlDoneStep ==
  ASSUME IInv, ControlDone
  PROVE  IInv'
<1> USE SupervisorAssumption DEF units, disk, kernel, start, stop, bounds
<1>0. /\ shuttingDown' \in BOOLEAN /\ pending' \in Seq(Restart)
      /\ proc' \in [Pids -> Exited \cup Alive \cup {"free"}]
      /\ \A p \in Pids : proc'[p] = "free" <=> proc[p] = "free"
  <2>1. CASE shutReq
    BY <2>1, ShutdownKeeps DEF ControlDone
  <2>2. CASE ~shutReq
    BY <2>2 DEF IInv, TypeOK, ControlDone
  <2>3. QED BY <2>1, <2>2
<1>1. TypeOK'
  BY <1>0 DEF IInv, TypeOK, ControlDone
<1>2. ServingInv'
  BY DEF IInv, TypeOK, ServingInv, Requested, ControlDone, InitiateShutdown
<1>3. StopInv'
  BY DEF IInv, StopInv, ControlDone, InitiateShutdown
<1>4. PidTablesNameOwnChildren'
  BY <1>0 DEF IInv, TypeOK, StopInv, PidTablesNameOwnChildren, ControlDone
<1>5. TransientStatesEnd'
  BY DEF IInv, TypeOK, StopInv, TransientStatesEnd, ControlDone, InitiateShutdown
<1>6. ActiveServiceHasProcess'
  BY DEF IInv, TypeOK, ActiveServiceHasProcess, ControlDone, InitiateShutdown
<1>7. NoRestartDuringShutdown'
  BY DEF IInv, TypeOK, StopInv, NoRestartDuringShutdown, GoingDown, ControlDone, InitiateShutdown
<1>8. QED BY <1>1, <1>2, <1>3, <1>4, <1>5, <1>6, <1>7 DEF IInv

------------------------------------------------------------------------------
\* A machine that has just been switched on has empty tables.
LEMMA InitIInv == Init => IInv
<1> SUFFICES ASSUME Init PROVE IInv
  OBVIOUS
<1> USE SupervisorAssumption DEF Init
<1>1. TypeOK
  <2>1. history \in [Service -> Seq(Nat)] /\ pending \in Seq(Restart) /\ conns \in Seq(Requests)
    OBVIOUS
  <2>2. state \in [Units -> States] /\ pid \in [Units -> Pids \cup {NoPid}]
    BY DEF States
  <2>3. /\ byPid \in [Pids -> Service \cup {NoUnit}] /\ todo \in Seq(Units)
        /\ proc \in [Pids -> Exited \cup Alive \cup {"free"}]
    OBVIOUS
  <2>4. QED BY <2>1, <2>2, <2>3 DEF TypeOK
<1>2. ServingInv /\ StopInv /\ NoRestartDuringShutdown
  BY DEF ServingInv, StopInv, NoRestartDuringShutdown
<1>3. PidTablesNameOwnChildren /\ TransientStatesEnd /\ ActiveServiceHasProcess
  BY DEF PidTablesNameOwnChildren, TransientStatesEnd, ActiveServiceHasProcess
<1>4. QED BY <1>1, <1>2, <1>3 DEF IInv

\* Every step of the supervisor, of the kernel and of the clients keeps the
\* tables consistent.
LEMMA NextIInv == IInv /\ [Next]_vars => IInv'
<1> SUFFICES ASSUME IInv, [Next]_vars PROVE IInv'
  OBVIOUS
<1>1. CASE Environment
  BY <1>1, ExitsStep, DiesStep, SendSignalStep, ConnectStep, SilentClientLeavesStep, TickStep,
     PowerCycleStep DEF Environment
<1>2. CASE StartUnit
  BY <1>2, SkipActiveStep, RefuseStartStep, StartTargetStep, SpawnFailsStep, StartServiceStep,
     StartOneshotStep, OneshotExitsStep, OneshotTimesOutStep, StartDoneStep DEF StartUnit
<1>3. CASE EventLoop
  BY <1>3, PollStep, NextEventStep, EventsDoneStep, ReadSignalStep, SignalsDrainedStep, ReapStep,
     ReapDoneStep, FireDueRestartsStep, ExitCheckStep DEF EventLoop
<1>4. CASE Control
  BY <1>4, HandleStartStep, HandleStopStep, DrainReapStep, EscalateStep, DrainDoneStep,
     StoppedStep, EnableRefusedStep, EnablePersistStep, EnableStartStep, HandleShutdownStep,
     ControlDoneStep DEF Control
<1>5. CASE UNCHANGED vars
  <2>1. TypeOK'
    BY <1>5 DEF IInv, TypeOK, vars, units, disk, kernel, start, stop, bounds
  <2>2. ServingInv'
    BY <1>5 DEF IInv, ServingInv, Requested, vars, units, disk, start
  <2>3. QED BY <1>5, <2>1, <2>2, SameFrame DEF vars, tables, kernel, start
<1>6. QED BY <1>1, <1>2, <1>3, <1>4, <1>5, BootStep, BootFailsStep DEF Next, System

\* The inductive invariant holds in every behaviour.
THEOREM Invariance == Spec => []IInv
BY InitIInv, NextIInv, PTL DEF Spec

\* The supervisor keeps its types, over power cycles too: no deadline becomes
\* negative and no table names anything but a unit or a pid.
THEOREM TypeCorrect == Spec => []TypeOK
<1>1. IInv => TypeOK
  BY DEF IInv
<1>2. QED BY <1>1, Invariance, PTL

\* Whatever exits, is started, stopped or restarted in whatever order, the
\* supervisor signals and waits for its own unreaped children only (by_pid,
\* UnitMeta.pid and stop_unit's expected).
THEOREM TablesCorrect == Spec => []PidTablesNameOwnChildren
<1>1. IInv => PidTablesNameOwnChildren
  BY DEF IInv
<1>2. QED BY <1>1, Invariance, PTL

\* Activating and Deactivating never outlive wait_oneshot and stop_unit.
THEOREM TransientCorrect == Spec => []TransientStatesEnd
<1>1. IInv => TransientStatesEnd
  BY DEF IInv
<1>2. QED BY <1>1, Invariance, PTL

\* An Active service always has a process (start_unit_internal, on_child_exit).
THEOREM ActiveCorrect == Spec => []ActiveServiceHasProcess
<1>1. IInv => ActiveServiceHasProcess
  BY DEF IInv
<1>2. QED BY <1>1, Invariance, PTL

\* No restart is pending once initiate_shutdown has run, whatever stop_unit
\* does to the flag afterwards.
THEOREM ShutdownQuiet == Spec => []NoRestartDuringShutdown
<1>1. IInv => NoRestartDuringShutdown
  BY DEF IInv
<1>2. QED BY <1>1, Invariance, PTL

------------------------------------------------------------------------------
\* What the supervisor itself does to the flag: initiate_shutdown sets it,
\* stop_unit borrows it and gives it back.
LEMMA FlagStep ==
  ASSUME IInv, Next, GoingDown, boots' = boots
  PROVE  GoingDown'
<1> USE DEF GoingDown, units, disk, kernel, start, stop, bounds
<1>1. CASE Environment
  <2>1. ~PowerCycle
    BY DEF PowerCycle, IInv, TypeOK
  <2>2. CASE Tick \/ SilentClientLeaves
    BY <2>2 DEF Tick, SilentClientLeaves, Serving, Reply
  <2>3. CASE \/ \E p \in Pids, how \in Exited : Exits(p, how)
             \/ \E p \in Pids : Dies(p)
             \/ \E s \in ExternalSignals : SendSignal(s)
             \/ \E r \in Requests : Connect(r)
    BY <2>3 DEF Exits, Dies, SendSignal, Connect
  <2>4. QED BY <1>1, <2>1, <2>2, <2>3 DEF Environment
<1>2. CASE StartUnit
  BY <1>2 DEF StartUnit, SkipActive, RefuseStart, StartTarget, SpawnFails, StartService,
     StartOneshot, OneshotExits, OneshotTimesOut, OneshotOver, StartDone, MayStart, Starting,
     IInv, TypeOK
<1>3. CASE EventLoop
  BY <1>3 DEF EventLoop, Poll, NextEvent, EventsDone, ReadSignal, InitiateShutdown,
     SignalsDrained, Reap, ReapDone, FireDueRestarts, ExitCheck
<1>4. CASE Control
  <2>1. CASE HandleStart
    BY <2>1 DEF HandleStart, Serving, StartNamed, Reply
  <2>2. CASE HandleStop
    <3>1. pc = "control" /\ shuttingDown
      BY <2>2 DEF HandleStop, Serving
    <3>2. CASE BeginStop(StopPlan(virtual, Requested).units)
      <4>1. was' = shuttingDown /\ pc' \in {"stopped", "drain"}
        BY <3>2 DEF BeginStop
      <4>2. QED BY <3>1, <4>1
    <3>3. CASE Reply /\ StopFails
      BY <3>1, <3>3 DEF Reply, StopFails
    <3>4. QED BY <2>2, <3>2, <3>3 DEF HandleStop
  <2>3. CASE DrainDone \/ Escalate \/ \E p \in Pids : DrainReap(p)
    BY <2>3 DEF DrainDone, Escalate, DrainReap
  <2>4. CASE Stopped
    BY <2>4 DEF Stopped, StartNamed, Reply
  <2>5. CASE EnableRefused \/ EnablePersist \/ EnableStart
    BY <2>5 DEF EnableRefused, EnablePersist, EnableStart, Serving, StartNamed, Reply
  <2>6. CASE HandleShutdown \/ ControlDone
    BY <2>6 DEF HandleShutdown, ControlDone, InitiateShutdown, Serving, Reply
  <2>7. QED BY <1>4, <2>1, <2>2, <2>3, <2>4, <2>5, <2>6 DEF Control
<1>5. CASE Boot \/ BootFails
  BY <1>5 DEF Boot, BootFails
<1>6. QED BY <1>1, <1>2, <1>3, <1>4, <1>5 DEF Next, System

\* A shutdown is never taken back, whatever is stopped, restarted, started or
\* reaped in the middle of it.
THEOREM ShutdownIrrevocable == Spec => ShutdownIsFinal
<1>1. IInv /\ [Next]_vars => [GoingDown /\ boots' = boots => GoingDown']_vars
  BY FlagStep
<1>2. QED BY <1>1, Invariance, PTL DEF Spec, ShutdownIsFinal

\* Only a boot, which reads enabled.d, and ENABLE, which has written to it,
\* make multi-user.target want a unit.
THEOREM EnableIsDurable == Spec => EnablePersistsFirst
<1>1. ASSUME IInv, Next PROVE virtual' \subseteq virtual \cup stubs
  <2> USE DEF disk
  <2>1. CASE Environment
    BY <1>1, <2>1 DEF Environment, Exits, Dies, SendSignal, Connect, SilentClientLeaves, Tick,
       PowerCycle
  <2>2. CASE StartUnit
    BY <1>1, <2>2 DEF StartUnit, SkipActive, RefuseStart, StartTarget, SpawnFails, StartService,
       StartOneshot, OneshotExits, OneshotTimesOut, OneshotOver, StartDone
  <2>3. CASE EventLoop
    BY <1>1, <2>3 DEF EventLoop, Poll, NextEvent, EventsDone, ReadSignal, SignalsDrained, Reap,
       ReapDone, FireDueRestarts, ExitCheck
  <2>4. CASE EnableStart
    BY <1>1, <2>4 DEF EnableStart, IInv, ServingInv
  <2>5. CASE Control /\ ~EnableStart
    BY <1>1, <2>5 DEF Control, HandleStart, HandleStop, DrainReap, Escalate, DrainDone, Stopped,
       EnableRefused, EnablePersist, HandleShutdown, ControlDone
  <2>6. CASE Boot \/ BootFails
    BY <1>1, <2>6 DEF Boot, BootFails
  <2>7. QED BY <1>1, <2>1, <2>2, <2>3, <2>4, <2>5, <2>6 DEF Next, System
<1>2. IInv /\ [Next]_vars => [virtual' \subseteq virtual \cup stubs]_vars
  BY <1>1
<1>3. QED BY <1>2, Invariance, PTL DEF Spec, EnablePersistsFirst

------------------------------------------------------------------------------
\* maybe_schedule_restart keeps the recent attempts, adds one only below the
\* limit, and touches the history of no other unit.
LEMMA RateOfExit ==
  ASSUME IInv, RestartRateLimited, NEW p \in Pids, OnChildExit(p)
  PROVE  RestartRateLimited'
<1> DEFINE u == byPid[p]
           c == Cardinality(Recent(u))
<1>1. TypeOK /\ u \in Service /\ u # NoUnit
  BY ChildExit, NoUnitIsNone DEF IInv
<1>2. CASE UNCHANGED history
  BY <1>2 DEF RestartRateLimited, Recent
<1>3. CASE \E left : ScheduleRestart(u, left)
  <2>1. PICK f \in Ascending(Recent(u)) :
          \/ history' = [history EXCEPT ![u] = Select(history[u], f)]
          \/ /\ ~(Burst[u] > 0 /\ Len(Select(history[u], f)) >= Burst[u])
             /\ history' = [history EXCEPT ![u] = Append(Select(history[u], f), 0)]
    BY <1>3 DEF ScheduleRestart, Select
  <2>2. history[u] \in Seq(Nat) /\ Recent(u) \in SUBSET DOMAIN history[u]
    BY <1>1 DEF TypeOK, Recent
  <2>3. IsFiniteSet(Recent(u)) /\ c \in Nat
    <3>1. DOMAIN history[u] = 1 .. Len(history[u]) /\ 1 \in Int /\ Len(history[u]) \in Int
      BY <2>2
    <3>2. IsFiniteSet(DOMAIN history[u])
      BY <3>1, FS_Interval
    <3>3. QED BY <2>2, <3>2, FS_Subset, FS_CardinalityType
  <2> DEFINE recent == Select(history[u], f)
  <2>4. recent \in Seq(Nat)
    BY <2>2, Selection
  <2>5. DOMAIN recent = 1 .. c
    BY <2>3 DEF Select, Ascending
  <2> HIDE DEF recent, c
  <2>6. Len(recent) = c
    BY <2>3, <2>4, <2>5
  <2>7. ASSUME NEW v \in Service, Burst[v] > 0 PROVE Cardinality(Recent(v)') <= Burst[v]
    <3>1. CASE v # u
      <4>1. history'[v] = history[v]
        BY <1>1, <2>1, <3>1 DEF TypeOK
      <4>2. Recent(v)' = Recent(v)
        BY <4>1 DEF Recent
      <4>3. QED BY <2>7, <4>2 DEF RestartRateLimited
    <3>2. CASE v = u
      <4>1. c <= Burst[u]
        BY <2>7, <3>2 DEF RestartRateLimited, c
      <4>2. PICK n \in Nat : n <= Burst[u] /\ DOMAIN history'[v] = 1 .. n
        <5>1. CASE history' = [history EXCEPT ![u] = recent]
          BY <1>1, <2>3, <2>5, <3>2, <4>1, <5>1 DEF TypeOK
        <5>2. CASE /\ ~(Burst[u] > 0 /\ Len(recent) >= Burst[u])
                   /\ history' = [history EXCEPT ![u] = Append(recent, 0)]
          <6>1. c + 1 <= Burst[u]
            BY <1>1, <2>3, <2>6, <2>7, <3>2, <5>2, SupervisorAssumption
          <6>2. history'[v] = Append(recent, 0)
            BY <1>1, <3>2, <5>2 DEF TypeOK
          <6>3. DOMAIN Append(recent, 0) = 1 .. c + 1
            BY <2>4, <2>6
          <6>4. QED BY <2>3, <6>1, <6>2, <6>3
        <5>3. QED BY <2>1, <5>1, <5>2 DEF recent
      <4>3. IsFiniteSet(1 .. n) /\ Cardinality(1 .. n) = n
        BY FS_CountingElements, FS_Interval
      <4>4. Recent(v)' \subseteq 1 .. n
        BY <4>2 DEF Recent
      <4>5. Cardinality(Recent(v)') <= n /\ Cardinality(Recent(v)') \in Nat
        BY <4>3, <4>4, FS_Subset, FS_CardinalityType
      <4>6. QED BY <1>1, <3>2, <4>2, <4>5, SupervisorAssumption
    <3>3. QED BY <3>1, <3>2
  <2>8. QED BY <2>7 DEF RestartRateLimited
<1>4. QED BY <1>1, <1>2, <1>3 DEF OnChildExit

\* Attempts only grow older.
LEMMA RateOfTick ==
  ASSUME IInv, RestartRateLimited, Tick
  PROVE  RestartRateLimited'
<1>1. TypeOK
  BY DEF IInv
<1>2. ASSUME NEW u \in Service, Burst[u] > 0 PROVE Cardinality(Recent(u)') <= Burst[u]
  <2>1. history[u] \in Seq(Nat) /\ Interval[u] \in Nat /\ Burst[u] \in Nat
    BY <1>1, SupervisorAssumption DEF TypeOK
  <2>2. history'[u] = [i \in DOMAIN history[u] |->
                         IF history[u][i] <= Interval[u] THEN history[u][i] + 1
                         ELSE history[u][i]]
    BY DEF Tick
  <2>3. Recent(u)' \subseteq Recent(u)
    BY <2>1, <2>2 DEF Recent
  <2>4. IsFiniteSet(Recent(u))
    <3>1. DOMAIN history[u] = 1 .. Len(history[u]) /\ 1 \in Int /\ Len(history[u]) \in Int
      BY <2>1
    <3>2. IsFiniteSet(DOMAIN history[u])
      BY <3>1, FS_Interval
    <3>3. Recent(u) \subseteq DOMAIN history[u]
      BY DEF Recent
    <3>4. QED BY <3>2, <3>3, FS_Subset
  <2>5. /\ Cardinality(Recent(u)') <= Cardinality(Recent(u))
        /\ Cardinality(Recent(u)') \in Nat /\ Cardinality(Recent(u)) \in Nat
    BY <2>3, <2>4, FS_Subset, FS_CardinalityType
  <2>6. Cardinality(Recent(u)) <= Burst[u]
    BY <1>2 DEF RestartRateLimited
  <2>7. QED BY <2>1, <2>5, <2>6
<1>3. QED BY <1>2 DEF RestartRateLimited

\* Exits, time and power alone change a history.
LEMMA RateStep == IInv /\ RestartRateLimited /\ [Next]_vars => RestartRateLimited'
<1> SUFFICES ASSUME IInv, RestartRateLimited, [Next]_vars PROVE RestartRateLimited'
  OBVIOUS
<1>1. CASE UNCHANGED history
  BY <1>1 DEF RestartRateLimited, Recent
<1>2. CASE \E p \in Pids : Reap(p) \/ DrainReap(p)
  BY <1>2, RateOfExit DEF Reap, DrainReap
<1>3. CASE PowerCycle
  <2>1. ASSUME NEW u \in Service PROVE Recent(u)' = {}
    <3>1. history'[u] = <<>>
      BY <1>3 DEF PowerCycle
    <3>2. QED BY <3>1 DEF Recent
  <2>2. Cardinality({}) = 0
    BY FS_EmptySet
  <2>3. QED BY <2>1, <2>2, SupervisorAssumption DEF RestartRateLimited
<1> USE DEF units
<1>4. CASE Environment
  BY <1>1, <1>3, <1>4, RateOfTick DEF Environment, Exits, Dies, SendSignal, Connect,
     SilentClientLeaves
<1>5. CASE StartUnit
  BY <1>1, <1>5 DEF StartUnit, SkipActive, RefuseStart, StartTarget, SpawnFails, StartService,
     StartOneshot, OneshotExits, OneshotTimesOut, OneshotOver, StartDone
<1>6. CASE EventLoop
  BY <1>1, <1>2, <1>6 DEF EventLoop, Poll, NextEvent, EventsDone, ReadSignal, SignalsDrained,
     ReapDone, FireDueRestarts, ExitCheck
<1>7. CASE Control
  <2>1. CASE HandleStop
    <3>1. UNCHANGED history
      BY <2>1 DEF HandleStop, BeginStop, StopFails
    <3>2. QED BY <1>1, <3>1
  <2>2. QED BY <1>1, <1>2, <1>7, <2>1 DEF Control, HandleStart, Escalate, DrainDone, Stopped,
          EnableRefused, EnablePersist, EnableStart, HandleShutdown, ControlDone
<1>8. CASE Boot \/ BootFails
  BY <1>1, <1>8 DEF Boot, BootFails
<1>9. CASE UNCHANGED vars
  BY <1>1, <1>9 DEF vars
<1>10. QED BY <1>4, <1>5, <1>6, <1>7, <1>8, <1>9 DEF Next, System

\* A service never has more than start-limit-burst restarts scheduled within
\* start-limit-interval-sec, however its crashes fall on the clock.
THEOREM RateCorrect == Spec => []RestartRateLimited
<1>1. Init => RestartRateLimited
  <2> SUFFICES ASSUME Init, NEW u \in Service, Burst[u] > 0
               PROVE  Cardinality(Recent(u)) <= Burst[u]
    BY DEF RestartRateLimited
  <2>1. history[u] = <<>>
    BY DEF Init
  <2>2. Recent(u) = {}
    BY <2>1 DEF Recent
  <2>3. Cardinality({}) = 0
    BY FS_EmptySet
  <2>4. QED BY <2>2, <2>3, SupervisorAssumption
<1>2. QED BY <1>1, RateStep, Invariance, PTL DEF Spec

==============================================================================
