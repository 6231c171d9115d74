---------------------------- MODULE MCSupervisor -----------------------------
(***************************************************************************)
(* Instances of Supervisor for TLC.  The plans come from the registry, by  *)
(* the reference definition that Transaction is checked against.           *)
(***************************************************************************)
EXTENDS Supervisor, TLC

Unknown == 9
MCNames == Units \cup {Unknown}

Enabled(enabled) == AddWantedBy(Reg, MultiUser, enabled)

\* Computed once, as a set: the plans are asked for in every state.
Planning ==
  {[kind |-> k, enabled |-> e, name |-> n, plan |-> Plan(Enabled(e), k, n)]
     : k \in {"start", "stop"}, e \in SUBSET Units, n \in Names}

PlanOf(k, e, n) ==
  (CHOOSE p \in Planning : p.kind = k /\ p.enabled = e /\ p.name = n).plan

MCStartPlan(enabled, name) == PlanOf("start", enabled, name)
MCStopPlan(enabled, name)  == PlanOf("stop", enabled, name)

\* Pids are only compared.
Symmetry == Permutations(Pids)

Each(value) == [u \in Service |-> value]

\* default.target (0) requires 1 and 2; 2 requires 1; each starts after what
\* it requires.
None == [u \in Units |-> {}]
ChainRequires == [u \in Units |-> CASE u = 0 -> {1, 2} [] u = 1 -> {} [] OTHER -> {1}]
ChainAfter == [u \in Units |-> CASE u = 0 -> <<1, 2>> [] u = 1 -> <<Unknown>> [] OTHER -> <<1>>]

Chain ==
  FromLoaded([wants |-> None, requires |-> ChainRequires, bindsTo |-> None,
              after |-> ChainAfter, before |-> [u \in Units |-> <<>>]],
             [wantedBy |-> None, requiredBy |-> None])

Ask(cmd, unit) == [cmd |-> cmd, unit |-> unit, gone |-> FALSE]
HangUp(cmd, unit) == [cmd |-> cmd, unit |-> unit, gone |-> TRUE]

\* 1 restarts on failure, 2 always.
ChainPolicy == [u \in Service |-> IF u = 1 THEN "on-failure" ELSE "always"]
Always == Each("always")
Ones == Each(1)
Twos == Each(2)

Zeros == Each(0)

StopRequests == {Ask("STOP", 1), Ask("STOP", 2), Ask("SHUTDOWN", 0)}

ControlRequests ==
  {Ask("START", 1), Ask("START", Unknown), HangUp("START", 1), Ask("RESTART", 1),
   HangUp("RESTART", 0), HangUp("STOP", 1), Ask("DISABLE", 1), Ask("DISABLE", Unknown),
   Ask("ENABLE", 1), HangUp("ENABLE", 1), Ask("ENABLE", Unknown),
   Ask("SILENT", Unknown), Ask("SHUTDOWN", Unknown)}

\* 1 is a oneshot, 2 a service that requires it, 3 a oneshot wanted by the
\* target 0 and ordered between them.
BootRegistry ==
  FromLoaded([wants    |-> [u \in Units |-> IF u = 0 THEN {2, 3} ELSE {}],
              requires |-> [u \in Units |-> IF u = 2 THEN {1} ELSE {}],
              bindsTo  |-> None,
              after    |-> [u \in Units |-> IF u = 2 THEN <<1>> ELSE IF u = 0 THEN <<2>> ELSE <<>>],
              before   |-> [u \in Units |-> IF u = 3 THEN <<2>> ELSE <<>>]],
             [wantedBy   |-> None,
              requiredBy |-> [u \in Units |-> IF u = 2 THEN {0} ELSE IF u = 3 THEN {Unknown} ELSE {}]])

\* Services that do not depend on each other.
Independent ==
  FromLoaded([wants |-> [u \in Units |-> IF u = 0 THEN Service ELSE {}], requires |-> None,
              bindsTo |-> None,
              after |-> [u \in Units |-> <<>>], before |-> [u \in Units |-> <<>>]],
             [wantedBy |-> None, requiredBy |-> None])

NoRequests == {}
StartFirst == {Ask("START", 1)}
StopOrShutdown == {Ask("STOP", 1), Ask("SHUTDOWN", 0)}

==============================================================================
