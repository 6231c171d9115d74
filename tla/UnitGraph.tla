------------------------------ MODULE UnitGraph ------------------------------
(***************************************************************************)
(* The unit registry of writeonce-svc (crates/writeonce-svc/src/graph.rs): *)
(* the dependency directives of the loaded unit files, the edges they      *)
(* induce, and the reference definition of the activation and stop plans.  *)
(*                                                                         *)
(* A unit is its UnitId, the index of the unit in load order.  A directive *)
(* lists names; a name that is no loaded unit (a member of Names \ Units)  *)
(* is skipped wherever the code looks it up in by_name.                    *)
(***************************************************************************)
EXTENDS Integers, Sequences, FiniteSets

CONSTANTS Units,   \* UnitIds of the loaded units
          Names    \* what a directive or a request may name

ASSUME UnitsAssumption ==
  /\ Units \subseteq Nat
  /\ IsFiniteSet(Units)
  /\ Units \subseteq Names

(***************************************************************************)
(* A registry: the [unit] directives of every unit plus the edges lifted   *)
(* from the [install] sections of the others.  after and before keep their *)
(* order and their duplicates, since the code counts one edge per entry;   *)
(* the requirement directives are only ever read sorted and deduplicated.  *)
(***************************************************************************)
Registry ==
  [wants         : [Units -> SUBSET Names],
   requires      : [Units -> SUBSET Names],
   bindsTo       : [Units -> SUBSET Names],
   after         : [Units -> Seq(Names)],
   before        : [Units -> Seq(Names)],
   extraWants    : [Units -> SUBSET Units],
   extraRequires : [Units -> SUBSET Units]]

\* The reverse edges of a [install] directive: who names t.
Lift(install) == [t \in Units |-> {u \in Units : t \in install[u]}]

\* UnitRegistry::from_loaded: wanted-by and required-by become edges of the
\* unit they name.
FromLoaded(unit, install) ==
  [wants         |-> unit.wants,
   requires      |-> unit.requires,
   bindsTo       |-> unit.bindsTo,
   after         |-> unit.after,
   before        |-> unit.before,
   extraWants    |-> Lift(install.wantedBy),
   extraRequires |-> Lift(install.requiredBy)]

\* UnitRegistry::add_wanted_by for each of these units: nothing happens when
\* the target is not loaded.
AddWantedBy(reg, target, units) ==
  IF target \notin Units THEN reg
  ELSE [reg EXCEPT !.extraWants[target] = @ \cup units]

\* Mutant: names that are no loaded unit are kept.
RequirementTargetsDangling(reg, u) ==
  reg.wants[u] \cup reg.requires[u] \cup reg.bindsTo[u]
    \cup reg.extraWants[u] \cup reg.extraRequires[u]

RequirementTargets(reg, u) ==
  ((reg.wants[u] \cup reg.requires[u] \cup reg.bindsTo[u]) \cap Units)
    \cup reg.extraWants[u] \cup reg.extraRequires[u]

HardRequirementTargets(reg, u) ==
  ((reg.requires[u] \cup reg.bindsTo[u]) \cap Units) \cup reg.extraRequires[u]

\* The units with a requirement edge to u.
Dependents(reg, u) == {d \in Units : u \in RequirementTargets(reg, d)}

\* The edges a transaction is closed over: requirements when units are
\* started, dependents when they are stopped.
Neighbours(reg, kind, u) ==
  IF kind = "start" THEN RequirementTargets(reg, u) ELSE Dependents(reg, u)

(***************************************************************************)
(* Ordering edges.  Every entry of an After= or Before= list is an edge of *)
(* its own, so a repeated entry counts twice in the in-degree and twice in *)
(* the list of successors.                                                 *)
(***************************************************************************)
OrderEntries(reg) ==
  UNION {{[unit |-> u, directive |-> "after",  i |-> i] : i \in DOMAIN reg.after[u]}
           \cup
         {[unit |-> u, directive |-> "before", i |-> i] : i \in DOMAIN reg.before[u]}
           : u \in Units}

Named(reg, e) ==
  IF e.directive = "after" THEN reg.after[e.unit][e.i] ELSE reg.before[e.unit][e.i]

\* The edge goes from what must come first to what must come second.
First(reg, e)  == IF e.directive = "after" THEN Named(reg, e) ELSE e.unit
Second(reg, e) == IF e.directive = "after" THEN e.unit ELSE Named(reg, e)

\* The ordering edges with both ends in S.
OrderEdges(reg, S) == {e \in OrderEntries(reg) : e.unit \in S /\ Named(reg, e) \in S}

\* Mutant: hash-map order, without the sort.
Unsorted(S) ==
  {s \in [1 .. Cardinality(S) -> S] : \A x \in S : \E i \in DOMAIN s : s[i] = x}

\* Vec::sort_by_key on ids that are all different: the ascending enumeration
\* of S, as the only member of a set.
Ascending(S) ==
  {s \in [1 .. Cardinality(S) -> S] :
     /\ \A i, j \in DOMAIN s : i < j => s[i] < s[j]
     /\ \A x \in S : \E i \in DOMAIN s : s[i] = x}

Reversed(s) == [i \in 1 .. Len(s) |-> s[Len(s) + 1 - i]]

Elements(s) == {s[i] : i \in DOMAIN s}

------------------------------------------------------------------------------
(***************************************************************************)
(* Reference definition of the plans, without counting and without queues  *)
(* of hash-map entries: close the anchor under the edges, then repeatedly  *)
(* take the oldest unit all of whose predecessors are placed.              *)
(***************************************************************************)
\* T and the units one edge away from it.
Spread(reg, kind, T) == T \cup UNION {Neighbours(reg, kind, u) : u \in T}

\* The units at most n edges away from the anchor, for every n.
Reached(reg, kind, anchor) ==
  LET R[n \in 0 .. Cardinality(Units)] ==
        IF n = 0 THEN {anchor} ELSE Spread(reg, kind, R[n - 1])
  IN  R

ClosureOf(reg, kind, anchor) == Reached(reg, kind, anchor)[Cardinality(Units)]

\* x must come before y among the units of S.
Precedes(reg, S, x, y) ==
  \E e \in OrderEdges(reg, S) : First(reg, e) = x /\ Second(reg, e) = y

\* The units of S not seen yet whose predecessors are all done.
Placeable(reg, S, done, seen) ==
  {v \in S \ seen : \A x \in S : Precedes(reg, S, x, v) => x \in done}

InOrder(T) == CHOOSE s \in Ascending(T) : TRUE

\* The queue before the first turn, and one turn: the head of the queue is
\* placed and the units it was the last to hold back are enqueued.
FirstQueue(reg, S) == [ready |-> InOrder(Placeable(reg, S, {}, {})), sorted |-> <<>>]

Turn(reg, S, k) ==
  IF k.ready = <<>> THEN k
  ELSE LET sorted == Append(k.sorted, Head(k.ready))
           done   == Elements(sorted)
           next   == Placeable(reg, S, done, done \cup Elements(k.ready))
       IN  [ready |-> Tail(k.ready) \o InOrder(next), sorted |-> sorted]

\* Queue and order after n turns, for every n.
Turns(reg, S) ==
  LET K[n \in 0 .. Cardinality(S)] ==
        IF n = 0 THEN FirstQueue(reg, S) ELSE Turn(reg, S, K[n - 1])
  IN  K

TopologicalOrder(reg, S) == Turns(reg, S)[Cardinality(S)].sorted

\* What the two functions may return: a plan names a unit once.
Plans == {plan \in [ok : BOOLEAN, units : Seq(Units)] :
            \A i, j \in DOMAIN plan.units : plan.units[i] = plan.units[j] => i = j}

NoPlan == [ok |-> FALSE, units |-> <<>>]

\* build_transaction (kind = "start") and build_stop_transaction (kind =
\* "stop"): the ordered units, or an error.
Plan(reg, kind, anchor) ==
  IF anchor \notin Units THEN NoPlan
  ELSE LET S      == ClosureOf(reg, kind, anchor)
           sorted == TopologicalOrder(reg, S)
       IN  IF Len(sorted) # Cardinality(S) THEN NoPlan
           ELSE [ok    |-> TRUE,
                 units |-> IF kind = "start" THEN sorted ELSE Reversed(sorted)]

==============================================================================
